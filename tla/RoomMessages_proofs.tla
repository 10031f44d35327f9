------------------------- MODULE RoomMessages_proofs -------------------------
(* Proofs about RoomMessages, for any rooms and any bounds. What is sent: it  *)
(* is enqueued in order, none of it is forgotten, what is refused is offered, *)
(* and the files of an attachment are kept as long as they are needed. What   *)
(* is shown: a draft is of its room, an update of its window, and the bottom  *)
(* of a window is read.                                                       *)
EXTENDS RoomMessages, Queues_proofs, TLAPS

-----------------------------------------------------------------------------
(* Order *)

IsTask(t) == {"id", "room", "ahead"} \subseteq DOMAIN t

\* What the tasks of a lane have in common: a number of their own, behind those
\* that are enqueued already.
TasksInv ==
    /\ spawned \in Nat
    /\ tails \in [Rooms -> Nat] /\ enqueued \in [Rooms -> Nat]
    /\ \A r \in Rooms : enqueued[r] <= spawned
    /\ \A t \in tasks :
          /\ IsTask(t) /\ t.room \in Rooms
          /\ t.id \in Nat /\ t.id <= spawned /\ enqueued[t.room] < t.id
    /\ \A t, u \in tasks : t.id = u.id => t = u

\* Nothing of a room is before n but behind a task of that number that still runs.
Guards(n, u) == \E w \in tasks : w.id = n /\ w.room = u.room /\ u.id <= w.id

\* While anything sent before a task runs, the one it waits for does.
Chained == \A t, u \in tasks : u.room = t.room /\ u.id < t.id => Guards(t.ahead, u)

\* While anything of a room runs, the tail of its lane does, except at the end of
\* a session, when nothing is sent any more.
TailInv ==
    /\ session \in {"running", "ending", "out"}
    /\ session = "running" => \A u \in tasks : Guards(tails[u.room], u)
    /\ session = "out" => tasks = {}

LaneInv == TasksInv /\ Chained /\ TailInv

\* A new task waits for the tail, so for everything before it.
LEMMA SpawnKeeps ==
    ASSUME LaneInv, session = "running", session' = session,
           NEW r \in Rooms, NEW kind, NEW n, NEW pick, Spawn(r, kind, n, pick)
    PROVE  LaneInv'
<1> DEFINE new == Task(r, kind, n, pick)
<1>1. /\ spawned' = spawned + 1 /\ tasks' = tasks \cup {new}
      /\ tails' = [tails EXCEPT ![r] = spawned + 1]
      /\ enqueued' = enqueued
      BY DEF Spawn
<1>2. /\ IsTask(new) /\ new.room = r /\ new.id = spawned + 1 /\ new.ahead = tails[r]
      BY DEF Task, IsTask
<1> HIDE DEF new
<1>3. TasksInv'
  <2>1. spawned' \in Nat /\ tails' \in [Rooms -> Nat] /\ enqueued' \in [Rooms -> Nat]
        BY <1>1 DEF LaneInv, TasksInv
  <2>2. \A q \in Rooms : enqueued'[q] <= spawned'
        BY <1>1 DEF LaneInv, TasksInv
  <2>3. ASSUME NEW t \in tasks'
        PROVE  /\ IsTask(t) /\ t.room \in Rooms
               /\ t.id \in Nat /\ t.id <= spawned' /\ enqueued'[t.room] < t.id
        BY <1>1, <1>2 DEF LaneInv, TasksInv
  <2>4. ASSUME NEW t \in tasks', NEW u \in tasks', t.id = u.id
        PROVE  t = u
        BY <1>1, <1>2, <2>4 DEF LaneInv, TasksInv
  <2> QED BY <2>1, <2>2, <2>3, <2>4 DEF TasksInv, IsTask
<1>4. ASSUME NEW m, NEW u \in tasks, Guards(m, u)
      PROVE  Guards(m, u)'
      BY <1>1, <1>4 DEF Guards
<1>5. ASSUME NEW u \in tasks', u.room = r
      PROVE  Guards(tails[u.room], u)'
  <2>1. new \in tasks' /\ tails'[u.room] = new.id /\ new.room = u.room
        BY <1>1, <1>2, <1>5 DEF LaneInv, TasksInv
  <2>2. u.id <= new.id
        BY <1>1, <1>2 DEF LaneInv, TasksInv
  <2> QED BY <2>1, <2>2 DEF Guards
<1>6. Chained'
  <2> SUFFICES ASSUME NEW t \in tasks', NEW u \in tasks', u.room = t.room, u.id < t.id
               PROVE  Guards(t.ahead, u)'
      BY DEF Chained, Guards
  <2>1. CASE t \in tasks /\ u \in tasks
        BY <2>1, <1>4 DEF LaneInv, Chained
  <2>2. CASE t \in tasks /\ u = new
        BY <2>2, <1>2 DEF LaneInv, TasksInv
  <2>3. CASE t = new /\ u \in tasks
        BY <2>3, <1>2, <1>4 DEF LaneInv, TailInv
  <2>4. CASE t = new /\ u = new
        BY <2>4, <1>2 DEF LaneInv, TasksInv
  <2> QED BY <1>1, <2>1, <2>2, <2>3, <2>4
<1>7. TailInv'
  <2>1. ASSUME NEW u \in tasks'
        PROVE  Guards(tails[u.room], u)'
    <3>1. CASE u.room = r
          BY <3>1, <1>5
    <3>2. CASE u.room # r
          BY <3>2, <1>1, <1>2, <1>4 DEF LaneInv, TasksInv, TailInv
    <3> QED BY <3>1, <3>2
  <2> QED BY <2>1 DEF TailInv, Guards
<1> QED BY <1>3, <1>6, <1>7 DEF LaneInv

\* A task whose turn it is has nothing of its room before it.
LEMMA EndsKeeps ==
    ASSUME LaneInv, NEW t \in tasks, Ready(t), NEW ok, NEW said, Ends(t, ok, said)
    PROVE  LaneInv'
<1>1. /\ tasks' = tasks \ {t} /\ spawned' = spawned /\ tails' = tails
      /\ session' = session
      /\ \/ enqueued' = [enqueued EXCEPT ![t.room] = t.id]
         \/ enqueued' = enqueued
      BY DEF Ends
<1>2. ASSUME NEW u \in tasks, u.room = t.room
      PROVE  t.id <= u.id
      BY <1>2 DEF LaneInv, TasksInv, Chained, Guards, Ready
<1>3. TasksInv'
  <2>1. spawned' \in Nat /\ tails' \in [Rooms -> Nat] /\ enqueued' \in [Rooms -> Nat]
        BY <1>1 DEF LaneInv, TasksInv
  <2>2. \A q \in Rooms : enqueued'[q] <= spawned'
        BY <1>1 DEF LaneInv, TasksInv
  <2>3. ASSUME NEW u \in tasks'
        PROVE  /\ IsTask(u) /\ u.room \in Rooms
               /\ u.id \in Nat /\ u.id <= spawned' /\ enqueued'[u.room] < u.id
    <3>1. u \in tasks /\ u # t
          BY <1>1
    <3>2. CASE u.room = t.room
      <4>1. t.id <= u.id /\ t.id # u.id
            BY <1>2, <3>1, <3>2 DEF LaneInv, TasksInv
      <4> QED BY <1>1, <3>1, <3>2, <4>1 DEF LaneInv, TasksInv
    <3>3. CASE u.room # t.room
          BY <1>1, <3>1, <3>3 DEF LaneInv, TasksInv
    <3> QED BY <3>2, <3>3
  <2>4. ASSUME NEW u \in tasks', NEW v \in tasks', u.id = v.id
        PROVE  u = v
        BY <1>1, <2>4 DEF LaneInv, TasksInv
  <2> QED BY <2>1, <2>2, <2>3, <2>4 DEF TasksInv, IsTask
<1>4. ASSUME NEW m, NEW u \in tasks', Guards(m, u)
      PROVE  Guards(m, u)'
  <2>1. PICK w \in tasks : w.id = m /\ w.room = u.room /\ u.id <= w.id
        BY <1>4 DEF Guards
  <2>2. w # t
    <3> SUFFICES ASSUME w = t PROVE FALSE
        OBVIOUS
    <3>1. u \in tasks /\ u # t /\ u.room = t.room /\ u.id <= t.id
          BY <1>1, <2>1
    <3>2. t.id <= u.id
          BY <1>2, <3>1
    <3> QED BY <3>1, <3>2 DEF LaneInv, TasksInv
  <2> QED BY <1>1, <2>1, <2>2 DEF Guards
<1>5. Chained'
  <2> SUFFICES ASSUME NEW v \in tasks', NEW u \in tasks', u.room = v.room, u.id < v.id
               PROVE  Guards(v.ahead, u)'
      BY DEF Chained, Guards
  <2>1. Guards(v.ahead, u)
        BY <1>1 DEF LaneInv, Chained
  <2> QED BY <1>4, <2>1
<1>6. TailInv'
      BY <1>1, <1>4 DEF LaneInv, TailInv, Guards
<1> QED BY <1>3, <1>5, <1>6 DEF LaneInv

\* Tasks that change in place keep their number, room and turn.
Same(t, u) == t.id = u.id /\ t.room = u.room /\ t.ahead = u.ahead

\* Tasks that change nothing but their stage keep the lanes in order.
LEMMA RelabelKeeps ==
    ASSUME LaneInv, UNCHANGED <<session, spawned, tails, enqueued>>,
           \A x \in tasks' : IsTask(x) /\ \E t \in tasks : Same(x, t),
           \A t \in tasks : \E x \in tasks' : Same(x, t),
           \A x, y \in tasks' : x.id = y.id => x = y
    PROVE  LaneInv'
<1>1. TasksInv'
      BY DEF LaneInv, TasksInv, Same, IsTask
<1>2. ASSUME NEW m, NEW x \in tasks', NEW t \in tasks, Same(x, t), Guards(m, t)
      PROVE  Guards(m, x)'
      BY <1>2 DEF Guards, Same
<1>3. Chained'
  <2> SUFFICES ASSUME NEW x \in tasks', NEW y \in tasks', y.room = x.room, y.id < x.id
               PROVE  Guards(x.ahead, y)'
      BY DEF Chained, Guards
  <2>1. PICK t \in tasks : Same(x, t)
        OBVIOUS
  <2>2. PICK u \in tasks : Same(y, u)
        OBVIOUS
  <2>3. Guards(t.ahead, u)
        BY <2>1, <2>2 DEF Same, LaneInv, Chained
  <2> QED BY <1>2, <2>1, <2>2, <2>3 DEF Same
<1>4. TailInv'
  <2>1. ASSUME session = "running", NEW x \in tasks'
        PROVE  Guards(tails[x.room], x)'
    <3>1. PICK t \in tasks : Same(x, t)
          OBVIOUS
    <3>2. Guards(tails[t.room], t)
          BY <2>1 DEF LaneInv, TailInv
    <3> QED BY <1>2, <3>1, <3>2 DEF Same
  <2>2. session = "out" => tasks' = {}
        BY DEF LaneInv, TailInv
  <2>3. session' \in {"running", "ending", "out"}
        BY DEF LaneInv, TailInv
  <2> QED BY <2>1, <2>2, <2>3 DEF TailInv, Guards
<1> QED BY <1>1, <1>3, <1>4 DEF LaneInv

\* A step that does not touch the lanes, or ends the session, or begins one.
LEMMA OthersKeep ==
    ASSUME LaneInv, UNCHANGED lanes,
           \/ session' = session
           \/ session = "out" /\ session' = "running"
    PROVE  LaneInv'
<1>1. TasksInv' /\ Chained'
      BY DEF LaneInv, TasksInv, Chained, Guards, lanes, IsTask
<1>2. TailInv'
      BY DEF LaneInv, TailInv, Guards, lanes
<1> QED BY <1>1, <1>2 DEF LaneInv

\* The lanes are in order at first.
LEMMA InitLaneInv == Init => LaneInv
<1> QED BY DEF Init, LaneInv, TasksInv, Chained, TailInv

\* The commands keep the order of the lanes.
LEMMA CommandsKeepLanes == LaneInv /\ Commands => LaneInv'
<1> SUFFICES ASSUME LaneInv, Commands PROVE LaneInv'
    OBVIOUS
<1>1. ASSUME NEW r \in Rooms, NEW live \in BOOLEAN, SelectRoom(r, live)
      PROVE  LaneInv'
      BY <1>1, OthersKeep DEF SelectRoom
<1>2. ASSUME NEW r \in Rooms, SendMessage(r)
      PROVE  LaneInv'
      BY <1>2, SpawnKeeps DEF SendMessage, Command
<1>3. ASSUME NEW r \in Rooms, EditMessage(r)
      PROVE  LaneInv'
      BY <1>3, SpawnKeeps DEF EditMessage, Command
<1>4. ASSUME NEW r \in Rooms, SendSticker(r)
      PROVE  LaneInv'
      BY <1>4, SpawnKeeps DEF SendSticker, Command
<1>5. ASSUME NEW r \in Rooms, PickAttachment(r)
      PROVE  LaneInv'
      BY <1>5, OthersKeep DEF PickAttachment
<1>6. ASSUME NEW r \in Rooms, SendAttachment(r)
      PROVE  LaneInv'
      BY <1>6, SpawnKeeps DEF SendAttachment, Command
<1>7. CASE JumpToLatest
      BY <1>7, OthersKeep DEF JumpToLatest
<1>8. CASE DropRoom
      BY <1>8, OthersKeep DEF DropRoom
<1>9. CASE CancelAttachment
  <2> DEFINE given(t) == t.kind = "attachment" /\ t.n = draft.send
             F(t) == IF given(t) THEN [t EXCEPT !.abandoned = TRUE] ELSE t
  <2>1. /\ UNCHANGED <<session, spawned, tails, enqueued>>
        /\ tasks' = {F(t) : t \in tasks}
        BY <1>9 DEF CancelAttachment
  <2>2. ASSUME NEW t \in tasks
        PROVE  IsTask(F(t)) /\ Same(F(t), t)
    <3>1. IsTask(t)
          BY DEF LaneInv, TasksInv
    <3> QED BY <3>1 DEF IsTask, Same
  <2> HIDE DEF F
  <2>3. \A x, y \in tasks' : x.id = y.id => x = y
        BY <2>1, <2>2 DEF Same, LaneInv, TasksInv
  <2>4. \A x \in tasks' : IsTask(x) /\ \E t \in tasks : Same(x, t)
        BY <2>1, <2>2
  <2>5. \A t \in tasks : \E x \in tasks' : Same(x, t)
        BY <2>1, <2>2
  <2> QED BY <2>1, <2>3, <2>4, <2>5, RelabelKeeps
<1>10. ASSUME NEW n, DismissUnsent(n)
       PROVE  LaneInv'
       BY <1>10, OthersKeep DEF DismissUnsent
<1> QED BY <1>1, <1>2, <1>3, <1>4, <1>5, <1>6, <1>7, <1>8, <1>9, <1>10 DEF Commands

\* So do the tasks.
LEMMA TasksKeepLanes == LaneInv /\ TasksStep => LaneInv'
<1> SUFFICES ASSUME LaneInv, TasksStep PROVE LaneInv'
    OBVIOUS
<1>1. ASSUME NEW t \in tasks, EnqueueMessage(t) \/ EnqueueSticker(t) \/ EnqueueAttachment(t)
      PROVE  LaneInv'
      BY <1>1, EndsKeeps DEF EnqueueMessage, EnqueueSticker, EnqueueAttachment
<1>2. ASSUME NEW t \in tasks, ReadAttachment(t)
      PROVE  LaneInv'
  <2> DEFINE new == [t EXCEPT !.read = TRUE]
  <2>1. /\ UNCHANGED <<session, spawned, tails, enqueued>>
        /\ tasks' = (tasks \ {t}) \cup {new}
        BY <1>2 DEF ReadAttachment
  <2>2. IsTask(new) /\ Same(new, t)
        BY DEF LaneInv, TasksInv, IsTask, Same
  <2> HIDE DEF new
  <2>3. \A x, y \in tasks' : x.id = y.id => x = y
        BY <2>1, <2>2 DEF Same, LaneInv, TasksInv
  <2>4. \A x \in tasks' : IsTask(x) /\ \E u \in tasks : Same(x, u)
        BY <2>1, <2>2 DEF Same, LaneInv, TasksInv
  <2>5. \A u \in tasks : \E x \in tasks' : Same(x, u)
        BY <2>1, <2>2 DEF Same
  <2> QED BY <2>1, <2>3, <2>4, <2>5, RelabelKeeps
<1>3. CASE AbortTasks
  <2>1. /\ tasks' = {} /\ UNCHANGED <<session, spawned, tails, enqueued>>
        BY <1>3 DEF AbortTasks
  <2> QED BY <2>1 DEF LaneInv, TasksInv, Chained, TailInv
<1>4. ASSUME NEW p, PickEnds(p)
      PROVE  LaneInv'
      BY <1>4, OthersKeep DEF PickEnds, lanes
<1> QED BY <1>1, <1>2, <1>3, <1>4 DEF TasksStep

\* So do the handlers of what the tasks report.
LEMMA HandleKeepsLanes == LaneInv /\ Handle => LaneInv'
<1> SUFFICES ASSUME LaneInv, Handle PROVE LaneInv'
    OBVIOUS
<1> DEFINE e == Head(inbox)
<1>1. CASE HandleSettled(e) \/ HandleUnsaved(e)
      BY <1>1, OthersKeep DEF HandleSettled, HandleUnsaved
<1>2. CASE HandlePicked(e) \/ HandleHandedOff(e)
      BY <1>2, OthersKeep DEF HandlePicked, HandleHandedOff
<1>3. CASE HandleUpdate(e) \/ HandleRefocus(e)
      BY <1>3, OthersKeep DEF HandleUpdate, HandleRefocus
<1>4. CASE HandleSignedIn(e)
  <2>1. session # "ending" /\ session' = "running" /\ UNCHANGED lanes
        BY <1>4 DEF Handle, HandleSignedIn
  <2>2. session = "running" \/ session = "out"
        BY <2>1 DEF LaneInv, TailInv
  <2> QED BY <2>1, <2>2, OthersKeep
<1> QED BY <1>1, <1>2, <1>3, <1>4 DEF Handle

\* So does every step.
LEMMA StepKeepsLanes == LaneInv /\ [Next]_vars => LaneInv'
<1> SUFFICES ASSUME LaneInv, [Next]_vars PROVE LaneInv'
    OBVIOUS
<1>1. CASE Commands
      BY <1>1, CommandsKeepLanes
<1>2. CASE TasksStep
      BY <1>2, TasksKeepLanes
<1>3. CASE Handle
      BY <1>3, HandleKeepsLanes
<1>4. CASE EndSession
  <2>1. /\ session' = "ending" /\ tails' = [r \in Rooms |-> 0]
        /\ UNCHANGED <<spawned, tasks, enqueued>>
        BY <1>4 DEF EndSession
  <2> QED BY <2>1 DEF LaneInv, TasksInv, Chained, TailInv, Guards, IsTask
<1>5. CASE SessionEnded
  <2>1. session' = "out" /\ tasks = {} /\ UNCHANGED lanes
        BY <1>5 DEF SessionEnded
  <2> QED BY <2>1 DEF LaneInv, TasksInv, Chained, TailInv, lanes
<1>6. CASE SignIn
      BY <1>6, OthersKeep DEF SignIn
<1>7. CASE UpdateArrives
      BY <1>7, OthersKeep DEF UpdateArrives, others
<1>8. CASE EditRefused
      BY <1>8, OthersKeep DEF EditRefused, others
<1>9. CASE SubscriptionStops
      BY <1>9, OthersKeep DEF SubscriptionStops, others
<1>10. CASE UserMoves
       BY <1>10, OthersKeep DEF UserMoves, others
<1>11. CASE UNCHANGED vars
       BY <1>11, OthersKeep DEF vars
<1> QED BY <1>1, <1>2, <1>3, <1>4, <1>5, <1>6, <1>7, <1>8, <1>9, <1>10, <1>11 DEF Next

\* What the user sends in a room is enqueued in the order it was sent, for any
\* number of rooms, tasks and sessions: a send whose turn it is finds nothing of
\* its room before it (send_lanes.rs, submissions.rs).
THEOREM SentInOrder == Spec => []EnqueuedInOrder
<1>1. LaneInv => EnqueuedInOrder
      BY DEF LaneInv, TasksInv, EnqueuedInOrder
<1> QED BY <1>1, InitLaneInv, StepKeepsLanes, PTL DEF Spec

-----------------------------------------------------------------------------
(* The room of the draft *)

\* The window is of the selected room, and a draft too while one is selected.
DraftInv ==
    /\ "room" \in DOMAIN window
    /\ window.room # None => window.room = selected
    /\ draft # None => "room" \in DOMAIN draft
    /\ DraftIsOfTheRoomShown

RoomOf(w, r) == "room" \in DOMAIN w /\ w.room = r

\* Marking a window read, showing it and counting its news leave it of its room.
LEMMA MarksKeepRoom ==
    ASSUME NEW r, NEW w, RoomOf(w, r)
    PROVE  /\ RoomOf(MarkRead(w), r) /\ RoomOf(MarkReadIfResolved(w), r)
           /\ RoomOf(MarkReadAtLatest(w), r)
           /\ RoomOf(Shown(w), r) /\ RoomOf(AddNews(w), r)
<1>1. ASSUME NEW v, RoomOf(v, r)
      PROVE  RoomOf(MarkRead(v), r)
      BY <1>1 DEF MarkRead, RoomOf
<1>2. RoomOf([w EXCEPT !.unresolved = FALSE], r) /\ RoomOf(Shown(w), r)
      BY DEF RoomOf, Shown
<1>3. RoomOf(AddNews(w), r)
      BY DEF RoomOf, AddNews
<1> QED BY <1>1, <1>2, <1>3 DEF MarkReadIfResolved, MarkReadAtLatest

\* What the user does in a window leaves it where it is.
LEMMA MovesKeepRoom ==
    ASSUME NEW r, RoomOf(window, r), UserMoves
    PROVE  RoomOf(window', r) /\ selected' = selected /\ draft' = draft
<1>1. ASSUME NEW v, NEW b, RoomOf(v, r)
      PROVE  /\ RoomOf([v EXCEPT !.visible = b], r)
             /\ RoomOf([v EXCEPT !.atBottom = b], r)
             /\ RoomOf([v EXCEPT !.news = b], r)
      BY <1>1 DEF RoomOf
<1>2. ASSUME NEW a, NEW b
      PROVE  RoomOf([window EXCEPT !.atBottom = a, !.news = b], r)
      BY DEF RoomOf
<1>3. ASSUME NEW atBottom \in BOOLEAN, NEW below, ScrollPosition(atBottom, below)
      PROVE  RoomOf(window', r)
  <2> DEFINE lowered == IF below < window.news THEN below ELSE window.news
             there == [window EXCEPT !.atBottom = atBottom,
                                     !.news = IF atBottom THEN 0 ELSE lowered]
  <2>1. window' = MarkReadAtLatest(there) \/ window' = there
        BY <1>3 DEF ScrollPosition
  <2>2. RoomOf(there, r)
        BY <1>2
  <2> HIDE DEF there
  <2> QED BY <2>1, <2>2, MarksKeepRoom
<1>4. ASSUME JumpInWindow
      PROVE  RoomOf(window', r)
      BY <1>2, <1>4, MarksKeepRoom DEF JumpInWindow
<1>5. ASSUME NEW shown, VisibilityChanged(shown)
      PROVE  RoomOf(window', r)
      BY <1>1, <1>5, MarksKeepRoom DEF VisibilityChanged
<1>6. UNCHANGED others /\ selected' = selected
      BY DEF UserMoves, ScrollPosition, JumpInWindow, VisibilityChanged
<1> QED BY <1>3, <1>4, <1>5, <1>6 DEF UserMoves, others, attachments

\* So do the updates, and they leave the draft and the selection alone.
LEMMA UpdatesKeepRoom ==
    ASSUME NEW r, RoomOf(window, r), NEW e, HandleUpdate(e)
    PROVE  RoomOf(window', r) /\ selected' = selected /\ draft' = draft
<1> DEFINE left == [window EXCEPT !.atBottom = FALSE]
<1>1. /\ RoomOf(left, r) /\ RoomOf([window EXCEPT !.unresolved = TRUE], r)
      /\ RoomOf([window EXCEPT !.news = 0], r)
      BY DEF RoomOf
<1> HIDE DEF left
<1>2. RoomOf(Shown(window), r) /\ RoomOf(AddNews(Shown(left)), r)
      BY <1>1, MarksKeepRoom
<1>3. RoomOf(MarkReadIfResolved(Shown(window)), r) /\ RoomOf(AddNews(Shown(window)), r)
      BY <1>2, MarksKeepRoom
<1>4. ASSUME e.kind \in Updates \ {"toLive", "toEvent", "ended"}
      PROVE  RoomOf(Advance(window, e.kind), r)
      BY <1>1, <1>2, <1>3, <1>4 DEF Advance, Updates, left
<1>5. RoomOf(window', r)
      BY <1>1, <1>4 DEF HandleUpdate, SettleUpdate
<1> QED BY <1>5 DEF HandleUpdate, SettleUpdate, attachments

\* A window that opens is of the room that is selected.
LEMMA OpenWindowShows ==
    ASSUME NEW r, NEW live, OpenWindow(r, live)
    PROVE  selected' = r /\ RoomOf(window', r)
<1> QED BY DEF OpenWindow, NoWindow, RoomOf

\* A room that opens has no draft of another one.
LEMMA OpenRoomKeepsDraft ==
    ASSUME DraftInv, NEW r, NEW live, OpenRoom(r, live)
    PROVE  DraftInv'
<1>1. selected' = r /\ RoomOf(window', r)
      BY OpenWindowShows DEF OpenRoom
<1>2. draft' # None => draft' = draft /\ draft.room = r
  <2>1. Follow(r)
        BY DEF OpenRoom
  <2> QED BY <2>1 DEF Follow
<1> QED BY <1>1, <1>2 DEF DraftInv, DraftIsOfTheRoomShown, RoomOf

\* The window of a room is reopened only while that room is selected.
LEMMA ReturnKeepsDraft ==
    ASSUME DraftInv, NEW r \in Rooms, ReturnToLive(r),
           \/ draft' = draft
           \/ \E m : draft # None /\ draft' = [draft EXCEPT !.send = m]
    PROVE  DraftInv'
<1>1. draft' # None => draft # None /\ "room" \in DOMAIN draft' /\ draft'.room = draft.room
      BY DEF DraftInv
<1>2. CASE ~window.live /\ window.room = r
  <2>1. selected' = r /\ RoomOf(window', r)
        BY <1>2, OpenWindowShows DEF ReturnToLive
  <2>2. selected = r
        BY <1>2, RoomsAssumption DEF DraftInv
  <2> QED BY <1>1, <2>1, <2>2 DEF DraftInv, DraftIsOfTheRoomShown, RoomOf
<1>3. CASE ~(~window.live /\ window.room = r)
  <2>1. selected' = selected /\ window' = window
        BY <1>3 DEF ReturnToLive, timeline
  <2> QED BY <1>1, <2>1 DEF DraftInv, DraftIsOfTheRoomShown
<1> QED BY <1>2, <1>3

\* A step that leaves the window in its room, and the draft alone or clears it.
LEMMA StaysKeepsDraft ==
    ASSUME DraftInv, selected' = selected \/ selected' = None,
           RoomOf(window', window.room) \/ RoomOf(window', None),
           selected' = None => RoomOf(window', None),
           \/ draft' = draft \/ draft' = None
           \/ \E m : draft # None /\ draft' = [draft EXCEPT !.send = m]
    PROVE  DraftInv'
<1>1. draft' # None => draft # None /\ "room" \in DOMAIN draft' /\ draft'.room = draft.room
      BY DEF DraftInv
<1> QED BY <1>1 DEF DraftInv, DraftIsOfTheRoomShown, RoomOf

\* There is no window and no draft at first.
LEMMA InitDraftInv == Init => DraftInv
<1> QED BY DEF Init, TimelineInit, NoWindow, DraftInv, DraftIsOfTheRoomShown

\* The commands keep the draft in its room.
LEMMA CommandsKeepDraft == DraftInv /\ Commands => DraftInv'
<1> SUFFICES ASSUME DraftInv, Commands PROVE DraftInv'
    OBVIOUS
<1>0. RoomOf(window, window.room) /\ (selected = None => window.room = None)
      BY DEF DraftInv, RoomOf
<1>1. ASSUME NEW r \in Rooms, NEW live \in BOOLEAN, SelectRoom(r, live)
      PROVE  DraftInv'
      BY <1>1, OpenRoomKeepsDraft DEF SelectRoom
<1>2. ASSUME NEW r \in Rooms, SendMessage(r)
      PROVE  DraftInv'
      BY <1>2, ReturnKeepsDraft DEF SendMessage, attachments
<1>3. ASSUME NEW r \in Rooms, EditMessage(r)
      PROVE  DraftInv'
      BY <1>0, <1>3, StaysKeepsDraft DEF EditMessage, attachments, timeline
<1>4. ASSUME NEW r \in Rooms, SendSticker(r)
      PROVE  DraftInv'
      BY <1>4, ReturnKeepsDraft DEF SendSticker, attachments
<1>5. ASSUME NEW r \in Rooms, PickAttachment(r)
      PROVE  DraftInv'
      BY <1>0, <1>5, StaysKeepsDraft DEF PickAttachment, timeline
<1>6. ASSUME NEW r \in Rooms, SendAttachment(r)
      PROVE  DraftInv'
      BY <1>6, ReturnKeepsDraft DEF SendAttachment
<1>7. CASE JumpToLatest
      BY <1>7, OpenRoomKeepsDraft DEF JumpToLatest
<1>8. CASE DropRoom
  <2>1. selected' = None /\ RoomOf(window', None) /\ draft' = draft
        BY <1>8 DEF DropRoom, ClearWindow, NoWindow, RoomOf, attachments
  <2> QED BY <2>1, StaysKeepsDraft
<1>9. CASE CancelAttachment
      BY <1>0, <1>9, StaysKeepsDraft DEF CancelAttachment, timeline
<1>10. ASSUME NEW n, DismissUnsent(n)
       PROVE  DraftInv'
       BY <1>0, <1>10, StaysKeepsDraft DEF DismissUnsent, attachments, timeline
<1> QED BY <1>1, <1>2, <1>3, <1>4, <1>5, <1>6, <1>7, <1>8, <1>9, <1>10 DEF Commands

\* So do the handlers of what the tasks report.
LEMMA HandleKeepsDraft == DraftInv /\ Handle => DraftInv'
<1> SUFFICES ASSUME DraftInv, Handle PROVE DraftInv'
    OBVIOUS
<1> DEFINE e == Head(inbox)
<1>0. RoomOf(window, window.room) /\ (selected = None => window.room = None)
      BY DEF DraftInv, RoomOf
<1>1. CASE HandleSettled(e) \/ HandleUnsaved(e) \/ HandleSignedIn(e)
  <2>1. UNCHANGED timeline /\ UNCHANGED attachments
        BY <1>1 DEF HandleSettled, HandleUnsaved, HandleSignedIn
  <2> QED BY <1>0, <2>1, StaysKeepsDraft DEF timeline, attachments
<1>2. CASE HandlePicked(e)
  <2>1. UNCHANGED timeline
        BY <1>2 DEF HandlePicked
  <2>2. CASE draft' = draft
        BY <1>0, <2>1, <2>2, StaysKeepsDraft DEF timeline
  <2>3. CASE selected = e.room /\ draft' = [room |-> e.room, pick |-> e.pick, send |-> 0]
        BY <2>1, <2>3 DEF timeline, DraftInv, DraftIsOfTheRoomShown
  <2> QED BY <1>2, <2>2, <2>3 DEF HandlePicked, Adopt
<1>3. CASE HandleHandedOff(e)
      BY <1>0, <1>3, StaysKeepsDraft DEF HandleHandedOff, timeline
<1>4. CASE HandleUpdate(e)
  <2>1. RoomOf(window', window.room) /\ selected' = selected /\ draft' = draft
        BY <1>0, <1>4, UpdatesKeepRoom
  <2> QED BY <1>0, <2>1, StaysKeepsDraft
<1>5. CASE HandleRefocus(e)
  <2>1. CASE IsCurrent(e)
        BY <1>5, <2>1, OpenRoomKeepsDraft DEF HandleRefocus
  <2>2. CASE ~IsCurrent(e)
        BY <1>0, <1>5, <2>2, StaysKeepsDraft DEF HandleRefocus, timeline
  <2> QED BY <2>1, <2>2
<1> QED BY <1>1, <1>2, <1>3, <1>4, <1>5 DEF Handle

\* So does every step.
LEMMA StepKeepsDraft == DraftInv /\ [Next]_vars => DraftInv'
<1> SUFFICES ASSUME DraftInv, [Next]_vars PROVE DraftInv'
    OBVIOUS
<1>0. RoomOf(window, window.room) /\ (selected = None => window.room = None)
      BY DEF DraftInv, RoomOf
<1>1. CASE Commands
      BY <1>1, CommandsKeepDraft
<1>2. CASE Handle
      BY <1>2, HandleKeepsDraft
<1>3. CASE TasksStep
  <2>1. UNCHANGED timeline /\ draft' = draft
        BY <1>3 DEF TasksStep, EnqueueMessage, EnqueueSticker, EnqueueAttachment,
                    ReadAttachment, AbortTasks, PickEnds, Ends, attachments
  <2> QED BY <1>0, <2>1, StaysKeepsDraft DEF timeline
<1>4. CASE EndSession
      BY <1>0, <1>4, StaysKeepsDraft DEF EndSession, timeline
<1>5. CASE SessionEnded
  <2>1. selected' = None /\ RoomOf(window', None) /\ draft' = draft
        BY <1>5 DEF SessionEnded, ForgetWindows, NoWindow, RoomOf, attachments
  <2> QED BY <2>1, StaysKeepsDraft
<1>6. CASE SignIn \/ EditRefused
  <2>1. UNCHANGED timeline /\ UNCHANGED attachments
        BY <1>6 DEF SignIn, EditRefused, others
  <2> QED BY <1>0, <2>1, StaysKeepsDraft DEF timeline, attachments
<1>7. CASE UpdateArrives \/ SubscriptionStops
  <2>1. UNCHANGED <<selected, window>> /\ UNCHANGED attachments
        BY <1>7 DEF UpdateArrives, SubscriptionStops, SubscriptionSays,
                    SubscriptionEnds, others
  <2> QED BY <1>0, <2>1, StaysKeepsDraft DEF attachments
<1>8. CASE UserMoves
  <2>1. RoomOf(window', window.room) /\ selected' = selected /\ draft' = draft
        BY <1>0, <1>8, MovesKeepRoom
  <2> QED BY <1>0, <2>1, StaysKeepsDraft
<1>9. CASE UNCHANGED vars
      BY <1>0, <1>9, StaysKeepsDraft DEF vars, timeline, attachments
<1> QED BY <1>1, <1>2, <1>3, <1>4, <1>5, <1>6, <1>7, <1>8, <1>9 DEF Next

\* An attachment picked in one room cannot be sent to another, whatever is
\* selected, reopened, refused or ended in between (attachments.rs,
\* service/messages.rs, service/navigation.rs).
THEOREM AttachmentStaysInItsRoom == Spec => []DraftIsOfTheRoomShown
<1>1. DraftInv => DraftIsOfTheRoomShown
      BY DEF DraftInv
<1> QED BY <1>1, InitDraftInv, StepKeepsDraft, PTL DEF Spec

-----------------------------------------------------------------------------
(* What is on its way, and the types *)

\* The bounds, as numbers.
LEMMA Bounds ==
    /\ MaxSessions \in Nat \ {0} /\ MaxPicks \in Nat \ {0} /\ MaxInputs \in Nat \ {0}
    /\ MaxNews \in Nat /\ MaxWindows \in Nat \ {0} /\ MaxInbox \in Nat \ {0}
    /\ None \notin Rooms
  BY RoomsAssumption, MessagesAssumption

UpdateMessages ==
    [kind : Updates, room : Rooms, gen : 1..MaxWindows, serial : 1..MaxWindows]
Settled == [kind : {"settled"}, n : 1..MaxInputs, room : Rooms, ok : BOOLEAN]
Unsaved == [kind : {"unsaved"}, room : Rooms]
Picked == [kind : {"picked"}, pick : 1..MaxPicks, room : Rooms]
HandedOff == [kind : {"handedOff"}, n : 1..MaxInputs, ok : BOOLEAN]
SignedIn == [kind : {"signedIn"}]
Said == UpdateMessages \cup Settled \cup Unsaved \cup Picked \cup HandedOff \cup SignedIn

\* The kind of a message says of which of these it is.
LEMMA SaidByKind ==
    ASSUME NEW e \in Said
    PROVE  /\ e.kind \in Updates \cup {"settled", "unsaved", "picked", "handedOff", "signedIn"}
           /\ e.kind \in Updates <=> e \in UpdateMessages
           /\ e.kind = "settled" <=> e \in Settled
           /\ e.kind = "unsaved" <=> e \in Unsaved
           /\ e.kind = "picked" <=> e \in Picked
           /\ e.kind = "handedOff" <=> e \in HandedOff
           /\ e.kind = "signedIn" <=> e \in SignedIn
<1>1. ASSUME NEW x \in UpdateMessages PROVE x.kind \in Updates
      BY DEF UpdateMessages
<1>2. ASSUME NEW x \in Settled PROVE x.kind = "settled"
      BY DEF Settled
<1>3. ASSUME NEW x \in Unsaved PROVE x.kind = "unsaved"
      BY DEF Unsaved
<1>4. ASSUME NEW x \in Picked PROVE x.kind = "picked"
      BY DEF Picked
<1>5. ASSUME NEW x \in HandedOff PROVE x.kind = "handedOff"
      BY DEF HandedOff
<1>6. ASSUME NEW x \in SignedIn PROVE x.kind = "signedIn"
      BY DEF SignedIn
<1>7. Updates \cap {"settled", "unsaved", "picked", "handedOff", "signedIn"} = {}
      BY DEF Updates
<1> QED BY <1>1, <1>2, <1>3, <1>4, <1>5, <1>6, <1>7 DEF Said

\* The window, and what feeds it.
WindowTypes ==
    /\ TimelineTypeOK
    /\ generation <= opened
    /\ ~window.live => window.room \in Rooms

\* The numbers are counted by the inputs: a refused edit on its way is one that
\* still gets a number of its own.
NumbersInv ==
    /\ session \in {"running", "ending", "out"} /\ sessions \in 1..MaxSessions
    /\ inputs \in 0..MaxInputs /\ issued \in Nat /\ spawned \in Nat /\ attempts \in Nat
    /\ picks \in 0..MaxPicks
    /\ issued + Count(inbox, Unsaved) <= inputs
    /\ spawned <= inputs /\ attempts <= spawned

\* What is on its way names what was numbered.
InboxTypes ==
    /\ inbox \in Seq(Said)
    /\ \A e \in Elements(inbox) :
          /\ e.kind = "settled" => e.n <= issued
          /\ e.kind = "handedOff" => e.n <= attempts
          /\ e.kind = "picked" => e.pick <= picks

\* The messages held are in the order of their numbers.
HeldInv ==
    /\ held \in Seq(Messages)
    /\ \A i \in 1..Len(held) : held[i].n <= issued
    /\ \A i, j \in 1..Len(held) : i < j => held[i].n < held[j].n
OwedTypes == unsent \in 0..issued /\ owed \subseteq [n : 1..issued, room : Rooms]

TasksTypes ==
    /\ tasks \subseteq Tasks /\ tails \in [Rooms -> 0..spawned]
    /\ \A t \in tasks :
          /\ t.kind = "message" => t.n \in 1..issued
          /\ t.kind = "attachment" => t.n \in 1..attempts /\ t.pick \in 1..picks

DraftTypes ==
    /\ draft \in Drafts \cup {None}
    /\ draft # None => draft.send <= attempts /\ draft.pick <= picks
    /\ released \subseteq 1..picks
    /\ picking \subseteq [pick : 1..picks, room : Rooms]

TypeInv ==
    /\ WindowTypes /\ NumbersInv /\ InboxTypes /\ HeldInv /\ OwedTypes
    /\ TasksTypes /\ DraftTypes

\* What is handled is what was first on its way.
LEMMA Handled ==
    ASSUME InboxTypes, Handle
    PROVE  /\ Head(inbox) \in Said /\ Head(inbox) \in Elements(inbox)
           /\ Tail(inbox) \in Seq(Said)
           /\ Elements(inbox) = Elements(Tail(inbox)) \cup {Head(inbox)}
           /\ \A set : /\ Count(inbox, set) =
                            Count(Tail(inbox), set) + (IF Head(inbox) \in set THEN 1 ELSE 0)
                       /\ Count(Tail(inbox), set) \in Nat
  BY QueueTail DEF InboxTypes, Handle

-----------------------------------------------------------------------------
(* The window *)

\* v is a window like w, but for what is read, counted and shown of it.
Like(w, v) ==
    /\ v \in Windows /\ v.room = w.room /\ v.gen = w.gen /\ v.serial = w.serial
    /\ v.live = w.live

\* What marks a window leaves it the window it is.
LEMMA MarksAreLike ==
    ASSUME NEW w \in Windows
    PROVE  /\ Like(w, MarkRead(w)) /\ Like(w, MarkReadIfResolved(w))
           /\ Like(w, MarkReadAtLatest(w)) /\ Like(w, Shown(w)) /\ Like(w, AddNews(w))
<1>1. ASSUME NEW v \in Windows PROVE Like(v, MarkRead(v))
      BY DEF MarkRead, Like, Windows
<1>2. Like(w, [w EXCEPT !.unresolved = FALSE]) /\ Like(w, Shown(w))
      BY DEF Like, Windows, Shown
<1>3. Like(w, AddNews(w))
  <2> DEFINE more == IF w.news < MaxNews THEN w.news + 1 ELSE w.news
  <2>1. w.news \in 0..MaxNews
        BY DEF Windows
  <2>2. more \in 0..MaxNews
        BY <2>1, Bounds
  <2>3. AddNews(w) = [w EXCEPT !.news = more]
        BY DEF AddNews, Windows
  <2> HIDE DEF more
  <2> QED BY <2>2, <2>3 DEF Like, Windows
<1>4. Like(w, MarkReadAtLatest(w))
      BY <1>1, <1>2 DEF MarkReadAtLatest, Like
<1>5. Like(w, MarkReadIfResolved(w))
      BY <1>1 DEF MarkReadIfResolved, Like
<1> QED BY <1>1, <1>2, <1>3, <1>4, <1>5

\* The user moves in the window that is open.
LEMMA MovesAreLike ==
    ASSUME WindowTypes, UserMoves
    PROVE  /\ Like(window, window')
           /\ UNCHANGED <<selected, generation, subs, inbox, opened, session>>
<1>0. window \in Windows /\ window.news \in 0..MaxNews
      BY DEF WindowTypes, TimelineTypeOK, Windows
<1>1. ASSUME NEW a \in BOOLEAN, NEW n \in 0..MaxNews
      PROVE  Like(window, [window EXCEPT !.atBottom = a, !.news = n])
      BY <1>0 DEF Like, Windows
<1>2. ASSUME NEW v, Like(window, v) PROVE Like(window, MarkReadAtLatest(v))
      BY <1>2, MarksAreLike DEF Like
<1>3. ASSUME NEW atBottom \in BOOLEAN, NEW below \in 0..MaxNews, ScrollPosition(atBottom, below)
      PROVE  Like(window, window')
  <2> DEFINE lowered == IF below < window.news THEN below ELSE window.news
             n == IF atBottom THEN 0 ELSE lowered
             there == [window EXCEPT !.atBottom = atBottom, !.news = n]
  <2>1. n \in 0..MaxNews
        BY <1>0, Bounds
  <2>2. Like(window, there)
    <3> HIDE DEF n
    <3> QED BY <1>1, <2>1
  <2>3. window' = MarkReadAtLatest(there) \/ window' = there
        BY <1>3 DEF ScrollPosition
  <2> HIDE DEF there
  <2> QED BY <1>2, <2>2, <2>3
<1>4. ASSUME JumpInWindow PROVE Like(window, window')
  <2>1. 0 \in 0..MaxNews
        BY Bounds
  <2> QED BY <1>1, <1>2, <1>4, <2>1 DEF JumpInWindow
<1>5. ASSUME NEW shown \in BOOLEAN, VisibilityChanged(shown) PROVE Like(window, window')
  <2>1. Like(window, [window EXCEPT !.visible = shown])
        BY <1>0 DEF Like, Windows
  <2>2. ASSUME NEW v, Like(window, v) PROVE Like(window, MarkRead(v))
        BY <2>2, MarksAreLike DEF Like
  <2> QED BY <1>5, <2>1, <2>2 DEF VisibilityChanged
<1>6. UNCHANGED <<selected, generation, subs, inbox, opened, session>>
      BY DEF UserMoves, ScrollPosition, JumpInWindow, VisibilityChanged, others
<1> QED BY <1>3, <1>4, <1>5, <1>6 DEF UserMoves

\* An update changes the window it is for, and only what is said of its position.
LEMMA UpdatesAreLike ==
    ASSUME WindowTypes, NEW e, e.kind \in Updates \ {"toLive", "toEvent"}, SettleUpdate(e)
    PROVE  /\ Like(window, window') /\ UNCHANGED <<selected, generation, subs, opened>>
           /\ ~IsCurrent(e) => window' = window /\ inbox' = Tail(inbox)
           /\ \/ inbox' = Tail(inbox)
              \/ IsCurrent(e) /\ inbox' = Append(Tail(inbox), [e EXCEPT !.kind = "toLive"])
<1>0. window \in Windows
      BY DEF WindowTypes, TimelineTypeOK
<1>1. 0 \in 0..MaxNews
      BY Bounds
<1>2. /\ Like(window, [window EXCEPT !.atBottom = FALSE])
      /\ Like(window, [window EXCEPT !.unresolved = TRUE])
      /\ Like(window, [window EXCEPT !.news = 0]) /\ Like(window, window)
      BY <1>0, <1>1 DEF Like, Windows
<1>3. ASSUME NEW v, Like(window, v)
      PROVE  /\ Like(window, Shown(v)) /\ Like(window, AddNews(v))
             /\ Like(window, MarkReadIfResolved(v))
      BY <1>3, MarksAreLike DEF Like
<1>4. ASSUME e.kind # "ended" PROVE Like(window, Advance(window, e.kind))
  <2> DEFINE left == [window EXCEPT !.atBottom = FALSE]
  <2> HIDE DEF left
  <2>1. Like(window, left)
        BY <1>2 DEF left
  <2>2. e.kind \in {"unresolved", "anchored", "opens", "arrived", "focused"}
        BY <1>4 DEF Updates
  <2> QED BY <1>2, <1>3, <2>1, <2>2 DEF Advance, left
<1>5. Like(window, window')
      BY <1>2, <1>4 DEF SettleUpdate
<1>6. ~IsCurrent(e) => window' = window
      BY DEF SettleUpdate
<1> QED BY <1>5, <1>6 DEF SettleUpdate

\* A window that opens is a window, behind all that were opened before it.
LEMMA OpensAWindow ==
    ASSUME WindowTypes, NEW r \in Rooms, NEW live \in BOOLEAN, OpenWindow(r, live)
    PROVE  /\ WindowTypes' /\ selected' = r /\ generation' = generation + 1
           /\ window'.room = r /\ window'.gen = generation' /\ window'.atBottom
           /\ window'.news = 0 /\ ~window'.unread
           /\ subs' = subs \cup {[room |-> r, gen |-> window'.gen, serial |-> window'.serial,
                                  live |-> live, stage |-> "opening"]}
<1>1. /\ opened \in Nat /\ generation \in Nat /\ generation <= opened /\ opened < MaxWindows
      /\ opened' = opened + 1 /\ generation' = generation + 1 /\ selected' = r
      BY DEF WindowTypes, TimelineTypeOK, OpenWindow, NextGeneration
<1> DEFINE gen == generation + 1
           serial == opened + 1
           s == [room |-> r, gen |-> gen, serial |-> serial, live |-> live, stage |-> "opening"]
           w == [NoWindow EXCEPT !.room = r, !.gen = gen, !.serial = serial, !.live = live,
                                 !.visible = window.visible]
<1>2. gen \in 1..MaxWindows /\ serial \in 1..MaxWindows /\ opened' \in 0..MaxWindows
      /\ generation' \in 0..MaxWindows /\ generation' <= opened'
      /\ gen \in 0..MaxWindows /\ serial \in 0..MaxWindows
      BY <1>1, Bounds
<1>3. window' = w /\ subs' = subs \cup {s}
      BY DEF OpenWindow, NextGeneration
<1>4. window.visible \in BOOLEAN /\ 0 \in 0..MaxNews
      BY Bounds DEF WindowTypes, TimelineTypeOK, Windows
<1>5. generation' = gen
      BY <1>1
<1>7. /\ NoWindow \in Windows /\ NoWindow.atBottom /\ NoWindow.news = 0
      /\ ~NoWindow.unread
      BY <1>4, Bounds DEF NoWindow, Windows
<1> HIDE DEF gen, serial
<1>6. s \in Subscriptions
      BY <1>2 DEF Subscriptions, Stages
<1>8. w \in Windows /\ w.room = r /\ w.gen = gen /\ w.serial = serial /\ w.live = live
      /\ w.atBottom /\ w.news = 0 /\ ~w.unread
      BY <1>2, <1>4, <1>7 DEF Windows
<1> HIDE DEF w
<1>9. subs' \subseteq Subscriptions
      BY <1>3, <1>6 DEF WindowTypes, TimelineTypeOK
<1>10. TimelineTypeOK'
      BY <1>1, <1>2, <1>3, <1>8, <1>9 DEF TimelineTypeOK
<1> QED BY <1>1, <1>2, <1>3, <1>5, <1>8, <1>10 DEF WindowTypes

\* A window that is cleared was opened before, and is of no room.
LEMMA ClearsTheWindow ==
    ASSUME WindowTypes, ClearWindow
    PROVE  /\ WindowTypes' /\ selected' = None /\ generation' = generation + 1
           /\ window'.room = None /\ window'.gen = generation' /\ subs' = subs
           /\ window'.news = 0 /\ ~window'.unread
<1>1. /\ opened \in Nat /\ generation \in Nat /\ generation <= opened /\ opened < MaxWindows
      /\ opened' = opened + 1 /\ generation' = generation + 1 /\ selected' = None
      /\ subs' = subs
      BY DEF WindowTypes, TimelineTypeOK, ClearWindow, NextGeneration
<1>2. /\ generation' \in 0..MaxWindows /\ opened' \in 0..MaxWindows /\ generation' <= opened'
      /\ 0 \in 0..MaxNews /\ 0 \in 0..MaxWindows
      BY <1>1, Bounds
<1>3. window' = [NoWindow EXCEPT !.gen = generation', !.visible = window.visible]
      BY <1>1 DEF ClearWindow, NextGeneration
<1>4. /\ NoWindow \in Windows /\ NoWindow.live /\ NoWindow.news = 0 /\ ~NoWindow.unread
      /\ NoWindow.room = None /\ window.visible \in BOOLEAN
      BY <1>2 DEF NoWindow, Windows, WindowTypes, TimelineTypeOK
<1>5. /\ window' \in Windows /\ window'.live /\ window'.news = 0 /\ ~window'.unread
      /\ window'.room = None /\ window'.gen = generation'
      BY <1>2, <1>3, <1>4 DEF Windows
<1>6. TimelineTypeOK'
      BY <1>1, <1>2, <1>5 DEF WindowTypes, TimelineTypeOK
<1> QED BY <1>1, <1>2, <1>5, <1>6 DEF WindowTypes

\* What a subscription may say is an update, and leads to a stage.
LEMMA SaysAreUpdates ==
    ASSUME NEW s \in Subscriptions, NEW says \in Says(s)
    PROVE  says[1] \in Updates /\ says[2] \in Stages
  BY DEF Says, Updates, Stages, Subscriptions

\* A subscription that sends stays the subscription it is.
LEMMA SaysKeepsTypes ==
    ASSUME WindowTypes, NEW s \in subs, SubscriptionSays(s)
    PROVE  /\ WindowTypes' /\ UNCHANGED <<selected, generation, window, opened>>
           /\ \E k \in Updates : inbox' = Append(inbox, Update(s, k))
           /\ \A x \in subs' : \E y \in subs :
                 x.room = y.room /\ x.gen = y.gen /\ x.serial = y.serial
<1>1. PICK says \in Says(s) :
         /\ inbox' = Append(inbox, Update(s, says[1]))
         /\ subs' = (subs \ {s}) \cup {[s EXCEPT !.stage = says[2]]}
      BY DEF SubscriptionSays
<1>2. s \in Subscriptions
      BY DEF WindowTypes, TimelineTypeOK
<1>3. says[1] \in Updates /\ says[2] \in Stages
      BY <1>2, SaysAreUpdates
<1> DEFINE new == [s EXCEPT !.stage = says[2]]
<1>4. /\ new \in Subscriptions /\ new.room = s.room /\ new.gen = s.gen
      /\ new.serial = s.serial
      BY <1>2, <1>3 DEF Subscriptions
<1> HIDE DEF new
<1>5. subs' \subseteq Subscriptions /\ subs' = (subs \ {s}) \cup {new}
      BY <1>1, <1>4 DEF WindowTypes, TimelineTypeOK, new
<1>6. UNCHANGED <<selected, generation, window, opened>>
      BY DEF SubscriptionSays
<1>7. WindowTypes'
      BY <1>5, <1>6 DEF WindowTypes, TimelineTypeOK
<1>8. ASSUME NEW x \in subs'
      PROVE  \E y \in subs : x.room = y.room /\ x.gen = y.gen /\ x.serial = y.serial
      BY <1>4, <1>5
<1> QED BY <1>1, <1>3, <1>6, <1>7, <1>8

\* What a step does to the timeline.
TimelineSteps ==
    \/ UNCHANGED timeline
    \/ /\ session' = session
       /\ \/ session = "running"
          \/ Handle /\ Head(inbox) \in UpdateMessages /\ IsCurrent(Head(inbox))
       /\ \E r \in Rooms, live \in BOOLEAN : OpenWindow(r, live)
    \/ session' = session /\ session = "running" /\ ClearWindow
    \/ session = "ending" /\ session' = "out" /\ ForgetWindows
    \/ session' = session /\ \E s \in subs : SubscriptionSays(s) \/ SubscriptionEnds(s)
    \/ Handle /\ HandleUpdate(Head(inbox))
    \/ UserMoves

\* Every step does one of these, and a room is opened only when it is one.
LEMMA TimelineMoves ==
    ASSUME WindowTypes, InboxTypes, [Next]_vars
    PROVE  TimelineSteps
<1>0. /\ ~window.live => window.room \in Rooms
      /\ window.room # None /\ selected # None => TRUE
      BY DEF WindowTypes
<1>1. ASSUME NEW r \in Rooms, ReturnToLive(r), Command, session' = session
      PROVE  TimelineSteps
      BY <1>1 DEF ReturnToLive, TimelineSteps, Command
<1>2. CASE Commands
  <2>1. ASSUME NEW r \in Rooms, NEW live \in BOOLEAN, SelectRoom(r, live)
        PROVE  TimelineSteps
        BY <2>1 DEF SelectRoom, OpenRoom, Command, TimelineSteps
  <2>2. ASSUME NEW r \in Rooms, SendMessage(r) \/ SendSticker(r) \/ SendAttachment(r)
        PROVE  TimelineSteps
        BY <1>1, <2>2 DEF SendMessage, SendSticker, SendAttachment
  <2>3. ASSUME NEW r \in Rooms, EditMessage(r) \/ PickAttachment(r)
        PROVE  TimelineSteps
        BY <2>3 DEF EditMessage, PickAttachment, TimelineSteps
  <2>4. CASE JumpToLatest
        BY <1>0, <2>4 DEF JumpToLatest, OpenRoom, Command, TimelineSteps
  <2>5. CASE DropRoom
        BY <2>5 DEF DropRoom, Command, TimelineSteps
  <2>6. CASE CancelAttachment \/ \E n \in 1..issued : DismissUnsent(n)
        BY <2>6 DEF CancelAttachment, DismissUnsent, TimelineSteps
  <2> QED BY <1>2, <2>1, <2>2, <2>3, <2>4, <2>5, <2>6 DEF Commands
<1>3. CASE TasksStep
      BY <1>3 DEF TasksStep, EnqueueMessage, EnqueueSticker, EnqueueAttachment,
                  ReadAttachment, AbortTasks, PickEnds, Ends, TimelineSteps
<1>4. CASE Handle
  <2> DEFINE e == Head(inbox)
  <2> HIDE DEF e
  <2>0. session # "ending"
        BY <1>4 DEF Handle
  <2>1. CASE HandleRefocus(e)
    <3>1. e \in UpdateMessages
      <4>1. e \in Said
            BY <1>4, Handled DEF e
      <4>2. e.kind \in Updates
            BY <2>1 DEF HandleRefocus, Updates
      <4> QED BY <4>1, <4>2, SaidByKind
    <3>2. e.room \in Rooms /\ (e.kind = "toLive") \in BOOLEAN
          BY <3>1 DEF UpdateMessages
    <3>3. CASE IsCurrent(e)
      <4>1. OpenWindow(e.room, e.kind = "toLive") /\ session' = session
            BY <2>1, <3>3 DEF OpenRoom, HandleRefocus
      <4> QED BY <1>4, <3>1, <3>2, <3>3, <4>1 DEF TimelineSteps, e
    <3> QED BY <2>1, <3>3 DEF HandleRefocus, TimelineSteps
  <2>2. CASE HandleUpdate(e)
        BY <1>4, <2>2 DEF TimelineSteps, e
  <2>3. CASE \/ HandleSettled(e) \/ HandleUnsaved(e) \/ HandlePicked(e)
             \/ HandleHandedOff(e) \/ HandleSignedIn(e)
        BY <2>3 DEF HandleSettled, HandleUnsaved, HandlePicked, HandleHandedOff,
                    HandleSignedIn, TimelineSteps
  <2> QED BY <1>4, <2>1, <2>2, <2>3 DEF Handle, e
<1>5. CASE EndSession \/ SignIn \/ EditRefused \/ UNCHANGED vars
      BY <1>5 DEF EndSession, SignIn, EditRefused, vars, TimelineSteps
<1>6. CASE SessionEnded
      BY <1>6 DEF SessionEnded, TimelineSteps
<1>7. CASE UpdateArrives \/ SubscriptionStops
      BY <1>7 DEF UpdateArrives, SubscriptionStops, others, TimelineSteps
<1>8. CASE UserMoves
      BY <1>8 DEF TimelineSteps
<1> QED BY <1>2, <1>3, <1>4, <1>5, <1>6, <1>7, <1>8 DEF Next

\* So the window keeps its types.
LEMMA TimelineKeepsTypes ==
    ASSUME WindowTypes, InboxTypes, [Next]_vars
    PROVE  WindowTypes'
<1>0. TimelineSteps
      BY TimelineMoves
<1>1. ASSUME Like(window, window'), UNCHANGED <<selected, generation, subs, opened>>
      PROVE  WindowTypes'
      BY <1>1 DEF WindowTypes, TimelineTypeOK, Like
<1>2. CASE UNCHANGED timeline
      BY <1>2 DEF timeline, WindowTypes, TimelineTypeOK
<1>3. CASE \E r \in Rooms, live \in BOOLEAN : OpenWindow(r, live)
      BY <1>3, OpensAWindow
<1>4. CASE ClearWindow
      BY <1>4, ClearsTheWindow
<1>5. CASE ForgetWindows
  <2>1. NoWindow \in Windows /\ NoWindow.live /\ 0 \in 0..MaxWindows
        BY Bounds DEF NoWindow, Windows
  <2>2. window' = NoWindow /\ selected' = None /\ generation' = 0 /\ UNCHANGED <<subs, opened>>
        BY <1>5 DEF ForgetWindows
  <2>3. 0 <= opened
        BY DEF WindowTypes, TimelineTypeOK
  <2> QED BY <2>1, <2>2, <2>3 DEF WindowTypes, TimelineTypeOK
<1>6. CASE \E s \in subs : SubscriptionSays(s)
      BY <1>6, SaysKeepsTypes
<1>7. CASE \E s \in subs : SubscriptionEnds(s)
      BY <1>7 DEF SubscriptionEnds, WindowTypes, TimelineTypeOK
<1>8. CASE HandleUpdate(Head(inbox))
      BY <1>1, <1>8, UpdatesAreLike DEF HandleUpdate
<1>9. CASE UserMoves
      BY <1>1, <1>9, MovesAreLike
<1> QED BY <1>0, <1>2, <1>3, <1>4, <1>5, <1>6, <1>7, <1>8, <1>9 DEF TimelineSteps

-----------------------------------------------------------------------------
(* What a step does to the rest *)

\* What a step puts on its way.
InboxSteps ==
    \/ inbox' = inbox
    \/ Handle /\ inbox' = Tail(inbox)
    \/ /\ Handle /\ HandleUpdate(Head(inbox)) /\ IsCurrent(Head(inbox))
       /\ inbox' = Append(Tail(inbox), [Head(inbox) EXCEPT !.kind = "toLive"])
    \/ \E s \in subs, k \in Updates : inbox' = Append(inbox, Update(s, k))
    \/ /\ EditRefused
       /\ \E s \in subs : inbox' = Append(inbox, [kind |-> "unsaved", room |-> s.room])
    \/ \E t \in tasks, ok \in BOOLEAN :
          /\ t.kind = "message" /\ tasks' = tasks \ {t}
          /\ inbox' = Append(inbox, [kind |-> "settled", n |-> t.n, room |-> t.room, ok |-> ok])
    \/ \E t \in tasks, ok \in BOOLEAN :
          /\ t.kind = "attachment" /\ tasks' = tasks \ {t}
          /\ inbox' = Append(inbox, [kind |-> "handedOff", n |-> t.n, ok |-> ok])
    \/ \E p \in picking :
          /\ picking' = picking \ {p}
          /\ inbox' = Append(inbox, [kind |-> "picked", pick |-> p.pick, room |-> p.room])
    \/ SignIn /\ inbox' = Append(inbox, [kind |-> "signedIn"])

\* What a task that ends says is nothing, or is put behind the rest.
LEMMA EndsSay ==
    ASSUME InboxTypes, NEW t, NEW ok, NEW said, Ends(t, ok, said)
    PROVE  /\ said = <<>> => inbox' = inbox
           /\ \A x : said = <<x>> => inbox' = Append(inbox, x)
<1>1. inbox' = inbox \o said /\ inbox \in Seq(Said)
      BY DEF Ends, InboxTypes
<1>2. \A x : inbox \o <<x>> = Append(inbox, x)
      BY <1>1
<1>3. inbox \o <<>> = inbox
      BY <1>1, ConcatEmptySeq
<1> QED BY <1>1, <1>2, <1>3

\* Every step does one of these to the inbox.
LEMMA InboxMoves ==
    ASSUME WindowTypes, InboxTypes, [Next]_vars
    PROVE  InboxSteps
<1>1. CASE Commands
      BY <1>1 DEF Commands, SelectRoom, SendMessage, EditMessage, SendSticker, PickAttachment,
                  SendAttachment, JumpToLatest, DropRoom, CancelAttachment, DismissUnsent,
                  InboxSteps
<1>2. CASE TasksStep
  <2>1. ASSUME NEW t \in tasks, EnqueueMessage(t) PROVE InboxSteps
    <3>1. PICK ok \in BOOLEAN :
             Ends(t, ok, <<[kind |-> "settled", n |-> t.n, room |-> t.room, ok |-> ok]>>)
          BY <2>1 DEF EnqueueMessage
    <3>2. inbox' = Append(inbox, [kind |-> "settled", n |-> t.n, room |-> t.room, ok |-> ok])
          BY <3>1, EndsSay
    <3>3. tasks' = tasks \ {t}
          BY <3>1 DEF Ends
    <3> QED BY <2>1, <3>2, <3>3 DEF EnqueueMessage, InboxSteps
  <2>2. ASSUME NEW t \in tasks, EnqueueSticker(t) PROVE InboxSteps
    <3>1. PICK ok \in BOOLEAN : Ends(t, ok, <<>>)
          BY <2>2 DEF EnqueueSticker
    <3> QED BY <3>1, EndsSay DEF InboxSteps
  <2>3. ASSUME NEW t \in tasks, ReadAttachment(t) PROVE InboxSteps
        BY <2>3 DEF ReadAttachment, InboxSteps
  <2>4. ASSUME NEW t \in tasks, EnqueueAttachment(t) PROVE InboxSteps
    <3>1. CASE Ends(t, FALSE, <<>>)
          BY <3>1, EndsSay DEF InboxSteps
    <3>2. ASSUME NEW ok \in BOOLEAN,
                 Ends(t, ok, <<[kind |-> "handedOff", n |-> t.n, ok |-> ok]>>)
          PROVE  InboxSteps
      <4>1. inbox' = Append(inbox, [kind |-> "handedOff", n |-> t.n, ok |-> ok])
            BY <3>2, EndsSay
      <4>2. tasks' = tasks \ {t}
            BY <3>2 DEF Ends
      <4> QED BY <2>4, <4>1, <4>2 DEF EnqueueAttachment, InboxSteps
    <3> QED BY <2>4, <3>1, <3>2 DEF EnqueueAttachment
  <2>5. CASE AbortTasks
        BY <2>5 DEF AbortTasks, InboxSteps
  <2>6. ASSUME NEW p \in picking, PickEnds(p) PROVE InboxSteps
        BY <2>6 DEF PickEnds, InboxSteps
  <2> QED BY <1>2, <2>1, <2>2, <2>3, <2>4, <2>5, <2>6 DEF TasksStep
<1>3. CASE Handle
  <2> DEFINE e == Head(inbox)
  <2> HIDE DEF e
  <2>1. CASE HandleUpdate(e)
    <3>1. \/ inbox' = Tail(inbox)
          \/ IsCurrent(e) /\ inbox' = Append(Tail(inbox), [e EXCEPT !.kind = "toLive"])
          BY <2>1, UpdatesAreLike DEF HandleUpdate
    <3> QED BY <1>3, <2>1, <3>1 DEF InboxSteps, e
  <2>2. CASE ~HandleUpdate(e)
    <3>1. inbox' = Tail(inbox)
          BY <1>3, <2>2 DEF Handle, HandleSettled, HandleUnsaved, HandlePicked, HandleHandedOff,
                            HandleRefocus, HandleSignedIn, e
    <3> QED BY <1>3, <3>1 DEF InboxSteps
  <2> QED BY <2>1, <2>2
<1>4. CASE EndSession \/ SessionEnded \/ UNCHANGED vars
      BY <1>4 DEF EndSession, SessionEnded, vars, InboxSteps
<1>5. CASE SignIn
      BY <1>5 DEF SignIn, InboxSteps
<1>6. CASE EditRefused
      BY <1>6 DEF EditRefused, InboxSteps
<1>7. CASE UpdateArrives
      BY <1>7, SaysKeepsTypes DEF UpdateArrives, InboxSteps
<1>8. CASE SubscriptionStops
      BY <1>8 DEF SubscriptionStops, SubscriptionEnds, InboxSteps
<1>9. CASE UserMoves
      BY <1>9, MovesAreLike DEF InboxSteps
<1> QED BY <1>1, <1>2, <1>3, <1>4, <1>5, <1>6, <1>7, <1>8, <1>9 DEF Next

\* What a step counts: only an input makes numbers, but for a refused edit, which
\* was an input before and takes its number when it is handled.
CounterSteps ==
    /\ inputs' = inputs \/ (inputs < MaxInputs /\ inputs' = inputs + 1)
    /\ \/ UNCHANGED <<spawned, attempts>>
       \/ /\ inputs' = inputs + 1 /\ spawned' = spawned + 1
          /\ attempts' = attempts \/ attempts' = attempts + 1
    /\ picks' = picks \/ (picks < MaxPicks /\ picks' = picks + 1)
    /\ \/ issued' = issued
       \/ issued' = issued + 1 /\ inputs' = inputs + 1 /\ inbox' = inbox
       \/ /\ issued' = issued + 1 /\ inputs' = inputs /\ inbox' = Tail(inbox)
          /\ Handle /\ Head(inbox).kind = "unsaved"
    /\ session' \in {session, "running", "ending", "out"}
    /\ sessions' = sessions \/ (sessions < MaxSessions /\ sessions' = sessions + 1)

\* Every step counts like this.
LEMMA CountersMove ==
    ASSUME [Next]_vars
    PROVE  CounterSteps
<1>1. CASE Commands
  <2>1. ASSUME NEW r \in Rooms, SendMessage(r) \/ EditMessage(r)
        PROVE  CounterSteps
        BY <2>1 DEF SendMessage, EditMessage, Command, Hold, Spawn, attachments, CounterSteps
  <2>2. ASSUME NEW r \in Rooms, SendSticker(r) \/ SendAttachment(r)
        PROVE  CounterSteps
        BY <2>2 DEF SendSticker, SendAttachment, Command, Spawn, attachments, CounterSteps
  <2>3. ASSUME NEW r \in Rooms, PickAttachment(r)
        PROVE  CounterSteps
        BY <2>3 DEF PickAttachment, Command, submissions, lanes, CounterSteps
  <2>4. CASE \/ \E r \in Rooms, live \in BOOLEAN : SelectRoom(r, live)
             \/ JumpToLatest \/ DropRoom \/ CancelAttachment
             \/ \E n \in 1..issued : DismissUnsent(n)
        BY <2>4 DEF SelectRoom, JumpToLatest, DropRoom, CancelAttachment, DismissUnsent, Command,
                    lanes, submissions, attachments, CounterSteps
  <2> QED BY <1>1, <2>1, <2>2, <2>3, <2>4 DEF Commands
<1>2. CASE TasksStep
  <2>1. UNCHANGED <<session, inputs, sessions, spawned, attempts, picks, issued>>
        BY <1>2 DEF TasksStep, EnqueueMessage, EnqueueSticker, EnqueueAttachment,
                    ReadAttachment, AbortTasks, PickEnds, Ends, lanes, submissions,
                    attachments, bounds
  <2> QED BY <2>1 DEF CounterSteps
<1>3. CASE Handle
  <2> DEFINE e == Head(inbox)
  <2> HIDE DEF e
  <2>0. UNCHANGED <<inputs, sessions, spawned, attempts, picks>>
        BY <1>3 DEF Handle, HandleSettled, HandleUnsaved, HandlePicked, HandleHandedOff,
                    HandleUpdate, HandleRefocus, HandleSignedIn, lanes, attachments, bounds
  <2>1. session' = session \/ session' = "running"
        BY <1>3 DEF Handle, HandleSettled, HandleUnsaved, HandlePicked, HandleHandedOff,
                    HandleUpdate, HandleRefocus, HandleSignedIn
  <2>2. CASE HandleUnsaved(e)
    <3>1. issued' = issued \/ issued' = issued + 1
          BY <2>2 DEF HandleUnsaved, Hold, submissions
    <3>2. inbox' = Tail(inbox) /\ e.kind = "unsaved"
          BY <2>2 DEF HandleUnsaved
    <3> QED BY <1>3, <2>0, <2>1, <3>1, <3>2 DEF CounterSteps, e
  <2>3. CASE ~HandleUnsaved(e)
    <3>1. issued' = issued
          BY <1>3, <2>3 DEF Handle, HandleSettled, HandlePicked, HandleHandedOff, HandleUpdate,
                            HandleRefocus, HandleSignedIn, submissions, e
    <3> QED BY <2>0, <2>1, <3>1 DEF CounterSteps
  <2> QED BY <2>2, <2>3
<1>4. CASE EndSession \/ SessionEnded \/ SignIn \/ UNCHANGED vars
      BY <1>4 DEF EndSession, SessionEnded, SignIn, vars, lanes, submissions, attachments,
                  bounds, CounterSteps
<1>5. CASE UpdateArrives \/ EditRefused \/ SubscriptionStops \/ UserMoves
      BY <1>5 DEF UpdateArrives, EditRefused, SubscriptionStops, UserMoves, others, lanes,
                  submissions, attachments, CounterSteps
<1> QED BY <1>1, <1>2, <1>3, <1>4, <1>5 DEF Next

-----------------------------------------------------------------------------
(* The numbers and the inbox keep their types *)

\* What is put on its way is counted when it is a refused edit, and is there
\* with what was; what is handled is not.
LEMMA InboxGrows ==
    ASSUME InboxTypes, NEW x \in Said, inbox' = Append(inbox, x)
    PROVE  /\ inbox' \in Seq(Said) /\ Elements(inbox') = Elements(inbox) \cup {x}
           /\ x \in Unsaved => Count(inbox', Unsaved) = Count(inbox, Unsaved) + 1
           /\ x \notin Unsaved => Count(inbox', Unsaved) = Count(inbox, Unsaved)
<1>0. inbox \in Seq(Said)
      BY DEF InboxTypes
<1>1. inbox' \in Seq(Said)
  <2> DEFINE S == Said
  <2> HIDE DEF S
  <2>1. Append(inbox, x) \in Seq(S)
        BY <1>0, AppendProperties DEF S
  <2> QED BY <2>1 DEF S
<1>2. Count(inbox, Unsaved) \in Nat
      BY <1>0, CountType
<1> QED BY <1>0, <1>1, <1>2, QueueAppend

\* A message about a window asks for another of the same room.
LEMMA RefocusIsSaid ==
    ASSUME NEW e \in UpdateMessages
    PROVE  /\ [e EXCEPT !.kind = "toLive"] \in UpdateMessages
           /\ [e EXCEPT !.kind = "toLive"].room = e.room
           /\ [e EXCEPT !.kind = "toLive"].gen = e.gen
           /\ [e EXCEPT !.kind = "toLive"].serial = e.serial
  BY DEF UpdateMessages, Updates

\* What is on its way next is what was, but for what is new of it.
NewsOf(x) ==
    \/ \E s \in subs, k \in Updates : x = Update(s, k)
    \/ EditRefused /\ \E s \in subs : x = [kind |-> "unsaved", room |-> s.room]
    \/ \E t \in tasks, ok \in BOOLEAN :
          /\ t.kind = "message" /\ tasks' = tasks \ {t}
          /\ x = [kind |-> "settled", n |-> t.n, room |-> t.room, ok |-> ok]
    \/ \E t \in tasks, ok \in BOOLEAN :
          /\ t.kind = "attachment" /\ tasks' = tasks \ {t}
          /\ x = [kind |-> "handedOff", n |-> t.n, ok |-> ok]
    \/ \E p \in picking :
          picking' = picking \ {p} /\ x = [kind |-> "picked", pick |-> p.pick, room |-> p.room]
    \/ SignIn /\ x = [kind |-> "signedIn"]

\* What is new on its way is of the types.
LEMMA NewsAreSaid ==
    ASSUME TypeInv, NEW x, NewsOf(x)
    PROVE  /\ x \in Said
           /\ x.kind = "settled" => x.n <= issued
           /\ x.kind = "handedOff" => x.n <= attempts
           /\ x.kind = "picked" => x.pick <= picks
           /\ x.kind = "unsaved" => EditRefused
<1>0. /\ subs \subseteq Subscriptions /\ tasks \subseteq Tasks
      /\ picking \subseteq [pick : 1..picks, room : Rooms]
      /\ issued \in Nat /\ attempts \in Nat /\ inputs \in 0..MaxInputs
      /\ spawned <= inputs /\ attempts <= spawned /\ picks \in 0..MaxPicks /\ spawned \in Nat
      BY DEF TypeInv, WindowTypes, TimelineTypeOK, TasksTypes, DraftTypes, NumbersInv
<1>1. issued <= MaxInputs
  <2>1. Count(inbox, Unsaved) \in Nat
        BY CountType DEF TypeInv, InboxTypes
  <2>2. issued + Count(inbox, Unsaved) <= inputs
        BY DEF TypeInv, NumbersInv
  <2> HIDE DEF Unsaved
  <2> QED BY <1>0, <2>1, <2>2, Bounds
<1>2. ASSUME NEW s \in subs, NEW k \in Updates, x = Update(s, k)
      PROVE  x \in UpdateMessages
      BY <1>0, <1>2 DEF Update, Subscriptions, UpdateMessages
<1>3. ASSUME NEW s \in subs, x = [kind |-> "unsaved", room |-> s.room]
      PROVE  x \in Unsaved
      BY <1>0, <1>3 DEF Subscriptions, Unsaved
<1>4. ASSUME NEW t \in tasks, NEW ok \in BOOLEAN, t.kind = "message",
             x = [kind |-> "settled", n |-> t.n, room |-> t.room, ok |-> ok]
      PROVE  x \in Settled /\ x.n <= issued
  <2>1. t.n \in 1..issued /\ t.room \in Rooms
        BY <1>0, <1>4 DEF TypeInv, TasksTypes, Tasks
  <2>2. t.n \in 1..MaxInputs /\ t.n <= issued
        BY <1>0, <1>1, <2>1, Bounds
  <2> QED BY <1>4, <2>1, <2>2 DEF Settled
<1>5. ASSUME NEW t \in tasks, NEW ok \in BOOLEAN, t.kind = "attachment",
             x = [kind |-> "handedOff", n |-> t.n, ok |-> ok]
      PROVE  x \in HandedOff /\ x.n <= attempts
  <2>1. t.n \in 1..attempts
        BY <1>5 DEF TypeInv, TasksTypes
  <2>2. t.n \in 1..MaxInputs /\ t.n <= attempts
        BY <1>0, <2>1, Bounds
  <2> QED BY <1>5, <2>2 DEF HandedOff
<1>6. ASSUME NEW p \in picking, x = [kind |-> "picked", pick |-> p.pick, room |-> p.room]
      PROVE  x \in Picked /\ x.pick <= picks
  <2>1. p.pick \in 1..picks /\ p.room \in Rooms
        BY <1>0
  <2>2. p.pick \in 1..MaxPicks /\ p.pick <= picks
        BY <1>0, <2>1, Bounds
  <2> QED BY <1>6, <2>1, <2>2 DEF Picked
<1>7. ASSUME x = [kind |-> "signedIn"] PROVE x \in SignedIn
      BY <1>7 DEF SignedIn
<1>8. /\ \A e \in UpdateMessages : e.kind \in Updates
      /\ \A e \in Settled : e.kind = "settled"
      /\ \A e \in Unsaved : e.kind = "unsaved"
      /\ \A e \in HandedOff : e.kind = "handedOff"
      /\ \A e \in Picked : e.kind = "picked"
      /\ \A e \in SignedIn : e.kind = "signedIn"
      BY DEF UpdateMessages, Settled, Unsaved, HandedOff, Picked, SignedIn
<1>9. Updates \cap {"settled", "unsaved", "picked", "handedOff", "signedIn"} = {}
      BY DEF Updates
<1> HIDE DEF UpdateMessages, Settled, Unsaved, HandedOff, Picked, SignedIn, Updates
<1>10. CASE \E s \in subs, k \in Updates : x = Update(s, k)
       BY <1>2, <1>8, <1>9, <1>10 DEF Said
<1>11. CASE EditRefused /\ \E s \in subs : x = [kind |-> "unsaved", room |-> s.room]
       BY <1>3, <1>8, <1>11 DEF Said
<1>12. CASE \E t \in tasks, ok \in BOOLEAN :
          t.kind = "message" /\ x = [kind |-> "settled", n |-> t.n, room |-> t.room, ok |-> ok]
       BY <1>4, <1>8, <1>12 DEF Said
<1>13. CASE \E t \in tasks, ok \in BOOLEAN :
          t.kind = "attachment" /\ x = [kind |-> "handedOff", n |-> t.n, ok |-> ok]
       BY <1>5, <1>8, <1>13 DEF Said
<1>14. CASE \E p \in picking : x = [kind |-> "picked", pick |-> p.pick, room |-> p.room]
       BY <1>6, <1>8, <1>14 DEF Said
<1>15. CASE SignIn /\ x = [kind |-> "signedIn"]
       BY <1>7, <1>8, <1>15 DEF Said
<1> QED BY <1>10, <1>11, <1>12, <1>13, <1>14, <1>15 DEF NewsOf

\* So the inbox either stays, or loses its first, or asks for a window, or has
\* something new.
LEMMA InboxChanges ==
    ASSUME TypeInv, [Next]_vars
    PROVE  \/ inbox' = inbox
           \/ Handle /\ inbox' = Tail(inbox)
           \/ /\ Handle /\ HandleUpdate(Head(inbox)) /\ IsCurrent(Head(inbox))
              /\ inbox' = Append(Tail(inbox), [Head(inbox) EXCEPT !.kind = "toLive"])
           \/ \E x : NewsOf(x) /\ inbox' = Append(inbox, x)
<1>1. InboxSteps
      BY InboxMoves DEF TypeInv
<1> QED BY <1>1 DEF InboxSteps, NewsOf

\* The elements of the inbox, step by step, and the refused edits of it.
LEMMA InboxNext ==
    ASSUME TypeInv, [Next]_vars
    PROVE  /\ inbox' \in Seq(Said)
           /\ \A e \in Elements(inbox') :
                 \/ e \in Elements(inbox)
                 \/ NewsOf(e)
                 \/ /\ e \in UpdateMessages /\ IsCurrent(e) /\ window' \in Windows
                    /\ Handle /\ HandleUpdate(Head(inbox))
                    /\ Head(inbox) \in UpdateMessages /\ IsCurrent(Head(inbox))
                    /\ e.serial = Head(inbox).serial /\ e.gen = Head(inbox).gen
           /\ \/ Count(inbox', Unsaved) <= Count(inbox, Unsaved)
              \/ EditRefused /\ Count(inbox', Unsaved) = Count(inbox, Unsaved) + 1
<1>0. InboxTypes /\ inbox \in Seq(Said) /\ Count(inbox, Unsaved) \in Nat
  <2>1. InboxTypes /\ inbox \in Seq(Said)
        BY DEF TypeInv, InboxTypes
  <2> QED BY <2>1, CountType
<1>1. CASE inbox' = inbox
      BY <1>0, <1>1
<1>2. CASE Handle /\ inbox' = Tail(inbox)
      BY <1>0, <1>2, Handled
<1>3. CASE /\ Handle /\ HandleUpdate(Head(inbox)) /\ IsCurrent(Head(inbox))
           /\ inbox' = Append(Tail(inbox), [Head(inbox) EXCEPT !.kind = "toLive"])
  <2> DEFINE e == Head(inbox)
             q == Tail(inbox)
             x == [e EXCEPT !.kind = "toLive"]
             C(s) == Count(s, Unsaved)
  <2>1. /\ e \in Said /\ q \in Seq(Said)
        /\ Elements(inbox) = Elements(q) \cup {e}
        /\ C(inbox) = C(q) + (IF e \in Unsaved THEN 1 ELSE 0) /\ C(q) \in Nat
        BY <1>0, <1>3, Handled
  <2>2. e \in UpdateMessages
    <3>1. e.kind \in Updates
          BY <1>3 DEF HandleUpdate
    <3> QED BY <2>1, <3>1, SaidByKind
  <2>3. x \in UpdateMessages /\ x.room = e.room /\ x.gen = e.gen /\ x.serial = e.serial
        BY <2>2, RefocusIsSaid
  <2>4. x \notin Unsaved /\ x \in Said
    <3>1. x.kind \in Updates /\ "unsaved" \notin Updates
          BY <2>3 DEF UpdateMessages, Updates
    <3> QED BY <2>3, <3>1 DEF Said, Unsaved
  <2>5. window' \in Windows
    <3>1. WindowTypes'
          BY TimelineKeepsTypes DEF TypeInv
    <3> QED BY <3>1 DEF WindowTypes, TimelineTypeOK
  <2>6. inbox' = Append(q, x) /\ IsCurrent(x)
        BY <1>3, <2>3 DEF IsCurrent
  <2>9. Head(inbox) = e /\ Handle /\ HandleUpdate(Head(inbox)) /\ IsCurrent(Head(inbox))
        BY <1>3
  <2> HIDE DEF e, q, x
  <2>7. /\ Elements(inbox') = Elements(q) \cup {x}
        /\ C(inbox') = C(q)
        BY <2>1, <2>4, <2>6, QueueAppend
  <2>8. inbox' \in Seq(Said)
    <3> DEFINE S == Said
    <3> HIDE DEF S
    <3>1. Append(q, x) \in Seq(S)
          BY <2>1, <2>4, AppendProperties DEF S
    <3> QED BY <2>6, <3>1 DEF S
  <2>10. C(inbox') <= C(inbox)
    <3> HIDE DEF C
    <3> QED BY <2>1, <2>7
  <2>11. ASSUME NEW y \in Elements(inbox')
         PROVE  \/ y \in Elements(inbox)
                \/ /\ y \in UpdateMessages /\ IsCurrent(y)
                   /\ y.serial = e.serial /\ y.gen = e.gen
         BY <2>1, <2>3, <2>6, <2>7
  <2> QED BY <2>2, <2>5, <2>8, <2>9, <2>10, <2>11
<1>4. ASSUME NEW x, NewsOf(x), inbox' = Append(inbox, x)
      PROVE  /\ inbox' \in Seq(Said)
             /\ Elements(inbox') = Elements(inbox) \cup {x}
             /\ \/ Count(inbox', Unsaved) <= Count(inbox, Unsaved)
                \/ EditRefused /\ Count(inbox', Unsaved) = Count(inbox, Unsaved) + 1
  <2>1. x \in Said /\ (x.kind = "unsaved" => EditRefused)
        BY <1>4, NewsAreSaid
  <2>2. x \in Unsaved => EditRefused
        BY <2>1 DEF Unsaved
  <2>3. /\ inbox' \in Seq(Said) /\ Elements(inbox') = Elements(inbox) \cup {x}
        /\ x \in Unsaved => Count(inbox', Unsaved) = Count(inbox, Unsaved) + 1
        /\ x \notin Unsaved => Count(inbox', Unsaved) = Count(inbox, Unsaved)
        BY <1>0, <1>4, <2>1, InboxGrows
  <2>4. Count(inbox, Unsaved) <= Count(inbox, Unsaved)
        BY <1>0
  <2> QED BY <2>2, <2>3, <2>4
<1> QED BY <1>1, <1>2, <1>3, <1>4, InboxChanges

\* The numbers stay what they are, and never go back.
LEMMA NumbersKeep ==
    ASSUME TypeInv, [Next]_vars
    PROVE  /\ NumbersInv' /\ issued <= issued' /\ attempts <= attempts' /\ picks <= picks'
           /\ spawned <= spawned' /\ inputs <= inputs' /\ issued' <= MaxInputs
<1>0. /\ session \in {"running", "ending", "out"} /\ sessions \in 1..MaxSessions
      /\ inputs \in 0..MaxInputs /\ issued \in Nat /\ spawned \in Nat /\ attempts \in Nat
      /\ picks \in 0..MaxPicks /\ spawned <= inputs /\ attempts <= spawned
      /\ issued + Count(inbox, Unsaved) <= inputs
      BY DEF TypeInv, NumbersInv
<1> DEFINE C == Count(inbox, Unsaved)
<1>1. CounterSteps
      BY CountersMove
<1>2. /\ inputs' \in 0..MaxInputs /\ inputs <= inputs'
      BY <1>0, <1>1, Bounds DEF CounterSteps
<1>3. /\ spawned' \in Nat /\ attempts' \in Nat /\ spawned <= spawned' /\ attempts <= attempts'
      /\ spawned' <= inputs' /\ attempts' <= spawned'
      BY <1>0, <1>1, <1>2 DEF CounterSteps
<1>4. picks' \in 0..MaxPicks /\ picks <= picks'
      BY <1>0, <1>1, Bounds DEF CounterSteps
<1>5. session' \in {"running", "ending", "out"} /\ sessions' \in 1..MaxSessions
      BY <1>0, <1>1, Bounds DEF CounterSteps
<1>6. issued' \in Nat /\ issued <= issued'
      BY <1>0, <1>1 DEF CounterSteps
<1>7. C \in Nat /\ Count(inbox', Unsaved) \in Nat
  <2>1. inbox \in Seq(Said) /\ inbox' \in Seq(Said)
        BY InboxNext DEF TypeInv, InboxTypes
  <2> QED BY <2>1, CountType
<1> DEFINE D == Count(inbox', Unsaved)
<1>8. D <= C \/ (EditRefused /\ D = C + 1)
      BY InboxNext
<1>9. issued' + D <= inputs'
  <2>1. CASE issued' = issued
    <3>1. EditRefused => inputs' = inputs + 1
          BY DEF EditRefused
    <3> HIDE DEF C, D
    <3>2. issued + C <= inputs
          BY <1>0 DEF C
    <3> QED BY <1>0, <1>2, <1>7, <1>8, <2>1, <3>1, <3>2 DEF C, D
  <2>2. CASE issued' = issued + 1 /\ inputs' = inputs + 1 /\ inbox' = inbox
    <3>1. D = C
          BY <2>2
    <3>2. issued + C <= inputs
          BY <1>0
    <3>3. C \in Nat
          BY <1>7
    <3> HIDE DEF C, D
    <3> QED BY <1>0, <2>2, <3>1, <3>2, <3>3
  <2>3. CASE /\ issued' = issued + 1 /\ inputs' = inputs /\ inbox' = Tail(inbox)
             /\ Handle /\ Head(inbox).kind = "unsaved"
    <3>1. Head(inbox) \in Unsaved
          BY <2>3, Handled, SaidByKind DEF TypeInv
    <3>2. C = Count(Tail(inbox), Unsaved) + 1
          BY <2>3, <3>1, Handled DEF TypeInv
    <3>3. D = Count(Tail(inbox), Unsaved)
          BY <2>3
    <3>4. issued + C <= inputs /\ C \in Nat /\ D \in Nat
          BY <1>0, <1>7
    <3>5. C = D + 1
          BY <3>2, <3>3
    <3> HIDE DEF C, D
    <3> QED BY <1>0, <2>3, <3>4, <3>5
  <2> QED BY <1>1, <2>1, <2>2, <2>3 DEF CounterSteps
<1>10. issued' <= MaxInputs
  <2>1. D \in Nat /\ issued' \in Nat /\ inputs' \in 0..MaxInputs /\ issued' + D <= inputs'
        BY <1>2, <1>6, <1>7, <1>9
  <2>2. ASSUME NEW a \in Nat, NEW b \in 0..MaxInputs, NEW d \in Nat, a + d <= b
        PROVE  a <= MaxInputs
        BY <2>2, Bounds
  <2> HIDE DEF D
  <2> QED BY <2>1, <2>2
<1>11. NumbersInv'
      BY <1>2, <1>3, <1>4, <1>5, <1>6, <1>9 DEF NumbersInv
<1> QED BY <1>2, <1>3, <1>4, <1>6, <1>10, <1>11

\* What is on its way keeps its types.
LEMMA InboxKeepsTypes ==
    ASSUME TypeInv, [Next]_vars
    PROVE  InboxTypes'
<1>1. issued <= issued' /\ attempts <= attempts' /\ picks <= picks'
      BY NumbersKeep
<1>2. /\ issued \in Nat /\ issued' \in Nat /\ attempts \in Nat /\ attempts' \in Nat
      /\ picks \in Nat /\ picks' \in Nat
  <2>1. NumbersInv /\ NumbersInv'
        BY NumbersKeep DEF TypeInv
  <2> QED BY <2>1, Bounds DEF NumbersInv
<1>3. ASSUME NEW e \in Elements(inbox')
      PROVE  /\ e.kind = "settled" => e.n <= issued'
             /\ e.kind = "handedOff" => e.n <= attempts'
             /\ e.kind = "picked" => e.pick <= picks'
  <2>1. \/ e \in Elements(inbox) \/ NewsOf(e) \/ e \in UpdateMessages
        BY InboxNext
  <2>2. ASSUME e \in Said,
               /\ e.kind = "settled" => e.n <= issued
               /\ e.kind = "handedOff" => e.n <= attempts
               /\ e.kind = "picked" => e.pick <= picks
        PROVE  /\ e.kind = "settled" => e.n <= issued'
               /\ e.kind = "handedOff" => e.n <= attempts'
               /\ e.kind = "picked" => e.pick <= picks'
    <3>1. e.kind = "settled" => e.n \in Nat
      <4>1. e.kind = "settled" => e \in Settled
            BY <2>2, SaidByKind
      <4> QED BY <4>1, Bounds DEF Settled
    <3>2. e.kind = "handedOff" => e.n \in Nat
      <4>1. e.kind = "handedOff" => e \in HandedOff
            BY <2>2, SaidByKind
      <4> QED BY <4>1, Bounds DEF HandedOff
    <3>3. e.kind = "picked" => e.pick \in Nat
      <4>1. e.kind = "picked" => e \in Picked
            BY <2>2, SaidByKind
      <4> QED BY <4>1, Bounds DEF Picked
    <3> QED BY <1>1, <1>2, <2>2, <3>1, <3>2, <3>3
  <2>3. CASE e \in Elements(inbox)
    <3>1. e \in Said
      <4>1. inbox \in Seq(Said)
            BY DEF TypeInv, InboxTypes
      <4> QED BY <2>3, <4>1, ElementOfSeq, LenProperties DEF Elements
    <3> QED BY <2>2, <2>3, <3>1 DEF TypeInv, InboxTypes
  <2>4. CASE NewsOf(e)
        BY <2>2, <2>4, NewsAreSaid
  <2>5. CASE e \in UpdateMessages
    <3>1. e.kind \in Updates /\ Updates \cap {"settled", "handedOff", "picked"} = {}
          BY <2>5 DEF UpdateMessages, Updates
    <3> QED BY <3>1
  <2> QED BY <2>1, <2>3, <2>4, <2>5
<1>4. inbox' \in Seq(Said)
      BY InboxNext
<1> QED BY <1>3, <1>4 DEF InboxTypes

-----------------------------------------------------------------------------
(* What is held keeps its types *)

\* What a step does to the messages held.
HeldSteps ==
    \/ UNCHANGED <<held, issued>>
    \/ \E r \in Rooms, refused \in BOOLEAN : Hold(r, refused)
    \/ issued' = issued /\ \E set : held' = Retain(held, set)
    \/ issued' = issued /\ \E e : held' = [i \in DOMAIN held |->
          IF held[i].n = e.n THEN [held[i] EXCEPT !.refused = TRUE] ELSE held[i]]
    \/ issued' = issued /\ held' = <<>>

\* An outcome changes nothing when it is not awaited, and only what it is of.
LEMMA SettleMoves ==
    ASSUME NEW e, Settle(e)
    PROVE  \/ held' = held
           \/ \E set : held' = Retain(held, set)
           \/ held' = [i \in DOMAIN held |->
                 IF held[i].n = e.n THEN [held[i] EXCEPT !.refused = TRUE] ELSE held[i]]
  BY DEF Settle

\* Every step does one of these.
LEMMA HeldMoves ==
    ASSUME TypeInv, [Next]_vars
    PROVE  HeldSteps
<1>1. CASE Commands
  <2>1. ASSUME NEW r \in Rooms, SendMessage(r) \/ EditMessage(r)
        PROVE  HeldSteps
        BY <2>1 DEF SendMessage, EditMessage, HeldSteps
  <2>2. ASSUME NEW r \in Rooms, SendSticker(r) \/ SendAttachment(r) \/ PickAttachment(r)
        PROVE  HeldSteps
        BY <2>2 DEF SendSticker, SendAttachment, PickAttachment, submissions, HeldSteps
  <2>3. ASSUME NEW n, DismissUnsent(n) PROVE HeldSteps
        BY <2>3 DEF DismissUnsent, HeldSteps
  <2>4. CASE \/ \E r \in Rooms, live \in BOOLEAN : SelectRoom(r, live)
             \/ JumpToLatest \/ DropRoom \/ CancelAttachment
        BY <2>4 DEF SelectRoom, JumpToLatest, DropRoom, CancelAttachment, submissions, HeldSteps
  <2> QED BY <1>1, <2>1, <2>2, <2>3, <2>4 DEF Commands
<1>2. CASE TasksStep
      BY <1>2 DEF TasksStep, EnqueueMessage, EnqueueSticker, EnqueueAttachment,
                  ReadAttachment, AbortTasks, PickEnds, Ends, submissions, HeldSteps
<1>3. CASE Handle
  <2> DEFINE e == Head(inbox)
  <2>0. e \in Said
        BY <1>3, Handled DEF TypeInv
  <2> HIDE DEF e
  <2>1. CASE HandleSettled(e)
        BY <2>1, SettleMoves DEF HandleSettled, HeldSteps
  <2>2. CASE HandleUnsaved(e)
    <3>1. e.room \in Rooms
      <4>1. e \in Unsaved
            BY <2>0, <2>2, SaidByKind DEF HandleUnsaved
      <4> QED BY <4>1 DEF Unsaved
    <3>2. Hold(e.room, TRUE) \/ UNCHANGED submissions
          BY <2>2 DEF HandleUnsaved
    <3> QED BY <3>1, <3>2 DEF submissions, HeldSteps
  <2>3. CASE \/ HandlePicked(e) \/ HandleHandedOff(e) \/ HandleUpdate(e)
             \/ HandleRefocus(e) \/ HandleSignedIn(e)
        BY <2>3 DEF HandlePicked, HandleHandedOff, HandleUpdate, HandleRefocus,
                    HandleSignedIn, submissions, HeldSteps
  <2> QED BY <1>3, <2>1, <2>2, <2>3 DEF Handle, e
<1>4. CASE EndSession \/ SessionEnded \/ SignIn \/ UNCHANGED vars
      BY <1>4 DEF EndSession, SessionEnded, SignIn, vars, submissions, HeldSteps
<1>5. CASE UpdateArrives \/ EditRefused \/ SubscriptionStops \/ UserMoves
      BY <1>5 DEF UpdateArrives, EditRefused, SubscriptionStops, UserMoves, others,
                  submissions, HeldSteps
<1> QED BY <1>1, <1>2, <1>3, <1>4, <1>5 DEF Next

\* The messages held stay in the order of their numbers, whatever is taken out,
\* marked or put behind them.
LEMMA HeldKeepsTypes ==
    ASSUME TypeInv, [Next]_vars
    PROVE  HeldInv'
<1>0. /\ held \in Seq(Messages) /\ issued \in Nat
      /\ \A i \in 1..Len(held) : held[i].n <= issued
      /\ \A i, j \in 1..Len(held) : i < j => held[i].n < held[j].n
      /\ issued' \in Nat /\ issued' <= MaxInputs /\ issued <= issued'
  <2>1. HeldInv /\ NumbersInv /\ NumbersInv'
        BY NumbersKeep DEF TypeInv
  <2> QED BY <2>1, NumbersKeep DEF HeldInv, NumbersInv
<1>1. HeldSteps
      BY HeldMoves
<1>2. CASE UNCHANGED <<held, issued>>
      BY <1>0, <1>2 DEF HeldInv
<1>3. ASSUME NEW r \in Rooms, NEW refused \in BOOLEAN, Hold(r, refused)
      PROVE  HeldInv'
  <2> DEFINE m == [n |-> issued + 1, room |-> r, refused |-> refused]
             q == Append(held, m)
             k == Len(held)
  <2>1. held' = q /\ issued' = issued + 1 /\ m.n = issued + 1
        BY <1>3 DEF Hold
  <2>2. m \in Messages
    <3>1. issued + 1 \in 1..MaxInputs
          BY <1>0, <2>1, Bounds
    <3> QED BY <3>1 DEF Messages
  <2> HIDE DEF m
  <2>3. /\ k \in Nat /\ Len(q) = k + 1 /\ q[k + 1] = m
        /\ \A i \in 1..k : q[i] = held[i]
        BY <1>0, <2>2, AppendProperties, LenProperties
  <2>4. q \in Seq(Messages)
    <3> DEFINE S == Messages
    <3> HIDE DEF S
    <3>1. Append(held, m) \in Seq(S)
          BY <1>0, <2>2, AppendProperties DEF S
    <3> QED BY <3>1 DEF S
  <2> HIDE DEF q, k
  <2>5. \A i \in 1..k : held[i].n \in Nat /\ held[i].n <= issued
    <3>1. \A i \in 1..k : held[i] \in Messages
          BY <1>0, ElementOfSeq DEF k
    <3> QED BY <1>0, <3>1, Bounds DEF Messages, k
  <2>6. \A i \in 1..(k + 1) : q[i].n <= issued + 1
        BY <1>0, <2>1, <2>3, <2>5
  <2>7. \A i, j \in 1..(k + 1) : i < j => q[i].n < q[j].n
    <3> SUFFICES ASSUME NEW i \in 1..(k + 1), NEW j \in 1..(k + 1), i < j
                 PROVE  q[i].n < q[j].n
        OBVIOUS
    <3>1. i \in 1..k
          BY <2>3
    <3>2. CASE j = k + 1
          BY <1>0, <2>1, <2>3, <2>5, <3>1, <3>2
    <3>3. CASE j # k + 1
      <4>1. j \in 1..k
            BY <2>3, <3>3
      <4> QED BY <1>0, <2>3, <3>1, <4>1 DEF k
    <3> QED BY <3>2, <3>3
  <2> QED BY <2>1, <2>3, <2>4, <2>6, <2>7 DEF HeldInv
<1>4. ASSUME issued' = issued, NEW set, held' = Retain(held, set)
      PROVE  HeldInv'
  <2>1. Retains(Messages, held, set, held')
        BY <1>0, <1>4, RetainFacts
  <2>2. held' \in Seq(Messages) /\ Len(held') \in Nat /\ Len(held) \in Nat
        BY <1>0, <2>1, LenProperties DEF Retains
  <2>3. \A i \in 1..Len(held') : held'[i].n <= issued'
    <3> SUFFICES ASSUME NEW i \in 1..Len(held') PROVE held'[i].n <= issued'
        OBVIOUS
    <3>1. PICK j \in 1..Len(held) : held[j] = held'[i]
          BY <2>1 DEF Retains
    <3> QED BY <1>0, <1>4, <3>1
  <2>4. \A i, j \in 1..Len(held') : i < j => held'[i].n < held'[j].n
    <3> SUFFICES ASSUME NEW i \in 1..Len(held'), NEW j \in 1..Len(held'), i < j
                 PROVE  held'[i].n < held'[j].n
        OBVIOUS
    <3>1. PICK a \in 1..Len(held), b \in 1..Len(held) :
             a < b /\ held[a] = held'[i] /\ held[b] = held'[j]
          BY <2>1 DEF Retains
    <3> QED BY <1>0, <3>1
  <2> QED BY <2>2, <2>3, <2>4 DEF HeldInv
<1>5. ASSUME issued' = issued, NEW e,
             held' = [i \in DOMAIN held |->
                IF held[i].n = e.n THEN [held[i] EXCEPT !.refused = TRUE] ELSE held[i]]
      PROVE  HeldInv'
  <2>1. Len(held) \in Nat /\ DOMAIN held = 1..Len(held)
        /\ \A i \in 1..Len(held) : held[i] \in Messages
        BY <1>0, LenProperties, ElementOfSeq
  <2>2. ASSUME NEW i \in 1..Len(held)
        PROVE  held'[i] \in Messages /\ held'[i].n = held[i].n
        BY <1>5, <2>1 DEF Messages
  <2>3. DOMAIN held' = 1..Len(held) /\ held' \in [1..Len(held) -> Messages]
        BY <1>5, <2>1, <2>2
  <2>4. held' \in Seq(Messages) /\ Len(held') = Len(held)
        BY <2>1, <2>3, SeqDef, LenProperties
  <2> QED BY <1>0, <1>5, <2>2, <2>4 DEF HeldInv
<1>6. CASE issued' = issued /\ held' = <<>>
      BY <1>6 DEF HeldInv
<1> QED BY <1>1, <1>2, <1>3, <1>4, <1>5, <1>6 DEF HeldSteps

\* Numbers have a least one, where there are any.
LEMMA Least ==
    ASSUME NEW S, S \subseteq Nat, S # {}
    PROVE  Min(S) \in S /\ \A k \in S : Min(S) <= k
<1>1. \E m \in S : \A k \in S : m <= k
  <2> SUFFICES ASSUME \A m \in S : \E k \in S : ~(m <= k) PROVE FALSE
      OBVIOUS
  <2> DEFINE T == {n \in Nat : \A k \in S : n <= k}
  <2>1. 0 \in T
        OBVIOUS
  <2>2. ASSUME NEW n \in Nat, n \in T PROVE n + 1 \in T
    <3>1. n \notin S
          BY <2>2
    <3>2. \A k \in S : n <= k /\ n # k
          BY <2>2, <3>1
    <3> QED BY <3>2
  <2> HIDE DEF T
  <2>3. Nat \subseteq T
        BY <2>1, <2>2, Induction
  <2>4. PICK x \in S : TRUE
        OBVIOUS
  <2>5. x + 1 \in T
        BY <2>3
  <2>6. x + 1 <= x
        BY <2>5 DEF T
  <2> QED BY <2>6
<1> QED BY <1>1 DEF Min

Refused(h, room) == {i \in DOMAIN h : h[i].refused /\ h[i].room = room}

\* What is offered is the first message of the room that was refused.
LEMMA OfferIsFirst ==
    ASSUME NEW h \in Seq(Messages), NEW room
    PROVE  /\ Refused(h, room) = {} => Offer(h, room) = 0
           /\ Refused(h, room) # {} =>
                 \E i \in Refused(h, room) :
                    Offer(h, room) = h[i].n /\ \A j \in Refused(h, room) : i <= j
<1>1. Refused(h, room) \subseteq Nat
  <2>1. DOMAIN h \subseteq Nat
        BY LenProperties
  <2> QED BY <2>1 DEF Refused
<1>2. Offer(h, room) = IF Refused(h, room) = {} THEN 0 ELSE h[Min(Refused(h, room))].n
      BY DEF Offer, Refused
<1> DEFINE R == Refused(h, room)
<1> HIDE DEF R
<1>3. R # {} => Min(R) \in R /\ \A j \in R : Min(R) <= j
      BY <1>1, Least DEF R
<1> QED BY <1>2, <1>3 DEF R

\* What a step offers, and what it leaves owed.
OwedSteps ==
    /\ unsent' = unsent \/ unsent' = 0 \/ \E room : unsent' = Offer(held', room)
    /\ \/ owed' \subseteq owed
       \/ \E n \in 1..issued', room \in Rooms : owed' = owed \cup {[n |-> n, room |-> room]}

\* Every step does one of these.
LEMMA OwedMoves ==
    ASSUME TypeInv, [Next]_vars
    PROVE  OwedSteps
<1>1. CASE Commands
  <2>0. ASSUME NEW r, NEW live, OpenRoom(r, live), held' = held
        PROVE  \E room : unsent' = Offer(held', room)
        BY <2>0 DEF OpenRoom
  <2>1. ASSUME NEW r, ReturnToLive(r)
        PROVE  unsent' = unsent \/ \E room : unsent' = Offer(held', room)
        BY <2>1 DEF ReturnToLive
  <2>2. ASSUME NEW r \in Rooms,
               \/ SendMessage(r) \/ EditMessage(r) \/ SendSticker(r) \/ SendAttachment(r)
               \/ PickAttachment(r)
        PROVE  OwedSteps
        BY <2>1, <2>2 DEF SendMessage, EditMessage, SendSticker, SendAttachment, PickAttachment,
                          submissions, OwedSteps
  <2>3. ASSUME NEW n, DismissUnsent(n) PROVE OwedSteps
        BY <2>3 DEF DismissUnsent, OwedSteps
  <2>4. ASSUME NEW r \in Rooms, NEW live \in BOOLEAN, SelectRoom(r, live) PROVE OwedSteps
        BY <2>0, <2>4 DEF SelectRoom, OwedSteps
  <2>5. CASE JumpToLatest
        BY <2>0, <2>5 DEF JumpToLatest, OwedSteps
  <2>6. CASE DropRoom \/ CancelAttachment
        BY <2>6 DEF DropRoom, CancelAttachment, submissions, OwedSteps
  <2> QED BY <1>1, <2>2, <2>3, <2>4, <2>5, <2>6 DEF Commands
<1>2. CASE TasksStep
      BY <1>2 DEF TasksStep, EnqueueMessage, EnqueueSticker, EnqueueAttachment,
                  ReadAttachment, AbortTasks, PickEnds, Ends, submissions, OwedSteps
<1>3. CASE Handle
  <2> DEFINE e == Head(inbox)
  <2>0. e \in Said /\ e \in Elements(inbox)
        BY <1>3, Handled DEF TypeInv
  <2>00. InboxTypes /\ issued \in Nat /\ issued' \in Nat
    <3>1. NumbersInv /\ NumbersInv'
          BY NumbersKeep DEF TypeInv
    <3> QED BY <3>1 DEF TypeInv, NumbersInv
  <2> HIDE DEF e
  <2>1. CASE HandleSettled(e)
    <3>1. e \in Settled /\ e.n <= issued
          BY <2>0, <2>00, <2>1, SaidByKind DEF HandleSettled, InboxTypes
    <3>2. e.n \in 1..issued' /\ e.room \in Rooms
      <4>1. issued' = issued
            BY <2>1 DEF HandleSettled
      <4>2. e.n \in 1..MaxInputs /\ e.room \in Rooms
            BY <3>1 DEF Settled
      <4> QED BY <2>00, <3>1, <4>1, <4>2, Bounds
    <3>3. unsent' = unsent \/ unsent' = Offer(held', selected)
          BY <2>1 DEF HandleSettled, Settle
    <3>4. owed' = owed \/ owed' = owed \cup {[n |-> e.n, room |-> e.room]}
          BY <2>1 DEF HandleSettled
    <3> QED BY <3>2, <3>3, <3>4 DEF OwedSteps
  <2>2. CASE HandleUnsaved(e)
    <3>1. e.room \in Rooms
      <4>1. e \in Unsaved
            BY <2>0, <2>2, SaidByKind DEF HandleUnsaved
      <4> QED BY <4>1 DEF Unsaved
    <3>2. CASE session = "running"
      <4>1. /\ issued' = issued + 1 /\ unsent' = Offer(held', selected)
            /\ owed' = owed \cup {[n |-> issued', room |-> e.room]}
            BY <2>2, <3>2 DEF HandleUnsaved, Hold
      <4>2. issued' \in 1..issued'
            BY <2>00, <4>1
      <4> QED BY <3>1, <4>1, <4>2 DEF OwedSteps
    <3>3. CASE session # "running"
          BY <2>2, <3>3 DEF HandleUnsaved, submissions, OwedSteps
    <3> QED BY <3>2, <3>3
  <2>3. CASE HandlePicked(e) \/ HandleHandedOff(e) \/ HandleUpdate(e) \/ HandleSignedIn(e)
        BY <2>3 DEF HandlePicked, HandleHandedOff, HandleUpdate, HandleSignedIn, submissions,
                    OwedSteps
  <2>4. CASE HandleRefocus(e)
    <3>1. held' = held /\ owed' = owed
          BY <2>4 DEF HandleRefocus
    <3>2. unsent' = unsent \/ unsent' = Offer(held, e.room)
          BY <2>4 DEF HandleRefocus, OpenRoom
    <3> QED BY <3>1, <3>2 DEF OwedSteps
  <2> QED BY <1>3, <2>1, <2>2, <2>3, <2>4 DEF Handle, e
<1>4. CASE EndSession \/ SessionEnded \/ SignIn \/ UNCHANGED vars
      BY <1>4 DEF EndSession, SessionEnded, SignIn, vars, submissions, OwedSteps
<1>5. CASE UpdateArrives \/ EditRefused \/ SubscriptionStops \/ UserMoves
      BY <1>5 DEF UpdateArrives, EditRefused, SubscriptionStops, UserMoves, others,
                  submissions, OwedSteps
<1> QED BY <1>1, <1>2, <1>3, <1>4, <1>5 DEF Next

\* What is offered and owed has a number that was given out.
LEMMA OwedKeepsTypes ==
    ASSUME TypeInv, [Next]_vars
    PROVE  OwedTypes'
<1>0. /\ unsent \in 0..issued /\ owed \subseteq [n : 1..issued, room : Rooms]
      /\ issued \in Nat /\ issued' \in Nat /\ issued <= issued' /\ HeldInv'
  <2>1. OwedTypes /\ NumbersInv /\ NumbersInv'
        BY NumbersKeep DEF TypeInv
  <2> QED BY <2>1, NumbersKeep, HeldKeepsTypes DEF OwedTypes, NumbersInv
<1>1. OwedSteps
      BY OwedMoves
<1>2. \A room : Offer(held', room) \in 0..issued'
  <2> TAKE room
  <2>1. held' \in Seq(Messages)
        BY <1>0 DEF HeldInv
  <2>2. CASE Refused(held', room) = {}
        BY <1>0, <2>1, <2>2, OfferIsFirst
  <2>3. CASE Refused(held', room) # {}
    <3>1. PICK i \in Refused(held', room) : Offer(held', room) = held'[i].n
          BY <2>1, <2>3, OfferIsFirst
    <3>2. i \in 1..Len(held')
          BY <2>1, LenProperties DEF Refused
    <3>3. held'[i] \in Messages /\ held'[i].n <= issued'
          BY <1>0, <2>1, <3>2, ElementOfSeq DEF HeldInv
    <3>4. held'[i].n \in Nat
          BY <3>3, Bounds DEF Messages
    <3> QED BY <1>0, <3>1, <3>3, <3>4
  <2> QED BY <2>2, <2>3
<1>3. unsent' \in 0..issued'
  <2>1. 0 \in 0..issued' /\ unsent \in 0..issued'
        BY <1>0
  <2> QED BY <1>1, <1>2, <2>1 DEF OwedSteps
<1>4. owed' \subseteq [n : 1..issued', room : Rooms]
  <2>1. 1..issued \subseteq 1..issued'
        BY <1>0
  <2>2. owed \subseteq [n : 1..issued', room : Rooms]
        BY <1>0, <2>1
  <2> QED BY <1>1, <2>2 DEF OwedSteps
<1> QED BY <1>3, <1>4 DEF OwedTypes

-----------------------------------------------------------------------------
(* The tasks and the draft keep their types *)

\* What a step does to the tasks.
LaneSteps ==
    \/ UNCHANGED <<tasks, tails, spawned>>
    \/ \E r \in Rooms : Spawn(r, "message", issued', 0) /\ issued' = issued + 1
    \/ \E r \in Rooms : Spawn(r, "sticker", 0, 0)
    \/ \E r \in Rooms :
          /\ Spawn(r, "attachment", attempts + 1, draft.pick)
          /\ draft # None /\ attempts' = attempts + 1
    \/ UNCHANGED <<tails, spawned>> /\ tasks' \subseteq tasks
    \/ \E t \in tasks : ReadAttachment(t)
    \/ CancelAttachment
    \/ tails' = [r \in Rooms |-> 0] /\ UNCHANGED <<tasks, spawned>>

\* Every step does one of these.
LEMMA LanesMove ==
    ASSUME [Next]_vars
    PROVE  LaneSteps
<1>1. CASE Commands
  <2>1. ASSUME NEW r \in Rooms, SendMessage(r) \/ EditMessage(r) PROVE LaneSteps
        BY <2>1 DEF SendMessage, EditMessage, Hold, LaneSteps
  <2>2. ASSUME NEW r \in Rooms, SendSticker(r) PROVE LaneSteps
        BY <2>2 DEF SendSticker, LaneSteps
  <2>3. ASSUME NEW r \in Rooms, SendAttachment(r) PROVE LaneSteps
        BY <2>3 DEF SendAttachment, LaneSteps
  <2>4. CASE \/ \E r \in Rooms, live \in BOOLEAN : SelectRoom(r, live)
             \/ \E r \in Rooms : PickAttachment(r)
             \/ JumpToLatest \/ DropRoom \/ \E n \in 1..issued : DismissUnsent(n)
        BY <2>4 DEF SelectRoom, PickAttachment, JumpToLatest, DropRoom, DismissUnsent, lanes,
                    LaneSteps
  <2>5. CASE CancelAttachment
        BY <2>5 DEF LaneSteps
  <2> QED BY <1>1, <2>1, <2>2, <2>3, <2>4, <2>5 DEF Commands
<1>2. CASE TasksStep
  <2>1. ASSUME NEW t \in tasks, NEW ok, NEW said, Ends(t, ok, said) PROVE LaneSteps
        BY <2>1 DEF Ends, LaneSteps
  <2>2. ASSUME NEW t \in tasks, EnqueueMessage(t) \/ EnqueueSticker(t) \/ EnqueueAttachment(t)
        PROVE  LaneSteps
        BY <2>1, <2>2 DEF EnqueueMessage, EnqueueSticker, EnqueueAttachment
  <2>3. CASE AbortTasks \/ \E p \in picking : PickEnds(p)
        BY <2>3 DEF AbortTasks, PickEnds, lanes, LaneSteps
  <2> QED BY <1>2, <2>2, <2>3 DEF TasksStep, LaneSteps
<1>3. CASE Handle
      BY <1>3 DEF Handle, HandleSettled, HandleUnsaved, HandlePicked, HandleHandedOff,
                  HandleUpdate, HandleRefocus, HandleSignedIn, lanes, LaneSteps
<1>4. CASE EndSession \/ SessionEnded \/ SignIn \/ UNCHANGED vars
      BY <1>4 DEF EndSession, SessionEnded, SignIn, vars, lanes, LaneSteps
<1>5. CASE UpdateArrives \/ EditRefused \/ SubscriptionStops \/ UserMoves
      BY <1>5 DEF UpdateArrives, EditRefused, SubscriptionStops, UserMoves, others, lanes,
                  LaneSteps
<1> QED BY <1>1, <1>2, <1>3, <1>4, <1>5 DEF Next

\* What a task carries: the number of its message or of its send.
Carries(t) ==
    /\ t.kind = "message" => t.n \in 1..issued
    /\ t.kind = "attachment" => t.n \in 1..attempts /\ t.pick \in 1..picks

\* The tasks keep their types, and what they carry has been given out.
LEMMA TasksKeepTypes ==
    ASSUME TypeInv, [Next]_vars
    PROVE  TasksTypes'
<1>0. /\ tasks \subseteq Tasks /\ tails \in [Rooms -> 0..spawned]
      /\ \A t \in tasks : Carries(t)
      /\ issued \in Nat /\ attempts \in Nat /\ picks \in Nat /\ spawned \in Nat
      /\ issued' \in Nat /\ attempts' \in Nat /\ picks' \in Nat /\ spawned' \in Nat
      /\ issued <= issued' /\ attempts <= attempts' /\ picks <= picks' /\ spawned <= spawned'
      /\ spawned' <= MaxInputs /\ attempts' <= MaxInputs /\ issued' <= MaxInputs
      /\ MaxInputs \in Nat /\ MaxPicks \in Nat /\ picks <= MaxPicks
  <2>1. TasksTypes /\ NumbersInv /\ NumbersInv'
        BY NumbersKeep DEF TypeInv
  <2>2. /\ inputs' \in 0..MaxInputs /\ spawned' <= inputs' /\ attempts' <= spawned'
        /\ spawned' \in Nat /\ attempts' \in Nat /\ MaxInputs \in Nat /\ MaxPicks \in Nat
        BY <2>1, Bounds DEF NumbersInv
  <2>3. spawned' <= MaxInputs /\ attempts' <= MaxInputs
        BY <2>2
  <2> QED BY <2>1, <2>2, <2>3, NumbersKeep DEF TasksTypes, NumbersInv, Carries
<1>1. \A t \in tasks : Carries(t)'
  <2> SUFFICES ASSUME NEW t \in tasks PROVE Carries(t)'
      OBVIOUS
  <2>1. Carries(t)
        BY <1>0
  <2> QED BY <1>0, <2>1 DEF Carries
<1>2. tails \in [Rooms -> 0..spawned']
      BY <1>0
<1>3. ASSUME NEW r \in Rooms, NEW kind \in {"message", "sticker", "attachment"},
             NEW n \in 0..MaxInputs, NEW pick \in 0..MaxPicks, Spawn(r, kind, n, pick),
             kind = "message" => n \in 1..issued',
             kind = "attachment" => n \in 1..attempts' /\ pick \in 1..picks'
      PROVE  TasksTypes'
  <2> DEFINE new == Task(r, kind, n, pick)
  <2>1. /\ spawned' = spawned + 1 /\ tasks' = tasks \cup {new}
        /\ tails' = [tails EXCEPT ![r] = spawned + 1]
        BY <1>3 DEF Spawn
  <2>2. tails[r] \in 0..MaxInputs /\ spawned + 1 \in 1..MaxInputs /\ spawned + 1 \in 0..spawned'
        BY <1>0, <2>1
  <2>3. new \in Tasks
        BY <2>2 DEF Task, Tasks, Numbers
  <2>4. /\ new.kind = "message" => new.n \in 1..issued'
        /\ new.kind = "attachment" => new.n \in 1..attempts' /\ new.pick \in 1..picks'
        BY <1>3 DEF Task
  <2> HIDE DEF new
  <2>5. tails' \in [Rooms -> 0..spawned']
        BY <1>2, <2>1, <2>2
  <2>6. tasks' \subseteq Tasks /\ \A t \in tasks' : Carries(t)'
        BY <1>0, <1>1, <2>1, <2>3, <2>4 DEF Carries
  <2> QED BY <2>5, <2>6 DEF TasksTypes, Carries
<1>4. ASSUME tasks' \subseteq Tasks, UNCHANGED <<tails, spawned>>,
             \A t \in tasks' : \E u \in tasks : t.kind = u.kind /\ t.n = u.n /\ t.pick = u.pick
      PROVE  TasksTypes'
  <2>1. \A t \in tasks' : Carries(t)'
    <3> SUFFICES ASSUME NEW t \in tasks' PROVE Carries(t)'
        OBVIOUS
    <3>1. PICK u \in tasks : t.kind = u.kind /\ t.n = u.n /\ t.pick = u.pick
          BY <1>4
    <3>2. Carries(u)'
          BY <1>1
    <3> QED BY <3>1, <3>2 DEF Carries
  <2> QED BY <1>2, <1>4, <2>1 DEF TasksTypes, Carries
<1>5. LaneSteps
      BY LanesMove
<1>6. CASE UNCHANGED <<tails, spawned>> /\ tasks' \subseteq tasks
      BY <1>0, <1>4, <1>6
<1>7. CASE \E r \in Rooms : Spawn(r, "message", issued', 0) /\ issued' = issued + 1
  <2>1. /\ issued' \in 0..MaxInputs /\ 0 \in 0..MaxPicks
        /\ issued' = issued + 1 => issued' \in 1..issued'
        BY <1>0
  <2> QED BY <1>3, <1>7, <2>1
<1>8. CASE \E r \in Rooms : Spawn(r, "sticker", 0, 0)
  <2>1. 0 \in 0..MaxInputs /\ 0 \in 0..MaxPicks
        BY <1>0
  <2> QED BY <1>3, <1>8, <2>1
<1>9. CASE \E r \in Rooms :
              /\ Spawn(r, "attachment", attempts + 1, draft.pick)
              /\ draft # None /\ attempts' = attempts + 1
  <2>1. draft.pick \in Nat /\ draft.pick \in 1..MaxPicks /\ draft.pick <= picks
    <3>1. draft \in Drafts /\ draft.pick <= picks
          BY <1>9 DEF TypeInv, DraftTypes
    <3> QED BY <3>1, Bounds DEF Drafts
  <2>2. draft.pick \in 0..MaxPicks /\ draft.pick \in 1..picks'
        BY <1>0, <2>1
  <2>3. attempts' = attempts + 1 => attempts + 1 \in 0..MaxInputs /\ attempts + 1 \in 1..attempts'
        BY <1>0
  <2> QED BY <1>3, <1>9, <2>2, <2>3
<1>10. ASSUME NEW t \in tasks, ReadAttachment(t) PROVE TasksTypes'
  <2> DEFINE new == [t EXCEPT !.read = TRUE]
  <2>1. tasks' = (tasks \ {t}) \cup {new} /\ UNCHANGED <<tails, spawned>>
        BY <1>10 DEF ReadAttachment
  <2>2. new \in Tasks /\ new.kind = t.kind /\ new.n = t.n /\ new.pick = t.pick
        BY <1>0 DEF Tasks
  <2> HIDE DEF new
  <2>3. /\ tasks' \subseteq Tasks
        /\ \A x \in tasks' : \E u \in tasks : x.kind = u.kind /\ x.n = u.n /\ x.pick = u.pick
        BY <1>0, <2>1, <2>2
  <2> QED BY <1>4, <2>1, <2>3
<1>11. CASE CancelAttachment
  <2> DEFINE F(t) == IF t.kind = "attachment" /\ t.n = draft.send
                     THEN [t EXCEPT !.abandoned = TRUE] ELSE t
  <2>1. tasks' = {F(t) : t \in tasks} /\ UNCHANGED <<tails, spawned>>
        BY <1>11 DEF CancelAttachment
  <2>2. ASSUME NEW t \in tasks
        PROVE  F(t) \in Tasks /\ F(t).kind = t.kind /\ F(t).n = t.n /\ F(t).pick = t.pick
        BY <1>0 DEF Tasks
  <2> HIDE DEF F
  <2>3. /\ tasks' \subseteq Tasks
        /\ \A x \in tasks' : \E u \in tasks : x.kind = u.kind /\ x.n = u.n /\ x.pick = u.pick
        BY <2>1, <2>2
  <2> QED BY <1>4, <2>1, <2>3
<1>12. CASE tails' = [r \in Rooms |-> 0] /\ UNCHANGED <<tasks, spawned>>
  <2>1. tails' \in [Rooms -> 0..spawned']
        BY <1>0, <1>12
  <2> QED BY <1>0, <1>1, <1>12, <2>1 DEF TasksTypes, Carries
<1>13. CASE UNCHANGED <<tasks, tails, spawned>>
       BY <1>6, <1>13
<1> QED BY <1>5, <1>6, <1>7, <1>8, <1>9, <1>10, <1>11, <1>12, <1>13 DEF LaneSteps

\* What a step does to the draft and its files.
DraftSteps ==
    \/ UNCHANGED <<draft, released, picking>>
    \/ draft' = None /\ released' = Cleared /\ UNCHANGED <<picks, picking>>
    \/ \E r \in Rooms : PickAttachment(r)
    \/ \E p \in picking : PickEnds(p)
    \/ \E r \in Rooms : SendAttachment(r)
    \/ CancelAttachment
    \/ Handle /\ HandlePicked(Head(inbox))
    \/ Handle /\ HandleHandedOff(Head(inbox))

\* Every step does one of these.
LEMMA DraftMoves ==
    ASSUME [Next]_vars
    PROVE  DraftSteps
<1>0. ASSUME NEW r, NEW live, OpenRoom(r, live), UNCHANGED <<picks, picking>>
      PROVE  DraftSteps
      BY <1>0 DEF OpenRoom, Follow, DraftSteps
<1>1. CASE Commands
  <2>1. ASSUME NEW r \in Rooms, NEW live \in BOOLEAN, SelectRoom(r, live) PROVE DraftSteps
        BY <1>0, <2>1 DEF SelectRoom
  <2>2. ASSUME NEW r \in Rooms, SendMessage(r) \/ EditMessage(r) \/ SendSticker(r)
        PROVE  DraftSteps
        BY <2>2 DEF SendMessage, EditMessage, SendSticker, attachments, DraftSteps
  <2>3. CASE JumpToLatest
        BY <1>0, <2>3 DEF JumpToLatest
  <2>4. CASE DropRoom \/ \E n \in 1..issued : DismissUnsent(n)
        BY <2>4 DEF DropRoom, DismissUnsent, attachments, DraftSteps
  <2>5. CASE \/ \E r \in Rooms : PickAttachment(r) \/ SendAttachment(r)
             \/ CancelAttachment
        BY <2>5 DEF DraftSteps
  <2> QED BY <1>1, <2>1, <2>2, <2>3, <2>4, <2>5 DEF Commands
<1>2. CASE TasksStep
  <2>1. CASE \E p \in picking : PickEnds(p)
        BY <2>1 DEF DraftSteps
  <2>2. CASE ~\E p \in picking : PickEnds(p)
        BY <1>2, <2>2 DEF TasksStep, EnqueueMessage, EnqueueSticker, EnqueueAttachment,
                    ReadAttachment, AbortTasks, Ends, attachments, DraftSteps
  <2> QED BY <2>1, <2>2
<1>3. CASE Handle
  <2> DEFINE e == Head(inbox)
  <2> HIDE DEF e
  <2>1. CASE HandleSettled(e) \/ HandleUnsaved(e) \/ HandleUpdate(e) \/ HandleSignedIn(e)
        BY <2>1 DEF HandleSettled, HandleUnsaved, HandleUpdate, HandleSignedIn, attachments,
                    DraftSteps
  <2>2. CASE HandleRefocus(e)
    <3>1. CASE IsCurrent(e)
          BY <1>0, <2>2, <3>1 DEF HandleRefocus
    <3>2. CASE ~IsCurrent(e)
          BY <2>2, <3>2 DEF HandleRefocus, DraftSteps
    <3> QED BY <3>1, <3>2
  <2> QED BY <1>3, <2>1, <2>2 DEF Handle, DraftSteps, e
<1>4. CASE EndSession \/ SessionEnded \/ SignIn \/ UNCHANGED vars
      BY <1>4 DEF EndSession, SessionEnded, SignIn, vars, attachments, DraftSteps
<1>5. CASE UpdateArrives \/ EditRefused \/ SubscriptionStops \/ UserMoves
      BY <1>5 DEF UpdateArrives, EditRefused, SubscriptionStops, UserMoves, others,
                  attachments, DraftSteps
<1> QED BY <1>1, <1>2, <1>3, <1>4, <1>5 DEF Next

\* The draft keeps its types, and is an attachment that was picked.
LEMMA DraftKeepsTypes ==
    ASSUME TypeInv, [Next]_vars
    PROVE  DraftTypes'
<1>0. /\ draft \in Drafts \cup {None}
      /\ draft # None => draft.send <= attempts /\ draft.pick <= picks
      /\ released \subseteq 1..picks /\ picking \subseteq [pick : 1..picks, room : Rooms]
      /\ attempts \in Nat /\ attempts' \in Nat /\ picks \in Nat /\ picks' \in Nat
      /\ attempts <= attempts' /\ picks <= picks' /\ attempts' <= MaxInputs
      /\ MaxInputs \in Nat /\ MaxPicks \in Nat /\ picks' <= MaxPicks
  <2>1. DraftTypes /\ NumbersInv /\ NumbersInv'
        BY NumbersKeep DEF TypeInv
  <2>2. /\ inputs' \in 0..MaxInputs /\ spawned' <= inputs' /\ attempts' <= spawned'
        /\ spawned' \in Nat /\ attempts' \in Nat /\ MaxInputs \in Nat /\ MaxPicks \in Nat
        BY <2>1, Bounds DEF NumbersInv
  <2>3. attempts' <= MaxInputs
        BY <2>2
  <2> QED BY <2>1, <2>2, <2>3, NumbersKeep DEF DraftTypes, NumbersInv
<1>1. draft # None =>
         /\ draft \in Drafts /\ draft.pick \in 1..picks /\ draft.room \in Rooms
         /\ draft.send \in Nat /\ draft.send <= attempts'
  <2> SUFFICES ASSUME draft # None
               PROVE  /\ draft \in Drafts /\ draft.pick \in 1..picks /\ draft.room \in Rooms
                      /\ draft.send \in Nat /\ draft.send <= attempts'
      OBVIOUS
  <2>1. /\ draft \in Drafts /\ draft.pick \in 1..MaxPicks /\ draft.room \in Rooms
        /\ draft.send \in 0..MaxInputs
        BY <1>0 DEF Drafts, Numbers
  <2> QED BY <1>0, <2>1
<1>2. 1..picks \subseteq 1..picks'
      BY <1>0
<1>3. /\ released \subseteq 1..picks' /\ picking \subseteq [pick : 1..picks', room : Rooms]
      BY <1>0, <1>2
<1>4. Cleared \subseteq 1..picks'
      BY <1>1, <1>2, <1>3 DEF Cleared
<1>5. ASSUME draft' = draft \/ draft' = None, released' \subseteq 1..picks',
             picking' \subseteq [pick : 1..picks', room : Rooms]
      PROVE  DraftTypes'
      BY <1>0, <1>1, <1>5 DEF DraftTypes
<1>6. ASSUME NEW r \in Rooms, NEW p \in 1..MaxPicks, NEW m \in 0..attempts', p <= picks',
             draft' = [room |-> r, pick |-> p, send |-> m],
             released' \subseteq 1..picks', picking' \subseteq [pick : 1..picks', room : Rooms]
      PROVE  DraftTypes'
  <2>1. m \in 0..MaxInputs /\ m <= attempts'
        BY <1>0
  <2>2. draft' \in Drafts /\ draft'.send = m /\ draft'.pick = p
        BY <1>6, <2>1 DEF Drafts, Numbers
  <2> QED BY <1>6, <2>1, <2>2 DEF DraftTypes
<1>7. \A m : draft # None =>
         [draft EXCEPT !.send = m] = [room |-> draft.room, pick |-> draft.pick, send |-> m]
      BY <1>1 DEF Drafts
<1>8. draft # None => draft.pick \in 1..MaxPicks /\ draft.pick <= picks'
      BY <1>0, <1>1
<1>9. DraftSteps
      BY DraftMoves
<1>10. CASE UNCHANGED <<draft, released, picking>>
       BY <1>3, <1>5, <1>10
<1>11. CASE draft' = None /\ released' = Cleared /\ UNCHANGED <<picks, picking>>
       BY <1>3, <1>4, <1>5, <1>11
<1>12. ASSUME NEW r \in Rooms, PickAttachment(r) PROVE DraftTypes'
  <2>1. /\ draft' = None /\ released' = Cleared /\ picks' = picks + 1
        /\ picking' = picking \cup {[pick |-> picks + 1, room |-> r]}
        BY <1>12 DEF PickAttachment
  <2>2. picks + 1 \in 1..picks'
        BY <1>0, <2>1
  <2> QED BY <1>3, <1>4, <1>5, <2>1, <2>2
<1>13. ASSUME NEW p \in picking, PickEnds(p) PROVE DraftTypes'
       BY <1>3, <1>5, <1>13 DEF PickEnds
<1>14. ASSUME NEW r \in Rooms, SendAttachment(r) PROVE DraftTypes'
  <2>1. /\ draft # None /\ attempts' = attempts + 1
        /\ draft' = [draft EXCEPT !.send = attempts + 1] /\ UNCHANGED <<released, picking>>
        BY <1>14 DEF SendAttachment
  <2>2. attempts + 1 \in 0..attempts'
        BY <1>0, <2>1
  <2> QED BY <1>1, <1>3, <1>6, <1>7, <1>8, <2>1, <2>2
<1>15. CASE CancelAttachment
  <2>1. /\ draft # None /\ draft' = None
        /\ released' = released \cup {draft.pick} /\ picking' = picking
        BY <1>15 DEF CancelAttachment
  <2> QED BY <1>1, <1>2, <1>3, <1>5, <2>1
<1>16. CASE Handle /\ HandlePicked(Head(inbox))
  <2> DEFINE e == Head(inbox)
  <2>1. e \in Said /\ e \in Elements(inbox) /\ InboxTypes
        BY <1>16, Handled DEF TypeInv
  <2> HIDE DEF e
  <2>2. e.kind = "picked" /\ Adopt(e) /\ picking' = picking
        BY <1>16 DEF HandlePicked, e
  <2>3. e \in Picked /\ e.pick <= picks
        BY <2>1, <2>2, SaidByKind DEF InboxTypes
  <2>4. e.pick \in 1..MaxPicks /\ e.pick \in 1..picks' /\ e.room \in Rooms /\ e.pick <= picks'
    <3>1. e.pick \in 1..MaxPicks /\ e.room \in Rooms
          BY <2>3 DEF Picked
    <3> QED BY <1>0, <2>3, <3>1
  <2>5. 0 \in 0..attempts'
        BY <1>0
  <2>6. CASE released' = released \cup {e.pick} /\ draft' = draft
        BY <1>3, <1>5, <2>2, <2>4, <2>6
  <2>7. CASE draft' = [room |-> e.room, pick |-> e.pick, send |-> 0] /\ released' = released
        BY <1>3, <1>6, <2>2, <2>4, <2>5, <2>7
  <2> QED BY <2>2, <2>6, <2>7 DEF Adopt
<1>17. CASE Handle /\ HandleHandedOff(Head(inbox))
  <2> DEFINE e == Head(inbox)
  <2>1. /\ picking' = picking
        /\ \/ draft # None /\ draft' = None /\ released' = released \cup {draft.pick}
           \/ draft # None /\ draft' = [draft EXCEPT !.send = 0] /\ released' = released
           \/ UNCHANGED <<draft, released>>
        BY <1>17 DEF HandleHandedOff
  <2>2. 0 \in 0..attempts'
        BY <1>0
  <2>3. CASE draft # None /\ draft' = None /\ released' = released \cup {draft.pick}
        BY <1>1, <1>2, <1>3, <1>5, <2>1, <2>3
  <2>4. CASE draft # None /\ draft' = [draft EXCEPT !.send = 0] /\ released' = released
        BY <1>1, <1>3, <1>6, <1>7, <1>8, <2>1, <2>2, <2>4
  <2>5. CASE UNCHANGED <<draft, released>>
        BY <1>3, <1>5, <2>1, <2>5
  <2> QED BY <2>1, <2>3, <2>4, <2>5
<1> QED BY <1>9, <1>10, <1>11, <1>12, <1>13, <1>14, <1>15, <1>16, <1>17 DEF DraftSteps

-----------------------------------------------------------------------------
(* Types *)

\* The types hold at first.
LEMMA InitTypeInv == Init => TypeInv
<1> SUFFICES ASSUME Init PROVE TypeInv
    OBVIOUS
<1>1. NoWindow \in Windows /\ NoWindow.live /\ 0 \in 0..MaxWindows
      BY Bounds DEF NoWindow, Windows
<1>2. WindowTypes
      BY <1>1 DEF Init, TimelineInit, WindowTypes, TimelineTypeOK
<1>3. inbox = <<>> /\ Count(<<>>, Unsaved) = 0 /\ Elements(<<>>) = {}
      BY EmptyQueue DEF Init
<1>4. NumbersInv
      BY <1>3, Bounds DEF Init, NumbersInv
<1>5. InboxTypes
      BY <1>3, EmptySeq DEF InboxTypes
<1>6. HeldInv /\ OwedTypes
      BY EmptySeq DEF Init, HeldInv, OwedTypes
<1>7. TasksTypes /\ DraftTypes
      BY Bounds DEF Init, TasksTypes, DraftTypes
<1> QED BY <1>2, <1>4, <1>5, <1>6, <1>7 DEF TypeInv

\* Every step keeps them.
LEMMA StepKeepsTypes == TypeInv /\ [Next]_vars => TypeInv'
  BY TimelineKeepsTypes, NumbersKeep, InboxKeepsTypes, HeldKeepsTypes, OwedKeepsTypes,
     TasksKeepTypes, DraftKeepsTypes DEF TypeInv

\* The types are those of TypeOK.
LEMMA TypesImply == TypeInv /\ LaneInv => TypeOK
<1> SUFFICES ASSUME TypeInv, LaneInv PROVE TypeOK
    OBVIOUS
<1>1. /\ session \in {"running", "ending", "out"} /\ sessions \in 1..MaxSessions
      /\ inputs \in 0..MaxInputs /\ issued \in Nat /\ spawned \in Nat
      /\ Count(inbox, Unsaved) \in Nat /\ issued + Count(inbox, Unsaved) <= inputs
      /\ spawned <= inputs
  <2>1. inbox \in Seq(Said)
        BY DEF TypeInv, InboxTypes
  <2> QED BY <2>1, CountType DEF TypeInv, NumbersInv
<1>2. ASSUME NEW c \in Nat, issued + c <= inputs PROVE issued \in Numbers
      BY <1>1, <1>2, Bounds DEF Numbers
<1>3. issued \in Numbers /\ spawned \in Numbers
  <2>1. spawned \in Numbers
        BY <1>1, Bounds DEF Numbers
  <2> QED BY <1>1, <1>2, <2>1
<1>4. \A i \in DOMAIN held :
         /\ held[i] \in [n : 1..issued, room : Rooms, refused : BOOLEAN]
         /\ \A j \in DOMAIN held : i < j => held[i].n < held[j].n
  <2>0. HeldInv
        BY DEF TypeInv
  <2>1. DOMAIN held = 1..Len(held)
        BY <2>0, LenProperties DEF HeldInv
  <2> SUFFICES ASSUME NEW i \in 1..Len(held)
               PROVE  held[i] \in [n : 1..issued, room : Rooms, refused : BOOLEAN]
      BY <2>0, <2>1 DEF HeldInv
  <2>2. held[i] \in Messages /\ held[i].n <= issued
        BY <2>0, ElementOfSeq DEF HeldInv
  <2>3. held[i].n \in 1..issued
        BY <1>1, <2>2, Bounds DEF Messages
  <2> QED BY <2>2, <2>3 DEF Messages
<1>5. \A t, u \in tasks : t.id = u.id => t = u
      BY DEF LaneInv, TasksInv
<1> QED BY <1>1, <1>3, <1>4, <1>5
        DEF TypeOK, TypeInv, WindowTypes, OwedTypes, TasksTypes, DraftTypes

\* Nothing has another type than its own, for any rooms and bounds: no two
\* messages and no two tasks share a number, what was picked and what is
\* released was numbered, and the window and its subscriptions are of rooms.
THEOREM TypeCorrect == Spec => []TypeOK
<1> QED BY InitTypeInv, InitLaneInv, StepKeepsTypes, StepKeepsLanes, TypesImply, PTL DEF Spec

-----------------------------------------------------------------------------
(* What is read *)

\* BottomIsRead of a window.
ReadTo(w) ==
    w.atBottom =>
       /\ w.news = 0
       /\ w.unread /\ w.live => w.unresolved \/ (w.withheld /\ ~w.visible)

\* Marking a window read leaves nothing to mark at its bottom, or remembers why.
LEMMA MarkingReads ==
    ASSUME NEW w \in Windows, w.atBottom => w.news = 0
    PROVE  ReadTo(MarkRead(w)) /\ ReadTo(MarkReadIfResolved(w)) /\ ReadTo(MarkReadAtLatest(w))
<1>1. ASSUME NEW v \in Windows, v.atBottom => v.news = 0 PROVE ReadTo(MarkRead(v))
      BY <1>1 DEF MarkRead, ReadTo, Windows
<1>2. ReadTo(MarkReadIfResolved(w))
      BY <1>1 DEF MarkReadIfResolved, ReadTo
<1>3. ReadTo(MarkReadAtLatest(w))
  <2> DEFINE v == [w EXCEPT !.unresolved = FALSE]
  <2>1. v \in Windows /\ (v.atBottom => v.news = 0)
        BY DEF Windows
  <2> HIDE DEF v
  <2>2. ReadTo(MarkRead(v))
        BY <1>1, <2>1
  <2> QED BY <2>2 DEF MarkReadAtLatest, v
<1> QED BY <1>1, <1>2, <1>3

\* What the user does in a window leaves nothing to mark at its bottom.
LEMMA MovesRead ==
    ASSUME WindowTypes, ReadTo(window), UserMoves
    PROVE  ReadTo(window')
<1>0. window \in Windows /\ window.news \in 0..MaxNews /\ 0 \in 0..MaxNews
      BY Bounds DEF WindowTypes, TimelineTypeOK, Windows
<1>1. ASSUME NEW a \in BOOLEAN, NEW n \in 0..MaxNews
      PROVE  [window EXCEPT !.atBottom = a, !.news = n] \in Windows
      BY <1>0 DEF Windows
<1>2. ASSUME NEW atBottom \in BOOLEAN, NEW below \in 0..MaxNews, ScrollPosition(atBottom, below)
      PROVE  ReadTo(window')
  <2> DEFINE lowered == IF below < window.news THEN below ELSE window.news
             n == IF atBottom THEN 0 ELSE lowered
             there == [window EXCEPT !.atBottom = atBottom, !.news = n]
  <2>0. n \in 0..MaxNews /\ (atBottom => n = 0)
        BY <1>0, Bounds
  <2>1. there \in Windows
    <3> HIDE DEF n
    <3> QED BY <1>1, <2>0
  <2>2. there.atBottom => there.news = 0
    <3> HIDE DEF n
    <3> QED BY <1>0, <2>0 DEF Windows
  <2>3. CASE atBottom /\ ~window.atBottom
    <3>1. window' = MarkReadAtLatest(there)
          BY <1>2, <2>3 DEF ScrollPosition
    <3> HIDE DEF there
    <3> QED BY <2>1, <2>2, <3>1, MarkingReads
  <2>4. CASE ~(atBottom /\ ~window.atBottom)
    <3>1. window' = there
          BY <1>2, <2>4 DEF ScrollPosition
    <3>2. ReadTo(there)
      <4> HIDE DEF n
      <4> QED BY <1>0, <2>0, <2>4 DEF ReadTo, Windows
    <3> QED BY <3>1, <3>2
  <2> QED BY <2>3, <2>4
<1>3. ASSUME JumpInWindow PROVE ReadTo(window')
  <2> DEFINE there == [window EXCEPT !.atBottom = TRUE, !.news = 0]
  <2>1. there \in Windows
        BY <1>0, <1>1
  <2>2. there.atBottom => there.news = 0
        BY <1>0 DEF Windows
  <2>3. window' = MarkReadAtLatest(there)
        BY <1>3 DEF JumpInWindow
  <2> HIDE DEF there
  <2> QED BY <2>1, <2>2, <2>3, MarkingReads
<1>4. ASSUME NEW shown \in BOOLEAN, VisibilityChanged(shown) PROVE ReadTo(window')
  <2> DEFINE seen == [window EXCEPT !.visible = shown]
  <2>1. seen \in Windows /\ (seen.atBottom => seen.news = 0)
        BY <1>0 DEF Windows, ReadTo
  <2>2. CASE window.withheld /\ window.atBottom
    <3>1. window' = MarkRead(seen)
          BY <1>4, <2>2 DEF VisibilityChanged
    <3> HIDE DEF seen
    <3> QED BY <2>1, <3>1, MarkingReads
  <2>3. CASE ~(window.withheld /\ window.atBottom)
    <3>1. window' = seen
          BY <1>4, <2>3 DEF VisibilityChanged
    <3>2. ReadTo(seen)
          BY <1>0, <2>3 DEF ReadTo, Windows
    <3> QED BY <3>1, <3>2
  <2> QED BY <2>2, <2>3
<1> QED BY <1>2, <1>3, <1>4 DEF UserMoves

\* So does what an update shows.
LEMMA UpdatesRead ==
    ASSUME WindowTypes, ReadTo(window), NEW e, HandleUpdate(e)
    PROVE  ReadTo(window')
<1> DEFINE kind == e.kind
<1>0. /\ window \in Windows /\ 0 \in 0..MaxNews
      /\ kind \in {"unresolved", "anchored", "opens", "arrived", "focused", "ended"}
      BY Bounds DEF WindowTypes, TimelineTypeOK, HandleUpdate, Updates
<1> HIDE DEF kind
<1>1. ASSUME NEW v \in Windows, ~v.atBottom PROVE ReadTo(AddNews(Shown(v))) /\ ReadTo(Shown(v))
  <2>1. Shown(v) \in Windows /\ ~Shown(v).atBottom
        BY <1>1 DEF Shown, Windows
  <2>2. ASSUME NEW x \in Windows, ~x.atBottom PROVE ~AddNews(x).atBottom
        BY <2>2 DEF AddNews, Windows
  <2> QED BY <2>1, <2>2 DEF ReadTo
<1>2. CASE kind = "focused"
  <2>1. ReadTo([window EXCEPT !.atBottom = FALSE])
        BY <1>0 DEF ReadTo, Windows
  <2> QED BY <1>2, <2>1 DEF HandleUpdate, SettleUpdate, Advance, kind
<1>3. CASE kind = "unresolved"
  <2>1. ReadTo([window EXCEPT !.unresolved = TRUE])
        BY <1>0 DEF ReadTo, Windows
  <2> QED BY <1>3, <2>1 DEF HandleUpdate, SettleUpdate, Advance, kind
<1>4. CASE kind = "anchored"
  <2>1. /\ [window EXCEPT !.atBottom = FALSE] \in Windows
        /\ ~[window EXCEPT !.atBottom = FALSE].atBottom
        BY <1>0 DEF Windows
  <2>2. ReadTo(AddNews(Shown([window EXCEPT !.atBottom = FALSE])))
        BY <1>1, <2>1
  <2> QED BY <1>4, <2>2 DEF HandleUpdate, SettleUpdate, Advance, kind
<1>5. CASE kind \in {"opens", "arrived"} /\ window.atBottom
  <2>1. Shown(window) \in Windows /\ (Shown(window).atBottom => Shown(window).news = 0)
        BY <1>0 DEF Shown, Windows, ReadTo
  <2>2. ReadTo(MarkReadIfResolved(Shown(window)))
        BY <2>1, MarkingReads
  <2> QED BY <1>5, <2>2 DEF HandleUpdate, SettleUpdate, Advance, kind
<1>6. CASE kind \in {"opens", "arrived"} /\ ~window.atBottom
  <2>1. ReadTo(AddNews(Shown(window))) /\ ReadTo(Shown(window))
        BY <1>0, <1>1, <1>6
  <2> QED BY <1>6, <2>1 DEF HandleUpdate, SettleUpdate, Advance, kind
<1>7. CASE kind = "ended"
  <2>1. ReadTo([window EXCEPT !.news = 0])
        BY <1>0 DEF ReadTo, Windows
  <2> QED BY <1>7, <2>1 DEF HandleUpdate, SettleUpdate, kind
<1> QED BY <1>0, <1>2, <1>3, <1>4, <1>5, <1>6, <1>7

\* So does every step.
LEMMA StepReads ==
    ASSUME TypeInv, BottomIsRead, [Next]_vars
    PROVE  BottomIsRead'
<1>0. WindowTypes /\ InboxTypes /\ ReadTo(window)
      BY DEF TypeInv, BottomIsRead, ReadTo
<1>1. TimelineSteps
      BY <1>0, TimelineMoves
<1>2. ASSUME window' = window \/ ReadTo(window') PROVE BottomIsRead'
      BY <1>0, <1>2 DEF BottomIsRead, ReadTo
<1>3. CASE UNCHANGED timeline
      BY <1>2, <1>3 DEF timeline
<1>4. CASE \E r \in Rooms, live \in BOOLEAN : OpenWindow(r, live)
      BY <1>0, <1>2, <1>4, OpensAWindow DEF ReadTo
<1>5. CASE ClearWindow
      BY <1>0, <1>2, <1>5, ClearsTheWindow DEF ReadTo
<1>6. CASE ForgetWindows
      BY <1>2, <1>6 DEF ForgetWindows, NoWindow, ReadTo
<1>7. CASE \E s \in subs : SubscriptionSays(s) \/ SubscriptionEnds(s)
      BY <1>2, <1>7 DEF SubscriptionSays, SubscriptionEnds
<1>8. CASE HandleUpdate(Head(inbox))
      BY <1>0, <1>2, <1>8, UpdatesRead
<1>9. CASE UserMoves
      BY <1>0, <1>2, <1>9, MovesRead
<1> QED BY <1>1, <1>3, <1>4, <1>5, <1>6, <1>7, <1>8, <1>9 DEF TimelineSteps

\* What the user has at the bottom of a live window is read, however scrolling,
\* showing and hiding the window and what arrives interleave, but for a receipt
\* that waits to be shown or for the read position (active_timeline.rs).
THEOREM NothingIsLeftUnread == Spec => []BottomIsRead
<1>1. Init => BottomIsRead
      BY DEF Init, TimelineInit, NoWindow, BottomIsRead
<1> QED BY <1>1, InitTypeInv, StepKeepsTypes, StepReads, PTL DEF Spec

-----------------------------------------------------------------------------
(* The window and the updates for it *)

\* Of the room and number of a window there is no other than that window.
OfWindow(x, w) == x.room = w.room /\ x.gen = w.gen => x.serial = w.serial
Known(x, w, gen) == x.gen <= gen /\ OfWindow(x, w)

\* The window has the latest number; the subscriptions and, in a session, what is
\* on its way are of it or of an earlier one. A sign-in has no update, no outcome
\* of a message and no sign-in behind it.
WindowInv ==
    /\ window.gen = generation
    /\ session = "out" => subs = {} /\ window.room = None
    /\ \A s \in subs : Known(s, window, generation)
    /\ session # "out" => \A e \in Elements(inbox) : e.kind # "signedIn"
    /\ session # "out" => \A e \in Elements(inbox) :
          e \in UpdateMessages => Known(e, window, generation)
    /\ NoneBehind(inbox, SignedIn, UpdateMessages \cup Settled \cup SignedIn)

\* What is of the window that is open or of an earlier one is of the next or of
\* an earlier one.
LEMMA StaysKnown ==
    ASSUME TypeInv, WindowInv, [Next]_vars, session' # "out",
           NEW x, x.gen \in Nat, Known(x, window, generation)
    PROVE  Known(x, window', generation') /\ window'.gen = generation'
<1>0. WindowTypes /\ InboxTypes /\ generation \in Nat
      BY DEF TypeInv, WindowTypes, TimelineTypeOK
<1>1. TimelineSteps
      BY <1>0, TimelineMoves
<1>2. ASSUME window' = window \/ Like(window, window'), generation' = generation
      PROVE  Known(x, window', generation') /\ window'.gen = generation'
      BY <1>2 DEF Known, OfWindow, Like, WindowInv
<1>3. ASSUME window'.gen = generation', generation' = generation + 1
      PROVE  Known(x, window', generation') /\ window'.gen = generation'
      BY <1>0, <1>3 DEF Known, OfWindow
<1>4. CASE UNCHANGED timeline
      BY <1>2, <1>4 DEF timeline
<1>5. CASE \E r \in Rooms, live \in BOOLEAN : OpenWindow(r, live)
      BY <1>0, <1>3, <1>5, OpensAWindow
<1>6. CASE ClearWindow
      BY <1>0, <1>3, <1>6, ClearsTheWindow
<1>7. CASE \E s \in subs : SubscriptionSays(s) \/ SubscriptionEnds(s)
      BY <1>2, <1>7 DEF SubscriptionSays, SubscriptionEnds
<1>8. CASE HandleUpdate(Head(inbox))
      BY <1>0, <1>2, <1>8, UpdatesAreLike DEF HandleUpdate
<1>9. CASE UserMoves
      BY <1>0, <1>2, <1>9, MovesAreLike
<1> QED BY <1>1, <1>4, <1>5, <1>6, <1>7, <1>8, <1>9 DEF TimelineSteps

\* What is handled in a session is not a sign-in, and out of one no window is open.
LEMMA WhenOut ==
    ASSUME TypeInv, WindowInv, NEW e \in UpdateMessages, IsCurrent(e)
    PROVE  session # "out"
<1>1. window.room \in Rooms
      BY DEF IsCurrent, UpdateMessages
<1> QED BY <1>1, Bounds DEF WindowInv

\* What the subscriptions are, step by step.
LEMMA SubscriptionsNext ==
    ASSUME TypeInv, WindowInv, [Next]_vars
    PROVE  /\ session' = "out" => subs' = {} /\ window'.room = None /\ window'.gen = generation'
           /\ \A s \in subs' : Known(s, window', generation')
<1>0. /\ WindowTypes /\ InboxTypes /\ generation \in Nat /\ subs \subseteq Subscriptions
      /\ NumbersInv
      BY DEF TypeInv, WindowTypes, TimelineTypeOK
<1>1. TimelineSteps
      BY <1>0, TimelineMoves
<1>2. ASSUME NEW s \in Subscriptions PROVE s.gen \in Nat
      BY Bounds DEF Subscriptions
<1>3. CASE session' = "out"
  <2>1. session = "out" \/ (session = "ending" /\ ForgetWindows)
    <3>1. CASE session = "running"
      <4>1. session' \in {session, "running", "ending"}
            BY <1>0, <3>1 DEF Next, Commands, TasksStep, Handle, SelectRoom, SendMessage,
               EditMessage, SendSticker, PickAttachment, SendAttachment, JumpToLatest, DropRoom,
               CancelAttachment, DismissUnsent, EnqueueMessage, EnqueueSticker, ReadAttachment,
               EnqueueAttachment, Ends, AbortTasks, PickEnds, HandleSettled, HandleUnsaved,
               HandlePicked, HandleHandedOff, HandleUpdate, HandleRefocus, HandleSignedIn,
               EndSession, SessionEnded, SignIn, UpdateArrives, EditRefused, SubscriptionStops,
               UserMoves, others, vars
      <4> QED BY <1>3, <3>1, <4>1
    <3>2. CASE session = "ending"
      <4>1. session' = session \/ SessionEnded
            BY <3>2 DEF Next, Commands, TasksStep, Handle, SelectRoom, SendMessage,
               EditMessage, SendSticker, PickAttachment, SendAttachment, JumpToLatest, DropRoom,
               CancelAttachment, DismissUnsent, EnqueueMessage, EnqueueSticker, ReadAttachment,
               EnqueueAttachment, Ends, AbortTasks, PickEnds, EndSession, SignIn, UpdateArrives,
               EditRefused, SubscriptionStops, UserMoves, others, vars
      <4> QED BY <1>3, <3>2, <4>1 DEF SessionEnded
    <3> QED BY <1>0, <3>1, <3>2 DEF NumbersInv
  <2>2. CASE session = "ending" /\ ForgetWindows
        BY <2>2 DEF ForgetWindows, NoWindow
  <2>3. CASE session = "out"
    <3>1. subs = {} /\ window.room = None /\ window.gen = generation
          BY <2>3 DEF WindowInv
    <3>2. CASE UNCHANGED timeline
          BY <3>1, <3>2 DEF timeline
    <3>3. CASE /\ \/ session = "running"
                  \/ Handle /\ Head(inbox) \in UpdateMessages /\ IsCurrent(Head(inbox))
               /\ \E r \in Rooms, live \in BOOLEAN : OpenWindow(r, live)
          BY <2>3, <3>3, WhenOut
    <3>4. CASE \E s \in subs : SubscriptionSays(s) \/ SubscriptionEnds(s)
          BY <3>1, <3>4
    <3>5. CASE Handle /\ HandleUpdate(Head(inbox))
          BY <1>0, <3>1, <3>5, UpdatesAreLike DEF HandleUpdate, Like
    <3>6. CASE UserMoves
          BY <2>3, <3>6 DEF UserMoves
    <3>7. CASE session = "ending" \/ session = "running"
          BY <2>3, <3>7
    <3> QED BY <1>1, <3>2, <3>3, <3>4, <3>5, <3>6, <3>7 DEF TimelineSteps
  <2> QED BY <2>1, <2>2, <2>3
<1>4. CASE session' # "out"
  <2> SUFFICES ASSUME NEW s \in subs' PROVE Known(s, window', generation')
      BY <1>4
  <2>1. ASSUME NEW y \in subs, s.room = y.room, s.gen = y.gen, s.serial = y.serial
        PROVE  Known(s, window', generation')
    <3>1. Known(y, window, generation) /\ y.gen \in Nat
          BY <1>0, <1>2 DEF WindowInv
    <3>2. Known(y, window', generation')
          BY <1>4, <3>1, StaysKnown
    <3> QED BY <2>1, <3>2 DEF Known, OfWindow
  <2>2. CASE s \in subs
        BY <2>1, <2>2
  <2>3. CASE \E r \in Rooms, live \in BOOLEAN : OpenWindow(r, live)
    <3>1. PICK r \in Rooms, live \in BOOLEAN : OpenWindow(r, live)
          BY <2>3
    <3>2. /\ subs' = subs \cup {[room |-> r, gen |-> window'.gen, serial |-> window'.serial,
                                live |-> live, stage |-> "opening"]}
          /\ window'.gen = generation' /\ generation' = generation + 1
          BY <1>0, <3>1, OpensAWindow
    <3>3. CASE s \notin subs
      <4>1. s.gen = generation' /\ s.serial = window'.serial
            BY <3>2, <3>3
      <4>2. generation' <= generation'
            BY <1>0, <3>2
      <4> QED BY <4>1, <4>2 DEF Known, OfWindow
    <3> QED BY <2>2, <3>3
  <2>4. CASE \E z \in subs : SubscriptionSays(z) \/ SubscriptionEnds(z)
    <3>1. \E y \in subs : s.room = y.room /\ s.gen = y.gen /\ s.serial = y.serial
      <4>1. CASE \E z \in subs : SubscriptionSays(z)
            BY <1>0, <4>1, SaysKeepsTypes
      <4>2. CASE \E z \in subs : SubscriptionEnds(z)
            BY <4>2 DEF SubscriptionEnds
      <4> QED BY <2>4, <4>1, <4>2
    <3> QED BY <2>1, <3>1
  <2>5. CASE UNCHANGED timeline \/ ClearWindow \/ UserMoves
    <3>1. subs' = subs
          BY <1>0, <2>5, MovesAreLike DEF timeline, ClearWindow
    <3> QED BY <2>2, <3>1
  <2>6. CASE HandleUpdate(Head(inbox))
    <3>1. subs' = subs
          BY <2>6 DEF HandleUpdate, SettleUpdate
    <3> QED BY <2>2, <3>1
  <2> QED BY <1>1, <1>4, <2>2, <2>3, <2>4, <2>5, <2>6 DEF TimelineSteps
<1> QED BY <1>3, <1>4

\* A session begins with the sign-in that is handled.
LEMMA BeginsWithSignIn ==
    ASSUME [Next]_vars, session = "out", session' # "out"
    PROVE  Handle /\ HandleSignedIn(Head(inbox)) /\ inbox' = Tail(inbox)
<1>1. Handle /\ HandleSignedIn(Head(inbox))
      BY DEF Next, Commands, TasksStep, Handle, SelectRoom, SendMessage, Command,
             EditMessage, SendSticker, PickAttachment, SendAttachment, JumpToLatest, DropRoom,
             CancelAttachment, DismissUnsent, EnqueueMessage, EnqueueSticker, ReadAttachment,
             EnqueueAttachment, Ends, AbortTasks, PickEnds, HandleSettled, HandleUnsaved,
             HandlePicked, HandleHandedOff, HandleUpdate, HandleRefocus,
             EndSession, SessionEnded, SignIn, UpdateArrives, EditRefused, SubscriptionStops,
             UserMoves, others, vars
<1> QED BY <1>1 DEF HandleSignedIn

\* The sets of messages have nothing in common.
LEMMA KindsDiffer ==
    /\ \A e \in UpdateMessages : e.kind \in Updates
    /\ \A e \in Settled : e.kind = "settled"
    /\ \A e \in Unsaved : e.kind = "unsaved"
    /\ \A e \in Picked : e.kind = "picked"
    /\ \A e \in HandedOff : e.kind = "handedOff"
    /\ \A e \in SignedIn : e.kind = "signedIn"
    /\ Updates \cap {"settled", "unsaved", "picked", "handedOff", "signedIn"} = {}
  BY DEF UpdateMessages, Settled, Unsaved, Picked, HandedOff, SignedIn, Updates

\* What is on its way in a session is of the window or of an earlier one.
LEMMA InboxKnown ==
    ASSUME TypeInv, WindowInv, [Next]_vars, session' # "out", NEW e \in Elements(inbox')
    PROVE  e.kind # "signedIn" /\ (e \in UpdateMessages => Known(e, window', generation'))
<1>0. /\ inbox \in Seq(Said) /\ subs \subseteq Subscriptions /\ InboxTypes
      /\ \A x \in UpdateMessages : x.gen \in Nat
      BY Bounds DEF TypeInv, InboxTypes, WindowTypes, TimelineTypeOK, UpdateMessages
<1>1. CASE session # "out"
  <2>1. e.kind # "signedIn"
    <3>1. NewsOf(e) => e.kind # "signedIn"
          BY <1>1 DEF NewsOf, SignIn, Update, Updates
    <3>2. e \in UpdateMessages => e.kind # "signedIn"
          BY KindsDiffer
    <3> QED BY <1>1, <3>1, <3>2, InboxNext DEF WindowInv
  <2>2. ASSUME e \in UpdateMessages PROVE Known(e, window, generation)
    <3>1. CASE e \in Elements(inbox)
          BY <1>1, <2>2, <3>1 DEF WindowInv
    <3>2. CASE NewsOf(e)
      <4>1. /\ e.kind \in Updates
            /\ Updates \cap {"settled", "unsaved", "picked", "handedOff", "signedIn"} = {}
            BY <2>2, KindsDiffer
      <4>2. PICK s \in subs, k \in Updates : e = Update(s, k)
            BY <3>2, <4>1 DEF NewsOf
      <4>3. e.room = s.room /\ e.gen = s.gen /\ e.serial = s.serial
            BY <4>2 DEF Update
      <4>4. Known(s, window, generation)
            BY DEF WindowInv
      <4> QED BY <4>3, <4>4 DEF Known, OfWindow
    <3>3. CASE /\ e \in UpdateMessages /\ IsCurrent(e) /\ window' \in Windows
               /\ Handle /\ HandleUpdate(Head(inbox))
               /\ Head(inbox) \in UpdateMessages /\ IsCurrent(Head(inbox))
               /\ e.serial = Head(inbox).serial /\ e.gen = Head(inbox).gen
      <4>1. Head(inbox) \in Elements(inbox)
            BY <1>0, <3>3, Handled
      <4>2. Known(Head(inbox), window, generation)
            BY <1>1, <3>3, <4>1 DEF WindowInv
      <4> QED BY <3>3, <4>2 DEF Known, OfWindow, IsCurrent
    <3> QED BY <3>1, <3>2, <3>3, InboxNext
  <2> QED BY <1>0, <2>1, <2>2, StaysKnown
<1>2. CASE session = "out"
  <2>1. Handle /\ HandleSignedIn(Head(inbox)) /\ inbox' = Tail(inbox)
        BY <1>2, BeginsWithSignIn
  <2>2. Head(inbox) \in SignedIn
        BY <1>0, <2>1, Handled, SaidByKind DEF HandleSignedIn
  <2>3. \A x \in Elements(Tail(inbox)) : x \notin UpdateMessages \cup Settled \cup SignedIn
    <3>1. inbox # <<>>
          BY <2>1 DEF Handle
    <3>2. NoneBehind(inbox, SignedIn, UpdateMessages \cup Settled \cup SignedIn)
          BY DEF WindowInv
    <3> HIDE DEF SignedIn, UpdateMessages, Settled, Said
    <3> DEFINE L == UpdateMessages \cup Settled \cup SignedIn
    <3> HIDE DEF L
    <3>3. NoneBehind(inbox, SignedIn, L)
          BY <3>2 DEF L
    <3>4. \A x \in Elements(Tail(inbox)) : x \notin L
          BY <1>0, <2>2, <3>1, <3>3, QueueTail
    <3> QED BY <3>4 DEF L
  <2>4. e \in Elements(Tail(inbox)) /\ e \in Said
    <3>1. e \in Elements(Tail(inbox)) /\ Tail(inbox) \in Seq(Said)
          BY <1>0, <2>1, Handled
    <3> QED BY <3>1, ElementOfSeq, LenProperties DEF Elements
  <2> QED BY <2>3, <2>4, SaidByKind
<1> QED BY <1>1, <1>2

\* Nothing of a session gets behind the sign-in of the next.
LEMMA NoneGetsBehind ==
    ASSUME TypeInv, WindowInv, LaneInv, [Next]_vars
    PROVE  NoneBehind(inbox', SignedIn, UpdateMessages \cup Settled \cup SignedIn)
<1> DEFINE L == UpdateMessages \cup Settled \cup SignedIn
<1>0. /\ inbox \in Seq(Said) /\ InboxTypes /\ NoneBehind(inbox, SignedIn, L)
      BY DEF TypeInv, InboxTypes, WindowInv
<1>1. session # "out" => \A e \in Elements(inbox) : e \notin SignedIn
      BY KindsDiffer DEF WindowInv
<1>2. ASSUME NEW x \in L, NewsOf(x) PROVE \A e \in Elements(inbox) : e \notin SignedIn
  <2>1. CASE session = "out"
    <3>1. subs = {} /\ tasks = {}
          BY <2>1 DEF WindowInv, LaneInv, TailInv
    <3>2. ~(\E p \in picking : x = [kind |-> "picked", pick |-> p.pick, room |-> p.room])
          BY KindsDiffer
    <3>3. SignIn
          BY <1>2, <3>1, <3>2 DEF NewsOf
    <3>4. \A k \in DOMAIN inbox : inbox[k].kind # "signedIn"
          BY <3>3 DEF SignIn
    <3> QED BY <3>4, KindsDiffer DEF Elements
  <2>2. CASE session # "out"
        BY <1>1, <2>2
  <2> QED BY <2>1, <2>2
<1> HIDE DEF L
<1>3. CASE inbox' = inbox
      BY <1>0, <1>3 DEF L
<1>4. CASE Handle /\ inbox' = Tail(inbox)
  <2>1. inbox # <<>>
        BY <1>4 DEF Handle
  <2>2. NoneBehind(Tail(inbox), SignedIn, L)
        BY <1>0, <2>1, QueueTail
  <2> QED BY <1>4, <2>2 DEF L
<1>5. CASE /\ Handle /\ HandleUpdate(Head(inbox)) /\ IsCurrent(Head(inbox))
           /\ inbox' = Append(Tail(inbox), [Head(inbox) EXCEPT !.kind = "toLive"])
  <2> DEFINE h == Head(inbox)
             q == Tail(inbox)
             x == [h EXCEPT !.kind = "toLive"]
  <2>1. /\ h \in Said /\ q \in Seq(Said) /\ Elements(inbox) = Elements(q) \cup {h}
        /\ inbox # <<>>
        BY <1>0, <1>5, Handled DEF Handle
  <2>2. h \in UpdateMessages
    <3>1. h.kind \in Updates
          BY <1>5 DEF HandleUpdate
    <3> QED BY <2>1, <3>1, SaidByKind
  <2>3. x \in Said
        BY <2>2, RefocusIsSaid DEF Said
  <2>4. session # "out"
        BY <1>5, <2>2, WhenOut
  <2>5. NoneBehind(q, SignedIn, L)
        BY <1>0, <2>1, QueueTail
  <2>6. \A e \in Elements(q) : e \notin SignedIn
        BY <1>1, <2>1, <2>4
  <2> HIDE DEF q, x
  <2>7. NoneBehind(Append(q, x), SignedIn, L)
        BY <2>1, <2>3, <2>5, <2>6, QueueAppend
  <2> QED BY <1>5, <2>7 DEF L, q, x
<1>6. ASSUME NEW x, NewsOf(x), inbox' = Append(inbox, x)
      PROVE  NoneBehind(inbox', SignedIn, L)
  <2>1. x \in Said
        BY <1>6, NewsAreSaid
  <2> QED BY <1>0, <1>2, <1>6, <2>1, QueueAppend
<1> QED BY <1>3, <1>4, <1>5, <1>6, InboxChanges DEF L

\* The window keeps the latest number, and what feeds it stays of it or of an
\* earlier one.
LEMMA StepKeepsWindow ==
    ASSUME TypeInv, LaneInv, WindowInv, [Next]_vars
    PROVE  WindowInv'
<1>1. window'.gen = generation'
  <2>1. CASE session' = "out"
        BY <2>1, SubscriptionsNext
  <2>2. CASE session' # "out"
    <3> DEFINE x == [room |-> window.room, gen |-> window.gen, serial |-> window.serial]
    <3>1. x.gen \in Nat /\ Known(x, window, generation)
      <4>1. window \in Windows /\ generation \in 0..MaxWindows
            BY DEF TypeInv, WindowTypes, TimelineTypeOK
      <4>2. window.gen = generation /\ generation \in Nat /\ generation <= generation
            BY <4>1, Bounds DEF WindowInv
      <4> QED BY <4>2 DEF Known, OfWindow
    <3> HIDE DEF x
    <3> QED BY <2>2, <3>1, StaysKnown
  <2> QED BY <2>1, <2>2
<1>2. session' = "out" => subs' = {} /\ window'.room = None
      BY SubscriptionsNext
<1>3. \A s \in subs' : Known(s, window', generation')
      BY SubscriptionsNext
<1>4. session' # "out" => \A e \in Elements(inbox') :
         e.kind # "signedIn" /\ (e \in UpdateMessages => Known(e, window', generation'))
      BY InboxKnown
<1>5. NoneBehind(inbox', SignedIn, UpdateMessages \cup Settled \cup SignedIn)
      BY NoneGetsBehind
<1> HIDE DEF UpdateMessages, SignedIn, Settled, NoneBehind, Elements
<1>6. (\A s \in subs : Known(s, window, generation))'
      BY <1>3 DEF Known, OfWindow
<1>7. (session # "out" => \A e \in Elements(inbox) :
          e \in UpdateMessages => Known(e, window, generation))'
      BY <1>4 DEF Known, OfWindow, Elements, UpdateMessages
<1>8. (session # "out" => \A e \in Elements(inbox) : e.kind # "signedIn")'
      BY <1>4 DEF Elements
<1>9. NoneBehind(inbox, SignedIn, UpdateMessages \cup Settled \cup SignedIn)'
      BY <1>5 DEF NoneBehind, SignedIn, UpdateMessages, Settled
<1> QED BY <1>1, <1>2, <1>6, <1>7, <1>8, <1>9 DEF WindowInv

\* There is nothing to know at first.
LEMMA InitWindowInv == Init => WindowInv
<1> SUFFICES ASSUME Init PROVE WindowInv
    OBVIOUS
<1>1. /\ Elements(<<>>) = {} /\ inbox = <<>>
      /\ NoneBehind(<<>>, SignedIn, UpdateMessages \cup Settled \cup SignedIn)
      BY EmptyQueue DEF Init
<1> QED BY <1>1 DEF Init, TimelineInit, NoWindow, WindowInv

\* An update that is handled and not of the window that is open is not current.
LEMMA OtherUpdatesAreNotCurrent ==
    ASSUME TypeInv, WindowInv, Handle, Head(inbox) \in UpdateMessages,
           Head(inbox).serial # window.serial
    PROVE  ~IsCurrent(Head(inbox))
<1>1. Head(inbox) \in Elements(inbox)
      BY Handled DEF TypeInv
<1> SUFFICES ASSUME IsCurrent(Head(inbox)) PROVE FALSE
    OBVIOUS
<1>2. session # "out"
      BY WhenOut
<1>3. Known(Head(inbox), window, generation)
      BY <1>1, <1>2 DEF WindowInv
<1> QED BY <1>3 DEF Known, OfWindow, IsCurrent

\* What is put behind a queue leaves it in front.
LEMMA AppendIsPrefixed ==
    ASSUME NEW A, NEW q \in Seq(A)
    PROVE  IsPrefix(q, q) /\ \A x \in A : IsPrefix(q, Append(q, x))
<1>1. Len(q) \in Nat
      BY LenProperties
<1>2. IsPrefix(q, q)
      BY <1>1 DEF IsPrefix
<1>3. ASSUME NEW x \in A PROVE IsPrefix(q, Append(q, x))
  <2>1. /\ Append(q, x) \in Seq(A) /\ Len(Append(q, x)) = Len(q) + 1
        /\ \A i \in 1..Len(q) : Append(q, x)[i] = q[i]
        BY AppendProperties
  <2> DEFINE r == Append(q, x)
             n == Len(q)
  <2>2. Len(q) <= Len(r)
        BY <1>1, <2>1
  <2>3. SubSeq(q, 1, n) = [i \in 1..n |-> q[i]] /\ SubSeq(r, 1, n) = [i \in 1..n |-> r[i]]
        BY <1>1
  <2>4. [i \in 1..n |-> q[i]] = [i \in 1..n |-> r[i]]
        BY <2>1
  <2> QED BY <2>2, <2>3, <2>4 DEF IsPrefix
<1> QED BY <1>2, <1>3

\* An update of another window than the one that is open changes nothing, for any
\* rooms, openings and sessions, even when room and number are the same: within a
\* session a number is given out once, and none of an earlier session gets behind
\* the sign-in of the next (active_timeline.rs, selection.rs).
THEOREM UpdatesStayWithTheirWindow == Spec => UpdatesAreOfTheirWindow
<1>1. ASSUME TypeInv, WindowInv, [Next]_vars
      PROVE  [(/\ inbox # <<>> /\ ~IsPrefix(inbox, inbox')
               /\ Head(inbox).kind \in Updates /\ Head(inbox).serial # window.serial)
              => UNCHANGED <<window, selected, generation>>]_vars
  <2> SUFFICES ASSUME inbox # <<>>, ~IsPrefix(inbox, inbox'),
                      Head(inbox).kind \in Updates, Head(inbox).serial # window.serial
               PROVE  UNCHANGED <<window, selected, generation>>
      OBVIOUS
  <2>1. inbox \in Seq(Said)
        BY <1>1 DEF TypeInv, InboxTypes
  <2>2. IsPrefix(inbox, inbox) /\ \A x \in Said : IsPrefix(inbox, Append(inbox, x))
        BY <2>1, AppendIsPrefixed
  <2>3. Handle
        BY <1>1, <2>2, InboxChanges, NewsAreSaid
  <2> DEFINE e == Head(inbox)
  <2>4. e \in UpdateMessages
    <3>1. e \in Said
          BY <1>1, <2>3, Handled DEF TypeInv
    <3> QED BY <3>1, SaidByKind
  <2>5. ~IsCurrent(e)
        BY <1>1, <2>3, <2>4, OtherUpdatesAreNotCurrent
  <2>6. /\ e.kind \in Updates
        /\ Updates \cap {"settled", "unsaved", "picked", "handedOff", "signedIn"} = {}
        BY KindsDiffer
  <2> HIDE DEF e
  <2>7. HandleUpdate(e) \/ HandleRefocus(e)
        BY <2>3, <2>6 DEF Handle, HandleSettled, HandleUnsaved, HandlePicked, HandleHandedOff,
                          HandleSignedIn, e
  <2>8. CASE HandleUpdate(e)
        BY <2>5, <2>8 DEF HandleUpdate, SettleUpdate
  <2>9. CASE HandleRefocus(e)
        BY <2>5, <2>9 DEF HandleRefocus, timeline
  <2> QED BY <2>7, <2>8, <2>9
<1> QED BY <1>1, InitTypeInv, InitLaneInv, InitWindowInv, StepKeepsTypes, StepKeepsLanes,
           StepKeepsWindow, PTL DEF Spec, UpdatesAreOfTheirWindow

-----------------------------------------------------------------------------
(* Each outcome comes once *)

\* What is on its way of a kind other than updates grows only by what is new.
LEMMA InboxCount ==
    ASSUME TypeInv, [Next]_vars, NEW set, set \cap UpdateMessages = {}
    PROVE  /\ Count(inbox, set) \in Nat /\ Count(inbox', set) \in Nat
           /\ \/ Count(inbox', set) <= Count(inbox, set)
              \/ /\ Count(inbox', set) = Count(inbox, set) + 1
                 /\ \E x \in set : NewsOf(x)
<1>0. InboxTypes /\ inbox \in Seq(Said) /\ inbox' \in Seq(Said)
      BY InboxNext DEF TypeInv, InboxTypes
<1>1. Count(inbox, set) \in Nat /\ Count(inbox', set) \in Nat
      BY <1>0, CountType
<1> DEFINE C(q) == Count(q, set)
<1>2. CASE inbox' = inbox
      BY <1>1, <1>2
<1>3. CASE Handle /\ inbox' = Tail(inbox)
  <2>1. C(inbox) = C(Tail(inbox)) + (IF Head(inbox) \in set THEN 1 ELSE 0)
        BY <1>0, <1>3, Handled
  <2>2. C(inbox') = C(Tail(inbox))
        BY <1>3
  <2> HIDE DEF C
  <2>3. C(inbox) \in Nat /\ C(inbox') \in Nat
        BY <1>1 DEF C
  <2>4. C(inbox') <= C(inbox)
        BY <2>1, <2>2, <2>3
  <2> QED BY <1>1, <2>4 DEF C
<1>4. CASE /\ Handle /\ HandleUpdate(Head(inbox)) /\ IsCurrent(Head(inbox))
           /\ inbox' = Append(Tail(inbox), [Head(inbox) EXCEPT !.kind = "toLive"])
  <2> DEFINE h == Head(inbox)
             q == Tail(inbox)
             x == [h EXCEPT !.kind = "toLive"]
  <2>1. h \in Said /\ q \in Seq(Said) /\ C(inbox) = C(q) + (IF h \in set THEN 1 ELSE 0)
        BY <1>0, <1>4, Handled
  <2>2. h \in UpdateMessages
    <3>1. h.kind \in Updates
          BY <1>4 DEF HandleUpdate
    <3> QED BY <2>1, <3>1, SaidByKind
  <2>3. x \in Said /\ x \notin set
    <3>1. x \in UpdateMessages
          BY <2>2, RefocusIsSaid
    <3> QED BY <3>1 DEF Said
  <2>4. inbox' = Append(q, x)
        BY <1>4
  <2> HIDE DEF q, x
  <2>5. C(inbox') = C(q) + (IF x \in set THEN 1 ELSE 0)
        BY <2>1, <2>3, <2>4, QueueAppend
  <2> HIDE DEF C
  <2>6. C(inbox) \in Nat /\ C(inbox') \in Nat
        BY <1>1 DEF C
  <2>7. C(q) \in Nat
        BY <2>1, CountType DEF C
  <2>8. C(inbox') = C(q)
        BY <2>3, <2>5, <2>7
  <2>9. C(inbox') <= C(inbox)
        BY <2>1, <2>6, <2>7, <2>8
  <2> QED BY <1>1, <2>9 DEF C
<1>5. ASSUME NEW x, NewsOf(x), inbox' = Append(inbox, x)
      PROVE  C(inbox') <= C(inbox) \/ (C(inbox') = C(inbox) + 1 /\ x \in set)
  <2>1. x \in Said
        BY <1>5, NewsAreSaid
  <2>2. C(inbox') = C(inbox) + (IF x \in set THEN 1 ELSE 0)
        BY <1>0, <1>5, <2>1, QueueAppend
  <2>3. C(inbox) \in Nat /\ C(inbox') \in Nat
        BY <1>1
  <2> HIDE DEF C
  <2> QED BY <2>2, <2>3
<1> QED BY <1>1, <1>2, <1>3, <1>4, <1>5, InboxChanges

\* A queue without any of a set counts none of it, and the other way round.
LEMMA CountNone ==
    ASSUME NEW q \in Seq(Said), NEW set
    PROVE  /\ Count(q, set) \in Nat
           /\ Count(q, set) = 0 <=> \A x \in Elements(q) : x \notin set
  BY CountType

\* The outcomes of message n.
SettledOf(n) == {e \in Settled : e.n = n}

\* The outcome of a message is on its way once, and not while a task has it.
OnceInv ==
    /\ \A n \in Nat : Count(inbox, SettledOf(n)) <= 1
    /\ \A t \in tasks : t.kind = "message" => Count(inbox, SettledOf(t.n)) = 0
    /\ \A t, u \in tasks : t.kind = "message" /\ u.kind = "message" /\ t.n = u.n => t = u

\* A message is given to a task once, under a new number.
LEMMA MessageTasksNext ==
    ASSUME TypeInv, [Next]_vars
    PROVE  \A t \in tasks' : t.kind = "message" =>
              \/ t \in tasks
              \/ /\ t.n = issued' /\ issued' = issued + 1
                 /\ \A u \in tasks' : u.kind = "message" /\ u.n = issued' => u = t
<1>0. /\ tasks \subseteq Tasks /\ issued \in Nat
      /\ \A t \in tasks : t.kind = "message" => t.n \in 1..issued
      BY DEF TypeInv, TasksTypes, NumbersInv
<1>1. ASSUME NEW r, NEW kind, NEW n, NEW pick, Spawn(r, kind, n, pick)
      PROVE  \E new : tasks' = tasks \cup {new} /\ new.kind = kind /\ new.n = n
  <2>1. tasks' = tasks \cup {Task(r, kind, n, pick)}
        BY <1>1 DEF Spawn
  <2>2. Task(r, kind, n, pick).kind = kind /\ Task(r, kind, n, pick).n = n
        BY DEF Task
  <2> QED BY <2>1, <2>2
<1>2. LaneSteps
      BY LanesMove
<1>3. CASE tasks' \subseteq tasks
      BY <1>3
<1>4. CASE \E r \in Rooms : Spawn(r, "message", issued', 0) /\ issued' = issued + 1
  <2>1. PICK new : tasks' = tasks \cup {new} /\ new.kind = "message" /\ new.n = issued'
        BY <1>1, <1>4
  <2>2. issued' = issued + 1
        BY <1>4
  <2>3. ASSUME NEW u \in tasks', u.kind = "message", u.n = issued' PROVE u = new
        BY <1>0, <2>1, <2>2, <2>3
  <2> QED BY <2>1, <2>2, <2>3
<1>5. CASE \/ \E r \in Rooms : Spawn(r, "sticker", 0, 0)
           \/ \E r \in Rooms : Spawn(r, "attachment", attempts + 1, draft.pick)
  <2>1. PICK new : tasks' = tasks \cup {new} /\ new.kind \in {"sticker", "attachment"}
        BY <1>1, <1>5
  <2> QED BY <2>1
<1>6. CASE \E t \in tasks : ReadAttachment(t)
  <2>1. PICK t \in tasks : /\ t.kind = "attachment"
                           /\ tasks' = (tasks \ {t}) \cup {[t EXCEPT !.read = TRUE]}
        BY <1>6 DEF ReadAttachment
  <2>2. [t EXCEPT !.read = TRUE].kind = "attachment"
        BY <1>0, <2>1 DEF Tasks
  <2> QED BY <2>1, <2>2
<1>7. CASE CancelAttachment
  <2> DEFINE F(t) == IF t.kind = "attachment" /\ t.n = draft.send
                     THEN [t EXCEPT !.abandoned = TRUE] ELSE t
  <2>1. tasks' = {F(t) : t \in tasks}
        BY <1>7 DEF CancelAttachment
  <2>2. \A t \in tasks : F(t).kind = t.kind /\ (t.kind # "attachment" => F(t) = t)
        BY <1>0 DEF Tasks
  <2> HIDE DEF F
  <2> QED BY <2>1, <2>2
<1> QED BY <1>2, <1>3, <1>4, <1>5, <1>6, <1>7 DEF LaneSteps

\* The outcomes that are of a message.
LEMMA SettledOfFacts ==
    ASSUME NEW n
    PROVE  /\ SettledOf(n) \cap UpdateMessages = {}
           /\ \A x \in SettledOf(n) : x.kind = "settled" /\ x.n = n
           /\ \A x \in Settled : x \in SettledOf(n) <=> x.n = n
  BY KindsDiffer DEF SettledOf

\* What is new of the outcomes of messages is of a task that ends.
LEMMA NewOutcome ==
    ASSUME NEW n, NEW x \in SettledOf(n), NewsOf(x)
    PROVE  \E t \in tasks :
              /\ t.kind = "message" /\ tasks' = tasks \ {t} /\ t.n = n /\ x.room = t.room
<1>1. x.kind = "settled" /\ x.n = n /\ "settled" \notin Updates
      BY SettledOfFacts, KindsDiffer
<1>2. \A s, k : Update(s, k).kind = k
      BY DEF Update
<1> QED BY <1>1, <1>2 DEF NewsOf

\* An outcome comes once.
LEMMA StepKeepsOnce ==
    ASSUME TypeInv, OnceInv, [Next]_vars
    PROVE  OnceInv'
<1>0. /\ inbox \in Seq(Said) /\ issued \in Nat
      /\ \A t \in tasks : t.kind = "message" => t.n \in 1..issued
      /\ \A e \in Elements(inbox) : e.kind = "settled" => e.n <= issued
      BY DEF TypeInv, InboxTypes, TasksTypes, NumbersInv
<1> DEFINE C(q, n) == Count(q, SettledOf(n))
<1>1. \A n : /\ C(inbox, n) \in Nat /\ C(inbox', n) \in Nat
             /\ \/ C(inbox', n) <= C(inbox, n)
                \/ /\ C(inbox', n) = C(inbox, n) + 1
                   /\ \E t \in tasks : t.kind = "message" /\ tasks' = tasks \ {t} /\ t.n = n
  <2> TAKE n
  <2>1. /\ C(inbox, n) \in Nat /\ C(inbox', n) \in Nat
        /\ \/ C(inbox', n) <= C(inbox, n)
           \/ C(inbox', n) = C(inbox, n) + 1 /\ \E x \in SettledOf(n) : NewsOf(x)
        BY InboxCount, SettledOfFacts
  <2>2. ASSUME NEW x \in SettledOf(n), NewsOf(x)
        PROVE  \E t \in tasks : t.kind = "message" /\ tasks' = tasks \ {t} /\ t.n = n
        BY <2>2, NewOutcome
  <2> HIDE DEF C
  <2> QED BY <2>1, <2>2
<1>2. C(inbox, issued + 1) = 0
  <2>1. ASSUME NEW e \in Elements(inbox), e \in SettledOf(issued + 1) PROVE FALSE
    <3>1. e.kind = "settled" /\ e.n = issued + 1
          BY <2>1, SettledOfFacts
    <3> QED BY <1>0, <3>1
  <2> QED BY <1>0, <2>1, CountNone
<1>3. /\ \A n \in Nat : C(inbox, n) <= 1
      /\ \A t \in tasks : t.kind = "message" => C(inbox, t.n) = 0
      /\ \A t, u \in tasks : t.kind = "message" /\ u.kind = "message" /\ t.n = u.n => t = u
      BY DEF OnceInv
<1> HIDE DEF C
<1>4. \A n \in Nat : C(inbox', n) <= 1
      BY <1>1, <1>3
<1>5. ASSUME NEW t \in tasks', t.kind = "message"
      PROVE  C(inbox', t.n) = 0
  <2>1. CASE t \in tasks
    <3>1. C(inbox, t.n) = 0
          BY <1>3, <1>5, <2>1
    <3>2. ~(\E u \in tasks : u.kind = "message" /\ tasks' = tasks \ {u} /\ u.n = t.n)
          BY <1>3, <1>5, <2>1
    <3> QED BY <1>1, <3>1, <3>2
  <2>2. CASE t.n = issued' /\ issued' = issued + 1
    <3>1. C(inbox, t.n) = 0
          BY <1>2, <2>2
    <3>2. ~(\E u \in tasks : u.kind = "message" /\ tasks' = tasks \ {u} /\ u.n = t.n)
          BY <1>0, <2>2
    <3> QED BY <1>1, <3>1, <3>2
  <2> QED BY <1>5, <2>1, <2>2, MessageTasksNext
<1>6. ASSUME NEW t \in tasks', NEW u \in tasks', t.kind = "message", u.kind = "message",
             t.n = u.n
      PROVE  t = u
      BY <1>3, <1>6, MessageTasksNext
<1>7. (\A n \in Nat : Count(inbox, SettledOf(n)) <= 1)'
      BY <1>4 DEF C
<1>8. \A t \in tasks' : t.kind = "message" => C(inbox', t.n) = 0
      BY <1>5
<1> QED BY <1>6, <1>7, <1>8 DEF OnceInv, C

-----------------------------------------------------------------------------
(* What is refused is owed and offered *)

\* Of the messages in a set: one is being sent, and what is owed for the refused.
Waits(set, n, room) == \E x \in set : x.n = n /\ x.room = room /\ ~x.refused
OwedOf(set) == {[n |-> x.n, room |-> x.room] : x \in {y \in set : y.refused}}

\* The first that is owed for a room.
FirstOf(due, room) ==
    LET here == {o.n : o \in {p \in due : p.room = room}}
    IN  IF here = {} THEN 0 ELSE CHOOSE n \in here : \A m \in here : n <= m

\* Messages in the order of their numbers.
Ordered(h) ==
    /\ h \in Seq(Messages)
    /\ \A i, j \in 1..Len(h) : i < j => h[i].n < h[j].n

\* No two of them have the same number.
LEMMA OrderedAreUnique ==
    ASSUME NEW h, Ordered(h)
    PROVE  /\ DOMAIN h = 1..Len(h) /\ Len(h) \in Nat
           /\ \A x \in Elements(h) : x \in Messages
           /\ \A x, y \in Elements(h) : x.n = y.n => x = y
<1>1. h \in Seq(Messages) /\ DOMAIN h = 1..Len(h) /\ Len(h) \in Nat
      BY LenProperties DEF Ordered
<1>2. \A x \in Elements(h) : x \in Messages
      BY <1>1, ElementOfSeq DEF Elements
<1>3. ASSUME NEW x \in Elements(h), NEW y \in Elements(h), x.n = y.n PROVE x = y
  <2>1. PICK i \in 1..Len(h) : x = h[i]
        BY <1>1 DEF Elements
  <2>2. PICK j \in 1..Len(h) : y = h[j]
        BY <1>1 DEF Elements
  <2>3. x.n \in Nat /\ y.n \in Nat
        BY <1>2, Bounds DEF Messages
  <2>4. ~(i < j) /\ ~(j < i)
        BY <1>3, <2>1, <2>2, <2>3 DEF Ordered
  <2> QED BY <1>1, <2>1, <2>2, <2>4
<1> QED BY <1>1, <1>2, <1>3

\* The least number of a set is the one chosen for it.
LEMMA ChosenIsLeast ==
    ASSUME NEW S, S \subseteq Nat, NEW m \in S, \A k \in S : m <= k
    PROVE  m = CHOOSE n \in S : \A k \in S : n <= k
<1> DEFINE P(n) == n \in S /\ \A k \in S : n <= k
           c == CHOOSE n \in S : \A k \in S : n <= k
<1>1. c \in S /\ \A k \in S : c <= k
      OBVIOUS
<1> HIDE DEF c
<1>2. c <= m /\ m <= c /\ c \in Nat /\ m \in Nat
      BY <1>1
<1>3. m = c
      BY <1>2
<1> QED BY <1>3 DEF c

\* What is offered is the first that is owed for the room.
LEMMA OfferOfOwed ==
    ASSUME NEW h, Ordered(h), NEW room
    PROVE  Offer(h, room) = FirstOf(OwedOf(Elements(h)), room)
<1> DEFINE here == {o.n : o \in {p \in OwedOf(Elements(h)) : p.room = room}}
<1>0. h \in Seq(Messages) /\ DOMAIN h = 1..Len(h)
      BY OrderedAreUnique DEF Ordered
<1>1. ASSUME NEW i \in Refused(h, room) PROVE h[i].n \in here /\ i \in 1..Len(h)
  <2>1. i \in DOMAIN h /\ h[i].refused /\ h[i].room = room
        BY DEF Refused
  <2>2. h[i] \in {y \in Elements(h) : y.refused}
        BY <2>1 DEF Elements
  <2> DEFINE o == [n |-> h[i].n, room |-> h[i].room]
  <2>3. o \in OwedOf(Elements(h)) /\ o.room = room /\ o.n = h[i].n
        BY <2>1, <2>2 DEF OwedOf
  <2> HIDE DEF o
  <2> QED BY <1>0, <2>1, <2>3
<1>2. ASSUME NEW n \in here PROVE \E i \in Refused(h, room) : n = h[i].n
  <2>1. PICK o \in OwedOf(Elements(h)) : o.room = room /\ o.n = n
        OBVIOUS
  <2>2. PICK x \in Elements(h) : x.refused /\ o = [n |-> x.n, room |-> x.room]
        BY DEF OwedOf
  <2>3. PICK i \in DOMAIN h : x = h[i]
        BY DEF Elements
  <2> QED BY <2>1, <2>2, <2>3 DEF Refused
<1> HIDE DEF here
<1>3. CASE Refused(h, room) = {}
  <2>1. here = {}
        BY <1>2, <1>3
  <2>2. Offer(h, room) = 0
        BY <1>0, <1>3, OfferIsFirst
  <2> QED BY <2>1, <2>2 DEF FirstOf, here
<1>4. CASE Refused(h, room) # {}
  <2>1. PICK i \in Refused(h, room) :
           Offer(h, room) = h[i].n /\ \A j \in Refused(h, room) : i <= j
        BY <1>0, <1>4, OfferIsFirst
  <2>2. here \subseteq Nat
    <3> SUFFICES ASSUME NEW n \in here PROVE n \in Nat
        OBVIOUS
    <3>1. PICK j \in Refused(h, room) : n = h[j].n
          BY <1>2
    <3>2. h[j] \in Messages
          BY <1>0, <1>1, ElementOfSeq
    <3> QED BY <3>1, <3>2, Bounds DEF Messages
  <2>3. \A n \in here : h[i].n <= n
    <3> SUFFICES ASSUME NEW n \in here PROVE h[i].n <= n
        OBVIOUS
    <3>1. PICK j \in Refused(h, room) : n = h[j].n
          BY <1>2
    <3>2. i <= j /\ i \in 1..Len(h) /\ j \in 1..Len(h)
          BY <1>1, <2>1
    <3>3. h[i].n \in Nat /\ h[j].n \in Nat
          BY <1>1, <2>2
    <3>4. i < j => h[i].n < h[j].n
          BY <3>2 DEF Ordered
    <3>5. i = j \/ i < j
          BY <1>0, <3>2
    <3> QED BY <3>1, <3>3, <3>4, <3>5
  <2>4. h[i].n = CHOOSE n \in here : \A m \in here : n <= m
        BY <1>1, <2>2, <2>3, ChosenIsLeast
  <2>5. here # {}
        BY <1>1
  <2>6. FirstOf(OwedOf(Elements(h)), room) =
           IF here = {} THEN 0 ELSE CHOOSE n \in here : \A m \in here : n <= m
        BY DEF FirstOf, here
  <2> QED BY <2>1, <2>4, <2>5, <2>6
<1> QED BY <1>3, <1>4

\* What Retain keeps, as a set.
LEMMA RetainElements ==
    ASSUME NEW h \in Seq(Messages), NEW set
    PROVE  Elements(Retain(h, set)) = Elements(h) \cap set
<1> DEFINE r == Retain(h, set)
<1>1. Retains(Messages, h, set, r)
      BY RetainFacts
<1> HIDE DEF r
<1>2. r \in Seq(Messages) /\ DOMAIN r = 1..Len(r) /\ DOMAIN h = 1..Len(h)
      BY <1>1, LenProperties DEF Retains
<1>3. ASSUME NEW x \in Elements(r) PROVE x \in Elements(h) /\ x \in set
  <2>1. PICK i \in 1..Len(r) : x = r[i]
        BY <1>2 DEF Elements
  <2>2. r[i] \in set /\ \E j \in 1..Len(h) : h[j] = r[i]
        BY <1>1 DEF Retains
  <2> QED BY <1>2, <2>1, <2>2 DEF Elements
<1>4. ASSUME NEW x \in Elements(h), x \in set PROVE x \in Elements(r)
  <2>1. PICK j \in 1..Len(h) : x = h[j]
        BY <1>2 DEF Elements
  <2>2. \E i \in 1..Len(r) : r[i] = h[j]
        BY <1>1, <1>4, <2>1 DEF Retains
  <2> QED BY <1>2, <2>1, <2>2 DEF Elements
<1>5. Elements(r) = Elements(h) \cap set
      BY <1>3, <1>4
<1> QED BY <1>5 DEF r

\* A message that is marked when it has the number.
Marked(x, n) == IF x.n = n THEN [x EXCEPT !.refused = TRUE] ELSE x

\* What is marked, as a set.
LEMMA MarkElements ==
    ASSUME NEW h, NEW n, NEW r, r = [i \in DOMAIN h |-> Marked(h[i], n)]
    PROVE  Elements(r) = {Marked(x, n) : x \in Elements(h)}
<1>1. DOMAIN r = DOMAIN h /\ \A i \in DOMAIN h : r[i] = Marked(h[i], n)
      OBVIOUS
<1>2. {r[i] : i \in DOMAIN r} = {Marked(x, n) : x \in {h[i] : i \in DOMAIN h}}
      BY <1>1
<1> QED BY <1>2 DEF Elements

\* A message taken out that was being sent leaves what is owed, and the others.
LEMMA AcceptedGoes ==
    ASSUME NEW h, Ordered(h), NEW n, NEW room, Waits(Elements(h), n, room)
    PROVE  LET r == Retain(h, {s \in Messages : s.n # n})
           IN  /\ OwedOf(Elements(r)) = OwedOf(Elements(h))
               /\ \A m, q : Waits(Elements(h), m, q) /\ m # n => Waits(Elements(r), m, q)
<1> DEFINE S == Elements(h)
           R == Elements(Retain(h, {s \in Messages : s.n # n}))
<1>1. h \in Seq(Messages) /\ (\A x \in S : x \in Messages) /\ \A x, y \in S : x.n = y.n => x = y
      BY OrderedAreUnique DEF Ordered
<1>2. R = {x \in S : x.n # n}
  <2>1. R = S \cap {s \in Messages : s.n # n}
        BY <1>1, RetainElements
  <2> QED BY <1>1, <2>1
<1>3. PICK w \in S : w.n = n /\ w.room = room /\ ~w.refused
      BY DEF Waits
<1> HIDE DEF S, R
<1>4. \A x \in S : x.refused => x.n # n
      BY <1>1, <1>3
<1>5. {y \in R : y.refused} = {y \in S : y.refused}
      BY <1>2, <1>4
<1>6. OwedOf(R) = OwedOf(S)
      BY <1>5 DEF OwedOf
<1>7. \A m, q : Waits(S, m, q) /\ m # n => Waits(R, m, q)
      BY <1>2 DEF Waits
<1> QED BY <1>6, <1>7 DEF S, R

\* A message that is marked was being sent and is owed, and the others are sent.
LEMMA RefusedStays ==
    ASSUME NEW h, Ordered(h), NEW n, NEW room, Waits(Elements(h), n, room),
           NEW r, r = [i \in DOMAIN h |-> Marked(h[i], n)]
    PROVE  /\ OwedOf(Elements(r)) = OwedOf(Elements(h)) \cup {[n |-> n, room |-> room]}
           /\ \A m, q : Waits(Elements(h), m, q) /\ m # n => Waits(Elements(r), m, q)
<1> DEFINE S == Elements(h)
           R == Elements(r)
           F(x) == Marked(x, n)
<1>1. (\A x \in S : x \in Messages) /\ \A x, y \in S : x.n = y.n => x = y
      BY OrderedAreUnique DEF Ordered
<1>2. R = {F(x) : x \in S}
      BY MarkElements
<1>3. PICK w \in S : w.n = n /\ w.room = room /\ ~w.refused
      BY DEF Waits
<1> HIDE DEF S, R
<1>4. /\ F(w).n = n /\ F(w).room = room /\ F(w).refused
      /\ \A x \in S : x.n # n => F(x) = x
      /\ \A x \in S : x # w => x.n # n
      BY <1>1, <1>3 DEF Messages, Marked
<1> HIDE DEF F
<1>5. {y \in R : y.refused} = {y \in S : y.refused} \cup {F(w)}
      BY <1>2, <1>3, <1>4
<1>6. OwedOf(R) = OwedOf(S) \cup {[n |-> n, room |-> room]}
  <2> DEFINE G(x) == [n |-> x.n, room |-> x.room]
             A == {y \in S : y.refused}
  <2>1. OwedOf(R) = {G(x) : x \in A \cup {F(w)}}
        BY <1>5 DEF OwedOf
  <2>2. OwedOf(S) = {G(x) : x \in A}
        BY DEF OwedOf
  <2>3. G(F(w)) = [n |-> n, room |-> room]
        BY <1>4
  <2> HIDE DEF A, G
  <2>4. {G(x) : x \in A \cup {F(w)}} = {G(x) : x \in A} \cup {G(F(w))}
        OBVIOUS
  <2> QED BY <2>1, <2>2, <2>3, <2>4
<1>7. \A m, q : Waits(S, m, q) /\ m # n => Waits(R, m, q)
      BY <1>2, <1>4 DEF Waits
<1> QED BY <1>6, <1>7 DEF S, R

\* A refused message that is dismissed is no longer owed, and the others are sent.
LEMMA DismissedGoes ==
    ASSUME NEW h, Ordered(h), NEW n
    PROVE  LET r == Retain(h, {s \in Messages : s.n # n \/ ~s.refused})
           IN  /\ OwedOf(Elements(r)) = {o \in OwedOf(Elements(h)) : o.n # n}
               /\ \A m, q : Waits(Elements(h), m, q) => Waits(Elements(r), m, q)
<1> DEFINE S == Elements(h)
           R == Elements(Retain(h, {s \in Messages : s.n # n \/ ~s.refused}))
<1>1. h \in Seq(Messages) /\ \A x \in S : x \in Messages
      BY OrderedAreUnique DEF Ordered
<1>2. R = {x \in S : x.n # n \/ ~x.refused}
  <2>1. R = S \cap {s \in Messages : s.n # n \/ ~s.refused}
        BY <1>1, RetainElements
  <2> QED BY <1>1, <2>1
<1> HIDE DEF S, R
<1>3. OwedOf(R) = {o \in OwedOf(S) : o.n # n}
  <2>1. ASSUME NEW o \in OwedOf(R) PROVE o \in OwedOf(S) /\ o.n # n
        BY <1>2 DEF OwedOf
  <2>2. ASSUME NEW o \in OwedOf(S), o.n # n PROVE o \in OwedOf(R)
        BY <1>2, <2>2 DEF OwedOf
  <2> QED BY <2>1, <2>2
<1>4. \A m, q : Waits(S, m, q) => Waits(R, m, q)
      BY <1>2 DEF Waits
<1> QED BY <1>3, <1>4 DEF S, R

\* A message put behind the others is sent, or owed when it is refused.
LEMMA HeldBehind ==
    ASSUME NEW h, Ordered(h), NEW m \in Messages
    PROVE  LET r == Append(h, m)
           IN  /\ \A n, q : Waits(Elements(h), n, q) => Waits(Elements(r), n, q)
               /\ ~m.refused => /\ Waits(Elements(r), m.n, m.room)
                                /\ OwedOf(Elements(r)) = OwedOf(Elements(h))
               /\ m.refused => OwedOf(Elements(r)) =
                                  OwedOf(Elements(h)) \cup {[n |-> m.n, room |-> m.room]}
<1> DEFINE S == Elements(h)
           R == Elements(Append(h, m))
<1>1. R = S \cup {m}
      BY QueueAppend DEF Ordered
<1> HIDE DEF S, R
<1>2. \A n, q : Waits(S, n, q) => Waits(R, n, q)
      BY <1>1 DEF Waits
<1>3. ~m.refused => Waits(R, m.n, m.room)
      BY <1>1 DEF Waits
<1> DEFINE G(x) == [n |-> x.n, room |-> x.room]
           A == {y \in S : y.refused}
<1>4. {y \in R : y.refused} = IF m.refused THEN A \cup {m} ELSE A
      BY <1>1
<1>5. OwedOf(R) = {G(x) : x \in {y \in R : y.refused}} /\ OwedOf(S) = {G(x) : x \in A}
      BY DEF OwedOf
<1>6. G(m) = [n |-> m.n, room |-> m.room]
      OBVIOUS
<1> HIDE DEF A, G
<1>7. {G(x) : x \in A \cup {m}} = {G(x) : x \in A} \cup {G(m)}
      OBVIOUS
<1>8. ~m.refused => OwedOf(R) = OwedOf(S)
      BY <1>4, <1>5
<1>9. m.refused => OwedOf(R) = OwedOf(S) \cup {[n |-> m.n, room |-> m.room]}
      BY <1>4, <1>5, <1>6, <1>7
<1> QED BY <1>2, <1>3, <1>8, <1>9 DEF S, R

\* What is owed is what is refused of the messages held, and the first of it of
\* the selected room is offered. In a session every message that a task has, or
\* whose outcome is on its way, is held and not refused; out of one, none is held.
OwedInv ==
    /\ session # "running" => held = <<>>
    /\ owed = OwedOf(Elements(held))
    /\ unsent = Offer(held, selected)
    /\ session = "running" => \A e \in Elements(inbox) :
          e \in Settled => Waits(Elements(held), e.n, e.room)
    /\ session = "running" => \A t \in tasks :
          t.kind = "message" => Waits(Elements(held), t.n, t.room)

\* Nothing is done to the messages held, and what is offered follows the room.
Quiet ==
    /\ UNCHANGED <<held, owed, issued>>
    /\ session = "running" => session' = session
    /\ \/ UNCHANGED <<unsent, selected>>
       \/ unsent' = Offer(held, selected')
       \/ unsent' = 0 /\ selected' = None
       \/ session = "ending" /\ unsent' = unsent

Sends(r) ==
    /\ session = "running" /\ session' = session /\ inbox' = inbox
    /\ Hold(r, FALSE) /\ Spawn(r, "message", issued', 0)
    /\ owed' = owed
    /\ UNCHANGED <<unsent, selected>> \/ unsent' = Offer(held', selected')

MessageSteps ==
    \/ Quiet
    \/ \E r \in Rooms : Sends(r)
    \/ \E n : DismissUnsent(n)
    \/ Handle /\ session = "running" /\ HandleSettled(Head(inbox))
    \/ Handle /\ session = "running" /\ HandleUnsaved(Head(inbox))
    \/ EndSession

\* Every step does one of these to the messages.
LEMMA MessagesMove ==
    ASSUME [Next]_vars, session # "running" => held = <<>>
    PROVE  MessageSteps
<1>1. ASSUME NEW r, NEW live, OpenRoom(r, live)
      PROVE  unsent' = Offer(held, selected')
      BY <1>1 DEF OpenRoom, OpenWindow
<1>2. ASSUME NEW r, ReturnToLive(r)
      PROVE  UNCHANGED <<unsent, selected>> \/ unsent' = Offer(held', selected')
      BY <1>2 DEF ReturnToLive, OpenWindow, timeline
<1>3. CASE Commands
  <2>1. ASSUME NEW r \in Rooms, NEW live \in BOOLEAN, SelectRoom(r, live) PROVE Quiet
        BY <1>1, <2>1 DEF SelectRoom, Quiet
  <2>2. ASSUME NEW r \in Rooms, SendMessage(r) PROVE Sends(r)
        BY <1>2, <2>2 DEF SendMessage, Command, Sends
  <2>3. ASSUME NEW r \in Rooms, EditMessage(r) PROVE Sends(r)
        BY <2>3 DEF EditMessage, Command, Sends, timeline
  <2>4. ASSUME NEW r \in Rooms, SendSticker(r) PROVE Quiet
        BY <1>2, <2>4 DEF SendSticker, Quiet
  <2>5. ASSUME NEW r \in Rooms, SendAttachment(r) PROVE Quiet
        BY <1>2, <2>5 DEF SendAttachment, Quiet
  <2>6. ASSUME NEW r \in Rooms, PickAttachment(r) PROVE Quiet
        BY <2>6 DEF PickAttachment, submissions, timeline, Quiet
  <2>7. CASE JumpToLatest
        BY <1>1, <2>7 DEF JumpToLatest, Quiet, MessageSteps
  <2>8. CASE DropRoom
        BY <2>8 DEF DropRoom, ClearWindow, Quiet, MessageSteps
  <2>9. CASE CancelAttachment
        BY <2>9 DEF CancelAttachment, submissions, timeline, Quiet, MessageSteps
  <2> QED BY <1>3, <2>1, <2>2, <2>3, <2>4, <2>5, <2>6, <2>7, <2>8, <2>9
          DEF Commands, MessageSteps
<1>4. CASE TasksStep
      BY <1>4 DEF TasksStep, EnqueueMessage, EnqueueSticker, EnqueueAttachment,
                  ReadAttachment, AbortTasks, PickEnds, Ends, submissions, timeline, Quiet,
                  MessageSteps
<1>5. CASE Handle
  <2> DEFINE e == Head(inbox)
  <2> HIDE DEF e
  <2>1. CASE HandleSettled(e)
    <3>1. CASE session = "running"
          BY <1>5, <2>1, <3>1 DEF MessageSteps, e
    <3>2. CASE session # "running"
      <4>1. DOMAIN held = {}
            BY <3>2
      <4>2. UNCHANGED <<held, unsent>>
            BY <2>1, <4>1 DEF HandleSettled, Settle
      <4> QED BY <2>1, <3>2, <4>2 DEF HandleSettled, timeline, Quiet, MessageSteps
    <3> QED BY <3>1, <3>2
  <2>2. CASE HandleUnsaved(e)
    <3>1. CASE session = "running"
          BY <1>5, <2>2, <3>1 DEF MessageSteps, e
    <3>2. CASE session # "running"
          BY <2>2, <3>2 DEF HandleUnsaved, submissions, timeline, Quiet, MessageSteps
    <3> QED BY <3>1, <3>2
  <2>3. CASE HandlePicked(e) \/ HandleHandedOff(e) \/ HandleSignedIn(e)
        BY <2>3 DEF HandlePicked, HandleHandedOff, HandleSignedIn, submissions, timeline, Quiet,
                    MessageSteps
  <2>4. CASE HandleUpdate(e)
        BY <2>4 DEF HandleUpdate, SettleUpdate, submissions, Quiet, MessageSteps
  <2>5. CASE HandleRefocus(e)
        BY <1>1, <2>5 DEF HandleRefocus, timeline, Quiet, MessageSteps
  <2> QED BY <1>5, <2>1, <2>2, <2>3, <2>4, <2>5 DEF Handle, e
<1>6. CASE EndSession
      BY <1>6 DEF MessageSteps
<1>7. CASE SessionEnded
      BY <1>7 DEF SessionEnded, submissions, Quiet, MessageSteps
<1>8. CASE SignIn \/ EditRefused \/ UNCHANGED vars
      BY <1>8 DEF SignIn, EditRefused, others, vars, submissions, timeline, Quiet, MessageSteps
<1>9. CASE UpdateArrives \/ SubscriptionStops
      BY <1>9 DEF UpdateArrives, SubscriptionStops, SubscriptionSays, SubscriptionEnds, others,
                  submissions, Quiet, MessageSteps
<1>10. CASE UserMoves
       BY <1>10 DEF UserMoves, ScrollPosition, JumpInWindow, VisibilityChanged, others,
                    submissions, Quiet, MessageSteps
<1> QED BY <1>3, <1>4, <1>5, <1>6, <1>7, <1>8, <1>9, <1>10 DEF Next

\* The messages held are ordered, now and next.
LEMMA HeldIsOrdered ==
    ASSUME TypeInv, [Next]_vars
    PROVE  Ordered(held) /\ Ordered(held')
<1>1. HeldInv /\ HeldInv'
      BY HeldKeepsTypes DEF TypeInv
<1> QED BY <1>1 DEF HeldInv, Ordered

\* What is owed and offered, when what is held does not change.
LEMMA QuietKeepsOwed ==
    ASSUME TypeInv, LaneInv, WindowInv, OwedInv, [Next]_vars, Quiet
    PROVE  OwedInv'
<1>0. Ordered(held) /\ held' = held /\ owed' = owed /\ issued' = issued
      BY HeldIsOrdered DEF Quiet
<1> DEFINE S == Elements(held)
<1>1. session' # "running" => held' = <<>>
      BY DEF Quiet, OwedInv
<1>2. owed' = OwedOf(Elements(held'))
      BY <1>0 DEF OwedInv
<1>3. unsent' = Offer(held', selected')
  <2>1. CASE UNCHANGED <<unsent, selected>>
        BY <1>0, <2>1 DEF OwedInv
  <2>2. CASE unsent' = Offer(held, selected')
        BY <1>0, <2>2
  <2>3. CASE unsent' = 0 /\ selected' = None
    <3>1. Refused(held, None) = {}
      <4>1. held \in Seq(Messages)
            BY <1>0 DEF Ordered
      <4>2. \A i \in DOMAIN held : held[i] \in Messages
            BY <4>1, LenProperties, ElementOfSeq
      <4>3. \A m \in Messages : m.room \in Rooms
            BY DEF Messages
      <4> QED BY <4>2, <4>3, Bounds DEF Refused
    <3>2. Offer(held, None) = 0
          BY <1>0, <3>1, OfferIsFirst DEF Ordered
    <3> QED BY <1>0, <2>3, <3>2
  <2>4. CASE session = "ending" /\ unsent' = unsent
    <3>1. held = <<>>
          BY <2>4 DEF OwedInv
    <3>2. \A room : Refused(<<>>, room) = {}
          BY DEF Refused
    <3>3. \A room : Offer(<<>>, room) = 0
      <4> TAKE room
      <4>1. <<>> \in Seq(Messages)
            OBVIOUS
      <4> QED BY <3>2, <4>1, OfferIsFirst
    <3> QED BY <1>0, <2>4, <3>1, <3>3 DEF OwedInv
  <2> QED BY <2>1, <2>2, <2>3, <2>4 DEF Quiet
<1>4. ASSUME session' = "running"
      PROVE  /\ \A e \in Elements(inbox') : e \in Settled => Waits(S, e.n, e.room)
             /\ \A t \in tasks' : t.kind = "message" => Waits(S, t.n, t.room)
  <2>0. issued \in Nat /\ InboxTypes
        BY DEF TypeInv, NumbersInv
  <2>1. CASE session = "running"
    <3>1. \A t \in tasks' : t.kind = "message" => t \in tasks
          BY <1>0, <2>0, MessageTasksNext
    <3>2. ASSUME NEW e \in Elements(inbox'), e \in Settled
          PROVE  Waits(S, e.n, e.room)
      <4>1. CASE e \in Elements(inbox)
            BY <2>1, <3>2, <4>1 DEF OwedInv
      <4>2. CASE NewsOf(e)
        <5>1. e \in SettledOf(e.n)
              BY <3>2 DEF SettledOf
        <5>2. PICK t \in tasks : t.kind = "message" /\ t.n = e.n /\ e.room = t.room
              BY <4>2, <5>1, NewOutcome
        <5>3. Waits(S, t.n, t.room)
              BY <2>1, <5>2 DEF OwedInv
        <5> QED BY <5>2, <5>3
      <4>3. e \notin UpdateMessages
            BY <3>2, KindsDiffer
      <4> QED BY <4>1, <4>2, <4>3, InboxNext
    <3> QED BY <2>1, <3>1, <3>2 DEF OwedInv
  <2>2. CASE session # "running"
    <3>1. session = "out"
      <4>1. session' = "running" /\ session = "ending" => FALSE
            BY DEF Next, Commands, TasksStep, Handle, SelectRoom, SendMessage, Command,
             EditMessage, SendSticker, PickAttachment, SendAttachment, JumpToLatest, DropRoom,
             CancelAttachment, DismissUnsent, EnqueueMessage, EnqueueSticker, ReadAttachment,
             EnqueueAttachment, Ends, AbortTasks, PickEnds,
             EndSession, SessionEnded, SignIn, UpdateArrives, EditRefused, SubscriptionStops,
             UserMoves, others, vars
      <4> QED BY <1>4, <2>2, <4>1 DEF TypeInv, NumbersInv
    <3>2. Handle /\ HandleSignedIn(Head(inbox)) /\ inbox' = Tail(inbox)
          BY <1>4, <3>1, BeginsWithSignIn
    <3>3. tasks' = {}
      <4>1. tasks = {}
            BY <3>1 DEF LaneInv, TailInv
      <4> QED BY <3>2, <4>1 DEF HandleSignedIn, lanes
    <3>4. \A x \in Elements(Tail(inbox)) : x \notin Settled
      <4>1. /\ Head(inbox) \in SignedIn /\ inbox # <<>> /\ inbox \in Seq(Said)
            BY <2>0, <3>2, Handled, SaidByKind DEF HandleSignedIn, Handle, InboxTypes
      <4> DEFINE L == UpdateMessages \cup Settled \cup SignedIn
      <4>2. NoneBehind(inbox, SignedIn, L)
            BY DEF WindowInv
      <4> HIDE DEF L
      <4>3. \A x \in Elements(Tail(inbox)) : x \notin L
            BY <4>1, <4>2, QueueTail
      <4> QED BY <4>3 DEF L
    <3> QED BY <3>2, <3>3, <3>4
  <2> QED BY <2>1, <2>2
<1>5. (session = "running" => \A e \in Elements(inbox) :
          e \in Settled => Waits(Elements(held), e.n, e.room))'
  <2> HIDE DEF Settled
  <2> QED BY <1>0, <1>4 DEF Settled
<1>6. (session = "running" => \A t \in tasks :
          t.kind = "message" => Waits(Elements(held), t.n, t.room))'
      BY <1>0, <1>4
<1> QED BY <1>1, <1>2, <1>3, <1>5, <1>6 DEF OwedInv

\* What is owed and offered, when a message is held to be sent.
LEMMA SendKeepsOwed ==
    ASSUME TypeInv, OwedInv, [Next]_vars, NEW r \in Rooms, Sends(r)
    PROVE  OwedInv'
<1> DEFINE m == [n |-> issued + 1, room |-> r, refused |-> FALSE]
           S == Elements(held)
           R == Elements(held')
<1>0. Ordered(held) /\ Ordered(held') /\ issued' = issued + 1 /\ held' = Append(held, m)
      BY HeldIsOrdered DEF Sends, Hold
<1>1. m \in Messages /\ ~m.refused /\ m.n = issued' /\ m.room = r
  <2>1. issued + 1 \in 1..MaxInputs
    <3>1. issued \in Nat /\ issued' <= MaxInputs
          BY NumbersKeep DEF TypeInv, NumbersInv
    <3> QED BY <1>0, <3>1, Bounds
  <2> QED BY <1>0, <2>1 DEF Messages
<1> HIDE DEF m
<1>2. /\ \A n, q : Waits(S, n, q) => Waits(R, n, q)
      /\ Waits(R, issued', r) /\ OwedOf(R) = OwedOf(S)
      BY <1>0, <1>1, HeldBehind
<1>3. owed' = OwedOf(R)
      BY <1>2 DEF Sends, OwedInv
<1>4. unsent' = Offer(held', selected')
  <2>1. CASE UNCHANGED <<unsent, selected>>
    <3>1. Offer(held, selected) = FirstOf(OwedOf(S), selected)
          BY <1>0, OfferOfOwed
    <3>2. Offer(held', selected) = FirstOf(OwedOf(R), selected)
          BY <1>0, OfferOfOwed
    <3> QED BY <1>2, <2>1, <3>1, <3>2 DEF OwedInv
  <2>2. CASE unsent' = Offer(held', selected')
        BY <2>2
  <2> QED BY <2>1, <2>2 DEF Sends
<1>5. session = "running" /\ session' = "running" /\ inbox' = inbox
      BY DEF Sends
<1>6. \A e \in Elements(inbox') : e \in Settled => Waits(R, e.n, e.room)
  <2>1. \A e \in Elements(inbox) : e \in Settled => Waits(S, e.n, e.room)
        BY <1>5 DEF OwedInv
  <2> QED BY <1>2, <1>5, <2>1
<1>7. \A t \in tasks' : t.kind = "message" => Waits(R, t.n, t.room)
  <2> DEFINE new == Task(r, "message", issued', 0)
  <2>1. tasks' = tasks \cup {new} /\ new.n = issued' /\ new.room = r
        BY DEF Sends, Spawn, Task
  <2> HIDE DEF new
  <2>2. \A t \in tasks : t.kind = "message" => Waits(S, t.n, t.room)
        BY <1>5 DEF OwedInv
  <2> QED BY <1>2, <2>1, <2>2
<1> QED BY <1>3, <1>4, <1>5, <1>6, <1>7 DEF OwedInv, Settled

\* What is owed and offered, when a refused message is dismissed.
LEMMA DismissKeepsOwed ==
    ASSUME TypeInv, OwedInv, [Next]_vars, NEW n, DismissUnsent(n)
    PROVE  OwedInv'
<1> DEFINE S == Elements(held)
           R == Elements(held')
<1>0. /\ Ordered(held) /\ Ordered(held')
      /\ held' = Retain(held, {s \in Messages : s.n # n \/ ~s.refused})
      /\ owed' = {o \in owed : o.n # n} /\ unsent' = Offer(held', selected')
      /\ UNCHANGED <<session, inbox, tasks>> /\ session = "running"
      BY HeldIsOrdered DEF DismissUnsent, Command, timeline, lanes
<1>1. OwedOf(R) = {o \in OwedOf(S) : o.n # n} /\ \A m, q : Waits(S, m, q) => Waits(R, m, q)
      BY <1>0, DismissedGoes
<1>2. /\ \A e \in Elements(inbox) : e \in Settled => Waits(S, e.n, e.room)
      /\ \A t \in tasks : t.kind = "message" => Waits(S, t.n, t.room)
      /\ owed = OwedOf(S)
      BY <1>0 DEF OwedInv
<1> QED BY <1>0, <1>1, <1>2 DEF OwedInv, Settled

\* What is owed and offered, when the outcome of a message is handled.
LEMMA OutcomeKeepsOwed ==
    ASSUME TypeInv, OnceInv, OwedInv, [Next]_vars, Handle, session = "running",
           HandleSettled(Head(inbox))
    PROVE  OwedInv'
<1> DEFINE e == Head(inbox)
           S == Elements(held)
           R == Elements(held')
<1>0. /\ Ordered(held) /\ Ordered(held') /\ InboxTypes /\ inbox \in Seq(Said)
      BY HeldIsOrdered DEF TypeInv, InboxTypes
<1>1. /\ e \in Said /\ e \in Elements(inbox) /\ Tail(inbox) \in Seq(Said)
      /\ Elements(inbox) = Elements(Tail(inbox)) \cup {e}
      /\ \A set : /\ Count(inbox, set) =
                       Count(Tail(inbox), set) + (IF e \in set THEN 1 ELSE 0)
                  /\ Count(Tail(inbox), set) \in Nat
      BY <1>0, Handled
<1>2. e \in Settled /\ e.n \in Nat /\ e.ok \in BOOLEAN
  <2>1. e \in Settled
        BY <1>1, SaidByKind DEF HandleSettled
  <2> QED BY <2>1, Bounds DEF Settled
<1>3. /\ inbox' = Tail(inbox) /\ UNCHANGED <<session, tasks, selected>> /\ Settle(e)
      /\ owed' = IF ~e.ok THEN owed \cup {[n |-> e.n, room |-> e.room]} ELSE owed
      BY DEF HandleSettled, timeline, lanes
<1> HIDE DEF e
<1>4. Waits(S, e.n, e.room)
      BY <1>1, <1>2 DEF OwedInv
<1>5. \E i \in DOMAIN held : held[i].n = e.n /\ ~held[i].refused
      BY <1>4 DEF Waits, Elements
<1>6. /\ held' = IF e.ok THEN Retain(held, {s \in Messages : s.n # e.n})
                 ELSE [i \in DOMAIN held |-> Marked(held[i], e.n)]
      /\ unsent' = IF e.ok THEN unsent ELSE Offer(held', selected)
      BY <1>3, <1>5 DEF Settle, Marked
<1>7. OwedOf(S) = owed
      BY DEF OwedInv
<1>8. \A m, q : Waits(S, m, q) /\ m # e.n => Waits(R, m, q)
  <2>1. CASE e.ok
        BY <1>0, <1>4, <1>6, <2>1, AcceptedGoes
  <2>2. CASE ~e.ok
        BY <1>0, <1>4, <1>6, <2>2, RefusedStays
  <2> QED BY <2>1, <2>2
<1>9. owed' = OwedOf(R) /\ unsent' = Offer(held', selected')
  <2>1. CASE e.ok
    <3>1. OwedOf(R) = OwedOf(S)
          BY <1>0, <1>4, <1>6, <2>1, AcceptedGoes
    <3>2. Offer(held, selected) = FirstOf(OwedOf(S), selected)
          BY <1>0, OfferOfOwed
    <3>3. Offer(held', selected) = FirstOf(OwedOf(R), selected)
          BY <1>0, OfferOfOwed
    <3> QED BY <1>3, <1>6, <1>7, <2>1, <3>1, <3>2, <3>3 DEF OwedInv
  <2>2. CASE ~e.ok
    <3>1. OwedOf(R) = OwedOf(S) \cup {[n |-> e.n, room |-> e.room]}
          BY <1>0, <1>4, <1>6, <2>2, RefusedStays
    <3> QED BY <1>3, <1>6, <1>7, <2>2, <3>1
  <2> QED BY <2>1, <2>2
<1>10. e \in SettledOf(e.n)
       BY <1>2 DEF SettledOf
<1>11. \A x \in Elements(Tail(inbox)) : x \in Settled => x.n # e.n
  <2>1. Count(inbox, SettledOf(e.n)) <= 1
        BY <1>2 DEF OnceInv
  <2>2. Count(inbox, SettledOf(e.n)) = Count(Tail(inbox), SettledOf(e.n)) + 1
        BY <1>1, <1>10
  <2>3. Count(Tail(inbox), SettledOf(e.n)) \in Nat
        BY <1>1
  <2>4. Count(Tail(inbox), SettledOf(e.n)) = 0
        BY <2>1, <2>2, <2>3
  <2>5. \A x \in Elements(Tail(inbox)) : x \notin SettledOf(e.n)
        BY <1>1, <2>4, CountNone
  <2> QED BY <2>5 DEF SettledOf
<1>12. \A t \in tasks : t.kind = "message" => t.n # e.n
  <2>1. Count(inbox, SettledOf(e.n)) # 0
        BY <1>0, <1>1, <1>10, CountNone
  <2> QED BY <2>1 DEF OnceInv
<1>13. \A x \in Elements(inbox') : x \in Settled => Waits(R, x.n, x.room)
       BY <1>1, <1>3, <1>8, <1>11 DEF OwedInv
<1>14. \A t \in tasks' : t.kind = "message" => Waits(R, t.n, t.room)
       BY <1>3, <1>8, <1>12 DEF OwedInv
<1> QED BY <1>3, <1>9, <1>13, <1>14 DEF OwedInv, Settled

\* What is owed and offered, when a refused edit is handled.
LEMMA EditKeepsOwed ==
    ASSUME TypeInv, OwedInv, [Next]_vars, Handle, session = "running",
           HandleUnsaved(Head(inbox))
    PROVE  OwedInv'
<1> DEFINE e == Head(inbox)
           m == [n |-> issued + 1, room |-> e.room, refused |-> TRUE]
           S == Elements(held)
           R == Elements(held')
<1>0. /\ Ordered(held) /\ Ordered(held') /\ InboxTypes
      BY HeldIsOrdered DEF TypeInv
<1>1. /\ e \in Said /\ Elements(inbox) = Elements(Tail(inbox)) \cup {e}
      BY <1>0, Handled
<1>2. e.room \in Rooms
  <2>1. e \in Unsaved
        BY <1>1, SaidByKind DEF HandleUnsaved
  <2> QED BY <2>1 DEF Unsaved
<1>3. /\ issued' = issued + 1 /\ held' = Append(held, m)
      /\ owed' = owed \cup {[n |-> issued', room |-> e.room]}
      /\ unsent' = Offer(held', selected) /\ inbox' = Tail(inbox)
      /\ UNCHANGED <<session, tasks, selected>>
      BY DEF HandleUnsaved, Hold, timeline, lanes
<1> HIDE DEF e
<1>4. m \in Messages /\ m.refused /\ m.n = issued' /\ m.room = e.room
  <2>1. issued + 1 \in 1..MaxInputs
    <3>1. issued \in Nat /\ issued' <= MaxInputs
          BY NumbersKeep DEF TypeInv, NumbersInv
    <3> QED BY <1>3, <3>1, Bounds
  <2> QED BY <1>2, <1>3, <2>1 DEF Messages
<1> HIDE DEF m
<1>5. /\ \A n, q : Waits(S, n, q) => Waits(R, n, q)
      /\ OwedOf(R) = OwedOf(S) \cup {[n |-> issued', room |-> e.room]}
      BY <1>0, <1>3, <1>4, HeldBehind
<1>6. /\ owed = OwedOf(S)
      /\ \A x \in Elements(inbox) : x \in Settled => Waits(S, x.n, x.room)
      /\ \A t \in tasks : t.kind = "message" => Waits(S, t.n, t.room)
      BY DEF OwedInv
<1>7. owed' = OwedOf(R)
      BY <1>3, <1>5, <1>6
<1>8. \A x \in Elements(inbox') : x \in Settled => Waits(R, x.n, x.room)
      BY <1>1, <1>3, <1>5, <1>6
<1> QED BY <1>3, <1>5, <1>6, <1>7, <1>8 DEF OwedInv, Settled

\* What is owed and offered, when the session ends.
LEMMA EndKeepsOwed ==
    ASSUME EndSession
    PROVE  OwedInv'
<1>1. /\ session' = "ending" /\ held' = <<>> /\ unsent' = 0 /\ owed' = {}
      BY DEF EndSession
<1>2. Elements(<<>>) = {}
      BY EmptyQueue
<1>3. OwedOf({}) = {}
      BY DEF OwedOf
<1>4. \A room : Offer(<<>>, room) = 0
  <2> TAKE room
  <2>1. Refused(<<>>, room) = {} /\ <<>> \in Seq(Messages)
        BY DEF Refused
  <2> QED BY <2>1, OfferIsFirst
<1> QED BY <1>1, <1>2, <1>3, <1>4 DEF OwedInv

\* So every step.
LEMMA StepKeepsOwed ==
    ASSUME TypeInv, LaneInv, WindowInv, OnceInv, OwedInv, [Next]_vars
    PROVE  OwedInv'
<1>1. MessageSteps
      BY MessagesMove DEF OwedInv
<1> QED BY <1>1, QuietKeepsOwed, SendKeepsOwed, DismissKeepsOwed, OutcomeKeepsOwed, EditKeepsOwed,
           EndKeepsOwed DEF MessageSteps

\* Nothing is owed at first, and no outcome on its way.
LEMMA InitMessages == Init => OnceInv /\ OwedInv
<1> SUFFICES ASSUME Init PROVE OnceInv /\ OwedInv
    OBVIOUS
<1>1. /\ inbox = <<>> /\ held = <<>> /\ owed = {} /\ unsent = 0 /\ tasks = {}
      /\ session = "running"
      BY DEF Init
<1>2. Elements(<<>>) = {} /\ \A set : Count(<<>>, set) = 0
      BY EmptyQueue
<1>3. OwedOf({}) = {}
      BY DEF OwedOf
<1>4. \A room : Offer(<<>>, room) = 0
  <2> TAKE room
  <2>1. Refused(<<>>, room) = {} /\ <<>> \in Seq(Messages)
        BY DEF Refused
  <2> QED BY <2>1, OfferIsFirst
<1>5. OnceInv
      BY <1>1, <1>2 DEF OnceInv
<1> QED BY <1>1, <1>2, <1>3, <1>4, <1>5 DEF OwedInv

\* Nothing the user is owed is lost or offered in another room, for any rooms,
\* messages and sessions: whichever room was selected when a message was refused,
\* it is the first of its room that is offered while that is selected
\* (submissions.rs, service/messages.rs).
THEOREM RefusedAreOffered == Spec => []RefusedIsOffered
<1>1. TypeInv /\ OwedInv => RefusedIsOffered
  <2> SUFFICES ASSUME TypeInv, OwedInv PROVE RefusedIsOffered
      OBVIOUS
  <2>1. Ordered(held)
        BY DEF TypeInv, HeldInv, Ordered
  <2>2. unsent = FirstOf(owed, selected)
        BY <2>1, OfferOfOwed DEF OwedInv
  <2> QED BY <2>2 DEF RefusedIsOffered, FirstOf
<1> QED BY <1>1, InitTypeInv, InitLaneInv, InitWindowInv, InitMessages, StepKeepsTypes,
           StepKeepsLanes, StepKeepsWindow, StepKeepsOnce, StepKeepsOwed, PTL DEF Spec

-----------------------------------------------------------------------------
(* What is sent is not forgotten *)

\* What leaves the inbox is handled.
LEMMA LeavesHandled ==
    ASSUME TypeInv, [Next]_vars, NEW e \in Elements(inbox), e \notin Elements(inbox')
    PROVE  Handle /\ e = Head(inbox)
<1>0. InboxTypes /\ inbox \in Seq(Said) /\ inbox' \in Seq(Said)
      BY InboxNext DEF TypeInv, InboxTypes
<1>1. ASSUME Handle PROVE e \in Elements(Tail(inbox)) \/ e = Head(inbox)
      BY <1>0, <1>1, Handled
<1>2. CASE inbox' = inbox
      BY <1>2
<1>3. CASE Handle /\ inbox' = Tail(inbox)
      BY <1>1, <1>3
<1>4. CASE /\ Handle /\ HandleUpdate(Head(inbox)) /\ IsCurrent(Head(inbox))
           /\ inbox' = Append(Tail(inbox), [Head(inbox) EXCEPT !.kind = "toLive"])
  <2> DEFINE h == Head(inbox)
             q == Tail(inbox)
             x == [h EXCEPT !.kind = "toLive"]
  <2>1. h \in Said /\ q \in Seq(Said)
        BY <1>0, <1>4, Handled
  <2>2. x \in Said
    <3>1. h.kind \in Updates
          BY <1>4 DEF HandleUpdate
    <3>2. h \in UpdateMessages
          BY <2>1, <3>1, SaidByKind
    <3> QED BY <3>2, RefocusIsSaid DEF Said
  <2>3. inbox' = Append(q, x)
        BY <1>4
  <2> HIDE DEF q, x
  <2>4. Elements(inbox') = Elements(q) \cup {x}
        BY <2>1, <2>2, <2>3, QueueAppend
  <2> QED BY <1>1, <1>4, <2>4 DEF q
<1>5. ASSUME NEW x, NewsOf(x), inbox' = Append(inbox, x)
      PROVE  FALSE
  <2>1. x \in Said
        BY <1>5, NewsAreSaid
  <2>2. Elements(inbox') = Elements(inbox) \cup {x}
        BY <1>0, <1>5, <2>1, QueueAppend
  <2> QED BY <2>2
<1> QED BY <1>2, <1>3, <1>4, <1>5, InboxChanges

\* How a task may end, or be changed.
Endings ==
    \/ tasks \subseteq tasks'
    \/ AbortTasks
    \/ CancelAttachment
    \/ \E t \in tasks :
          EnqueueMessage(t) \/ EnqueueSticker(t) \/ ReadAttachment(t) \/ EnqueueAttachment(t)

\* Every step does one of these to the tasks.
LEMMA TasksEnd ==
    ASSUME [Next]_vars
    PROVE  Endings
<1>0. ASSUME NEW r, NEW kind, NEW n, NEW pick, Spawn(r, kind, n, pick)
      PROVE  tasks \subseteq tasks'
      BY <1>0 DEF Spawn
<1>1. CASE Commands
  <2>1. ASSUME NEW r \in Rooms,
               SendMessage(r) \/ EditMessage(r) \/ SendSticker(r) \/ SendAttachment(r)
        PROVE  Endings
        BY <1>0, <2>1 DEF SendMessage, EditMessage, SendSticker, SendAttachment, Endings
  <2>2. CASE \/ \E r \in Rooms, live \in BOOLEAN : SelectRoom(r, live)
             \/ \E r \in Rooms : PickAttachment(r)
             \/ JumpToLatest \/ DropRoom \/ \E n \in 1..issued : DismissUnsent(n)
        BY <2>2 DEF SelectRoom, PickAttachment, JumpToLatest, DropRoom, DismissUnsent, lanes,
                    Endings
  <2>3. CASE CancelAttachment
        BY <2>3 DEF Endings
  <2> QED BY <1>1, <2>1, <2>2, <2>3 DEF Commands
<1>2. CASE TasksStep
      BY <1>2 DEF TasksStep, PickEnds, lanes, Endings
<1>3. CASE Handle
      BY <1>3 DEF Handle, HandleSettled, HandleUnsaved, HandlePicked, HandleHandedOff,
                  HandleUpdate, HandleRefocus, HandleSignedIn, lanes, Endings
<1>4. CASE EndSession \/ SessionEnded \/ SignIn \/ UNCHANGED vars
      BY <1>4 DEF EndSession, SessionEnded, SignIn, vars, lanes, Endings
<1>5. CASE UpdateArrives \/ EditRefused \/ SubscriptionStops \/ UserMoves
      BY <1>5 DEF UpdateArrives, EditRefused, SubscriptionStops, UserMoves, others, lanes,
                  Endings
<1> QED BY <1>1, <1>2, <1>3, <1>4, <1>5 DEF Next

\* What a task says is on its way when it has ended.
LEMMA SaidIsOnItsWay ==
    ASSUME TypeInv, [Next]_vars, NEW t, NEW ok, NEW x, Ends(t, ok, <<x>>)
    PROVE  x \in Elements(inbox')
<1>1. InboxTypes /\ inbox' = Append(inbox, x) /\ inbox \in Seq(Said) /\ inbox' \in Seq(Said)
  <2>1. InboxTypes
        BY DEF TypeInv
  <2>2. inbox' = Append(inbox, x)
        BY <2>1, EndsSay
  <2> QED BY <2>1, <2>2, InboxNext DEF InboxTypes
<1>2. Len(inbox) \in Nat /\ DOMAIN inbox = 1..Len(inbox)
      BY <1>1, LenProperties
<1> DEFINE T == Said \cup {x}
<1>3. inbox \in Seq(T) /\ x \in T
  <2>1. \A i \in 1..Len(inbox) : inbox[i] \in T
        BY <1>1, <1>2, ElementOfSeq
  <2> HIDE DEF T
  <2> QED BY <1>1, <1>2, <2>1, SeqDef DEF T
<1> HIDE DEF T
<1>4. Elements(inbox') = Elements(inbox) \cup {x}
      BY <1>1, <1>3, QueueAppend
<1> QED BY <1>4

\* A task that has a message goes on, or leaves its outcome on its way, unless all
\* are aborted.
LEMMA MessageTasksSettle ==
    ASSUME TypeInv, [Next]_vars, NEW t \in tasks, t.kind = "message"
    PROVE  \/ AbortTasks
           \/ t \in tasks'
           \/ \E e \in Elements(inbox') : e.kind = "settled" /\ e.n = t.n
<1>0. tasks \subseteq Tasks
      BY DEF TypeInv, TasksTypes
<1>1. CASE CancelAttachment
  <2> DEFINE F(u) == IF u.kind = "attachment" /\ u.n = draft.send
                     THEN [u EXCEPT !.abandoned = TRUE] ELSE u
  <2>1. tasks' = {F(u) : u \in tasks}
        BY <1>1 DEF CancelAttachment
  <2>2. F(t) = t
        OBVIOUS
  <2> HIDE DEF F
  <2> QED BY <2>1, <2>2
<1>2. ASSUME NEW u \in tasks, EnqueueMessage(u)
      PROVE  t \in tasks' \/ \E e \in Elements(inbox') : e.kind = "settled" /\ e.n = t.n
  <2>1. PICK ok \in BOOLEAN :
           Ends(u, ok, <<[kind |-> "settled", n |-> u.n, room |-> u.room, ok |-> ok]>>)
        BY <1>2 DEF EnqueueMessage
  <2>2. [kind |-> "settled", n |-> u.n, room |-> u.room, ok |-> ok] \in Elements(inbox')
        BY <2>1, SaidIsOnItsWay
  <2>3. tasks' = tasks \ {u}
        BY <2>1 DEF Ends
  <2> QED BY <2>2, <2>3
<1>3. ASSUME NEW u \in tasks, EnqueueSticker(u) \/ ReadAttachment(u) \/ EnqueueAttachment(u)
      PROVE  t \in tasks'
      BY <1>3 DEF EnqueueSticker, ReadAttachment, EnqueueAttachment, Ends
<1> QED BY <1>1, <1>2, <1>3, TasksEnd DEF Endings

\* A message that is held as being sent is with a task, or its outcome is on its way.
SentInv ==
    \A x \in Elements(held) : ~x.refused =>
        \/ \E t \in tasks : t.kind = "message" /\ t.n = x.n
        \/ \E e \in Elements(inbox) : e.kind = "settled" /\ e.n = x.n

\* What is held as being sent was before, or is given to a task; it is not what an
\* outcome that is handled is of.
LEMMA SentNext ==
    ASSUME TypeInv, OwedInv, [Next]_vars, NEW x \in Elements(held'), ~x.refused
    PROVE  \/ /\ x \in Elements(held) /\ session = "running"
              /\ Handle /\ HandleSettled(Head(inbox)) => Head(inbox).n # x.n
           \/ \E t \in tasks' : t.kind = "message" /\ t.n = x.n
<1>0. Ordered(held) /\ Ordered(held') /\ Elements(<<>>) = {}
      BY HeldIsOrdered, EmptyQueue
<1>1. session = "running"
  <2>1. CASE session # "running"
    <3>1. held = <<>>
          BY <2>1 DEF OwedInv
    <3>2. MessageSteps
          BY <3>1, MessagesMove
    <3>3. held' = <<>>
          BY <2>1, <3>1, <3>2 DEF MessageSteps, Quiet, Sends, DismissUnsent, Command, EndSession
    <3> QED BY <1>0, <3>3
  <2> QED BY <2>1
<1>2. MessageSteps
      BY <1>1, MessagesMove
<1>3. CASE Handle /\ HandleSettled(Head(inbox))
  <2> DEFINE e == Head(inbox)
  <2>1. Settle(e)
        BY <1>3 DEF HandleSettled
  <2> HIDE DEF e
  <2> DEFINE awaited == \E i \in DOMAIN held : held[i].n = e.n /\ ~held[i].refused
  <2>2. CASE ~awaited
    <3>1. held' = held
          BY <2>1, <2>2 DEF Settle
    <3>2. x.n # e.n
      <4>1. PICK i \in DOMAIN held : x = held[i]
            BY <3>1 DEF Elements
      <4> QED BY <2>2, <4>1
    <3> QED BY <1>1, <3>1, <3>2 DEF e
  <2>3. CASE awaited /\ e.ok
    <3>1. held' = Retain(held, {s \in Messages : s.n # e.n})
          BY <2>1, <2>3 DEF Settle
    <3>2. Elements(held') = Elements(held) \cap {s \in Messages : s.n # e.n}
          BY <1>0, <3>1, RetainElements DEF Ordered
    <3> QED BY <1>1, <3>2 DEF e
  <2>4. CASE awaited /\ ~e.ok
    <3>1. held' = [i \in DOMAIN held |-> Marked(held[i], e.n)]
          BY <2>1, <2>4 DEF Settle, Marked
    <3>2. Elements(held') = {Marked(y, e.n) : y \in Elements(held)}
          BY <3>1, MarkElements
    <3>3. PICK y \in Elements(held) : x = Marked(y, e.n)
          BY <3>2
    <3>4. y \in Messages
          BY <1>0, OrderedAreUnique
    <3>5. y.n # e.n /\ x = y
          BY <3>3, <3>4 DEF Marked, Messages
    <3> QED BY <1>1, <3>5 DEF e
  <2> QED BY <2>2, <2>3, <2>4
<1>4. CASE Quiet /\ ~(Handle /\ HandleSettled(Head(inbox)))
      BY <1>1, <1>4 DEF Quiet
<1>5. ASSUME NEW r \in Rooms, Sends(r), ~(Handle /\ HandleSettled(Head(inbox)))
      PROVE  x \in Elements(held) \/ \E t \in tasks' : t.kind = "message" /\ t.n = x.n
  <2> DEFINE m == [n |-> issued + 1, room |-> r, refused |-> FALSE]
             new == Task(r, "message", issued', 0)
  <2>1. issued' = issued + 1 /\ held' = Append(held, m) /\ tasks' = tasks \cup {new}
        BY <1>5 DEF Sends, Hold, Spawn
  <2>2. m.n = issued' /\ new.kind = "message" /\ new.n = issued'
        BY <2>1 DEF Task
  <2>3. m \in Messages
    <3>1. issued + 1 \in 1..MaxInputs
      <4>1. issued \in Nat /\ issued' <= MaxInputs
            BY NumbersKeep DEF TypeInv, NumbersInv
      <4> QED BY <2>1, <4>1, Bounds
    <3> QED BY <3>1 DEF Messages
  <2> HIDE DEF m, new
  <2>4. Elements(held') = Elements(held) \cup {m}
        BY <1>0, <2>1, <2>3, QueueAppend DEF Ordered
  <2> QED BY <2>1, <2>2, <2>4
<1>6. ASSUME NEW n, DismissUnsent(n), ~(Handle /\ HandleSettled(Head(inbox)))
      PROVE  x \in Elements(held)
  <2>1. held' = Retain(held, {s \in Messages : s.n # n \/ ~s.refused})
        BY <1>6 DEF DismissUnsent
  <2> QED BY <1>0, <2>1, RetainElements DEF Ordered
<1>7. CASE /\ Handle /\ session = "running" /\ HandleUnsaved(Head(inbox))
           /\ ~(Handle /\ HandleSettled(Head(inbox)))
  <2> DEFINE e == Head(inbox)
             m == [n |-> issued + 1, room |-> e.room, refused |-> TRUE]
  <2>1. issued' = issued + 1 /\ held' = Append(held, m) /\ e.kind = "unsaved"
        BY <1>7 DEF HandleUnsaved, Hold
  <2>2. e.room \in Rooms
    <3>1. e \in Said
          BY <1>7, Handled DEF TypeInv
    <3>2. e \in Unsaved
          BY <2>1, <3>1, SaidByKind
    <3> QED BY <3>2 DEF Unsaved
  <2> HIDE DEF e
  <2>3. m \in Messages /\ m.refused
    <3>1. issued + 1 \in 1..MaxInputs
      <4>1. issued \in Nat /\ issued' <= MaxInputs
            BY NumbersKeep DEF TypeInv, NumbersInv
      <4> QED BY <2>1, <4>1, Bounds
    <3> QED BY <2>2, <3>1 DEF Messages
  <2> HIDE DEF m
  <2>4. Elements(held') = Elements(held) \cup {m}
        BY <1>0, <2>1, <2>3, QueueAppend DEF Ordered
  <2> QED BY <1>1, <1>7, <2>3, <2>4
<1>8. CASE EndSession
      BY <1>0, <1>8 DEF EndSession
<1> QED BY <1>1, <1>2, <1>3, <1>4, <1>5, <1>6, <1>7, <1>8 DEF MessageSteps

\* So what is held as being sent stays with a task, or its outcome on its way.
LEMMA StepKeepsSent ==
    ASSUME TypeInv, OwedInv, SentInv, [Next]_vars
    PROVE  SentInv'
<1> SUFFICES ASSUME NEW x \in Elements(held'), ~x.refused
             PROVE  \/ \E t \in tasks' : t.kind = "message" /\ t.n = x.n
                    \/ \E e \in Elements(inbox') : e.kind = "settled" /\ e.n = x.n
    BY DEF SentInv
<1>1. CASE /\ x \in Elements(held) /\ session = "running"
           /\ Handle /\ HandleSettled(Head(inbox)) => Head(inbox).n # x.n
  <2>1. CASE \E t \in tasks : t.kind = "message" /\ t.n = x.n
    <3>1. PICK t \in tasks : t.kind = "message" /\ t.n = x.n
          BY <2>1
    <3>2. ~AbortTasks
          BY <1>1 DEF AbortTasks
    <3> QED BY <3>1, <3>2, MessageTasksSettle
  <2>2. CASE \E e \in Elements(inbox) : e.kind = "settled" /\ e.n = x.n
    <3>1. PICK e \in Elements(inbox) : e.kind = "settled" /\ e.n = x.n
          BY <2>2
    <3>2. CASE e \in Elements(inbox')
          BY <3>1, <3>2
    <3>3. CASE e \notin Elements(inbox')
      <4>1. Handle /\ e = Head(inbox)
            BY <3>3, LeavesHandled
      <4>2. HandleSettled(Head(inbox))
            BY <3>1, <4>1 DEF Handle, HandleUnsaved, HandlePicked, HandleHandedOff,
                              HandleUpdate, HandleRefocus, HandleSignedIn, Updates
      <4> QED BY <1>1, <3>1, <4>1, <4>2
    <3> QED BY <3>2, <3>3
  <2> QED BY <1>1, <2>1, <2>2 DEF SentInv
<1> QED BY <1>1, SentNext

\* How the session changes.
LEMMA SessionMoves ==
    ASSUME [Next]_vars
    PROVE  \/ session' = session
           \/ EndSession
           \/ SessionEnded
           \/ Handle /\ HandleSignedIn(Head(inbox)) /\ session' = "running"
  BY DEF Next, Commands, TasksStep, Handle, SelectRoom, SendMessage, Command,
         EditMessage, SendSticker, PickAttachment, SendAttachment, JumpToLatest, DropRoom,
         CancelAttachment, DismissUnsent, EnqueueMessage, EnqueueSticker, ReadAttachment,
         EnqueueAttachment, Ends, AbortTasks, PickEnds, HandleSettled, HandleUnsaved,
         HandlePicked, HandleHandedOff, HandleUpdate, HandleRefocus, HandleSignedIn,
         SignIn, UpdateArrives, EditRefused, SubscriptionStops, UserMoves, others, vars

\* Out of a session there is no draft, and no room is selected once it has ended.
OutInv ==
    /\ session # "running" => draft = None
    /\ session = "out" => selected = None

\* A draft that is being sent is with a task that was not told to give up, or its
\* outcome is on its way.
DraftSentInv ==
    draft # None /\ draft.send # 0 =>
        \/ \E t \in tasks : t.kind = "attachment" /\ t.n = draft.send /\ ~t.abandoned
        \/ \E e \in Elements(inbox) : e.kind = "handedOff" /\ e.n = draft.send

\* Out of a session no draft is made and no room selected.
LEMMA StepKeepsOut ==
    ASSUME TypeInv, WindowInv, OutInv, [Next]_vars
    PROVE  OutInv'
<1>0. WindowTypes /\ InboxTypes /\ session \in {"running", "ending", "out"}
      BY DEF TypeInv, NumbersInv
<1>1. ASSUME session # "running" PROVE draft' = None
  <2>1. draft = None
        BY <1>1 DEF OutInv
  <2>2. CASE Handle /\ HandlePicked(Head(inbox))
    <3> DEFINE e == Head(inbox)
    <3>1. e \in Picked
      <4>1. e \in Said
            BY <1>0, <2>2, Handled
      <4> QED BY <2>2, <4>1, SaidByKind DEF HandlePicked
    <3>2. e.room # None
          BY <3>1, Bounds DEF Picked
    <3>3. selected = None
          BY <1>0, <1>1, <2>2 DEF Handle, OutInv
    <3> QED BY <2>1, <2>2, <3>2, <3>3 DEF HandlePicked, Adopt
  <2>3. CASE Handle /\ HandleHandedOff(Head(inbox))
        BY <2>1, <2>3 DEF HandleHandedOff
  <2>4. CASE \/ \E r \in Rooms : PickAttachment(r) \/ SendAttachment(r)
             \/ CancelAttachment
        BY <1>1, <2>4 DEF PickAttachment, SendAttachment, CancelAttachment, Command
  <2>5. CASE \E p \in picking : PickEnds(p)
        BY <2>1, <2>5 DEF PickEnds
  <2> QED BY <2>1, <2>2, <2>3, <2>4, <2>5, DraftMoves DEF DraftSteps
<1>2. ASSUME session' # "running" PROVE draft' = None
  <2>1. CASE EndSession
        BY <2>1 DEF EndSession
  <2>2. CASE SessionEnded
        BY <1>1, <2>2 DEF SessionEnded
  <2> QED BY <1>1, <1>2, <2>1, <2>2, SessionMoves
<1>3. ASSUME session' = "out" PROVE selected' = None
  <2>1. CASE SessionEnded
        BY <2>1 DEF SessionEnded, ForgetWindows
  <2>2. CASE session = "out"
    <3>1. selected = None
          BY <2>2 DEF OutInv
    <3>2. ~(Head(inbox) \in UpdateMessages /\ IsCurrent(Head(inbox)))
          BY <2>2, WhenOut
    <3>3. selected' = selected
          BY <1>0, <2>2, <3>2, TimelineMoves
          DEF TimelineSteps, timeline, ForgetWindows, SubscriptionSays, SubscriptionEnds,
              HandleUpdate, SettleUpdate, UserMoves
    <3> QED BY <3>1, <3>3
  <2>3. ~EndSession
        BY <1>3 DEF EndSession
  <2> QED BY <1>3, <2>1, <2>2, <2>3, SessionMoves
<1> QED BY <1>2, <1>3 DEF OutInv

\* A task that sends an attachment goes on, or leaves its outcome on its way, unless
\* all are aborted or it is told to give up.
LEMMA AttachmentTasksSettle ==
    ASSUME TypeInv, [Next]_vars, NEW t \in tasks, t.kind = "attachment", ~t.abandoned
    PROVE  \/ AbortTasks
           \/ CancelAttachment
           \/ \E u \in tasks' : u.kind = "attachment" /\ u.n = t.n /\ ~u.abandoned
           \/ \E e \in Elements(inbox') : e.kind = "handedOff" /\ e.n = t.n
<1>0. tasks \subseteq Tasks
      BY DEF TypeInv, TasksTypes
<1>1. ASSUME NEW u \in tasks, EnqueueMessage(u) \/ EnqueueSticker(u)
      PROVE  t \in tasks'
      BY <1>1 DEF EnqueueMessage, EnqueueSticker, Ends
<1>2. ASSUME NEW u \in tasks, ReadAttachment(u)
      PROVE  \E v \in tasks' : v.kind = "attachment" /\ v.n = t.n /\ ~v.abandoned
  <2>1. tasks' = (tasks \ {u}) \cup {[u EXCEPT !.read = TRUE]}
        BY <1>2 DEF ReadAttachment
  <2>2. CASE u = t
    <3>1. /\ [t EXCEPT !.read = TRUE].kind = t.kind /\ [t EXCEPT !.read = TRUE].n = t.n
          /\ [t EXCEPT !.read = TRUE].abandoned = t.abandoned
          BY <1>0 DEF Tasks
    <3> QED BY <2>1, <2>2, <3>1
  <2>3. CASE u # t
        BY <2>1, <2>3
  <2> QED BY <2>2, <2>3
<1>3. ASSUME NEW u \in tasks, EnqueueAttachment(u)
      PROVE  \/ t \in tasks'
             \/ \E e \in Elements(inbox') : e.kind = "handedOff" /\ e.n = t.n
  <2>1. tasks' = tasks \ {u}
        BY <1>3 DEF EnqueueAttachment, Ends
  <2>2. CASE u = t
    <3>1. PICK ok \in BOOLEAN : Ends(t, ok, <<[kind |-> "handedOff", n |-> t.n, ok |-> ok]>>)
                             \/ Ends(t, FALSE, <<[kind |-> "handedOff", n |-> t.n, ok |-> ok]>>)
          BY <1>3, <2>2 DEF EnqueueAttachment
    <3>2. [kind |-> "handedOff", n |-> t.n, ok |-> ok] \in Elements(inbox')
          BY <3>1, SaidIsOnItsWay
    <3> QED BY <3>2
  <2>3. CASE u # t
        BY <2>1, <2>3
  <2> QED BY <2>2, <2>3
<1> QED BY <1>1, <1>2, <1>3, TasksEnd DEF Endings

\* A draft that is being sent was before, or is given to a task; it is not what an
\* outcome that is handled is of.
LEMMA DraftSentNext ==
    ASSUME TypeInv, [Next]_vars, draft' # None, draft'.send # 0
    PROVE  \/ /\ draft # None /\ draft.send = draft'.send /\ ~CancelAttachment
              /\ Handle /\ HandleHandedOff(Head(inbox)) => Head(inbox).n # draft.send
           \/ \E t \in tasks' : t.kind = "attachment" /\ t.n = draft'.send /\ ~t.abandoned
<1>0. ~CancelAttachment
      BY DEF CancelAttachment
<1>1. CASE draft' = draft /\ ~(Handle /\ HandleHandedOff(Head(inbox)))
      BY <1>0, <1>1
<1>2. ASSUME NEW r \in Rooms, SendAttachment(r)
      PROVE  \E t \in tasks' : t.kind = "attachment" /\ t.n = draft'.send /\ ~t.abandoned
  <2>1. /\ draft # None /\ draft' = [draft EXCEPT !.send = attempts + 1]
        /\ tasks' = tasks \cup {Task(r, "attachment", attempts + 1, draft.pick)}
        BY <1>2 DEF SendAttachment, Spawn
  <2>2. draft \in Drafts
        BY <2>1 DEF TypeInv, DraftTypes
  <2>3. draft'.send = attempts + 1
        BY <2>1, <2>2 DEF Drafts
  <2>4. /\ Task(r, "attachment", attempts + 1, draft.pick).kind = "attachment"
        /\ Task(r, "attachment", attempts + 1, draft.pick).n = attempts + 1
        /\ ~Task(r, "attachment", attempts + 1, draft.pick).abandoned
        BY DEF Task
  <2> QED BY <2>1, <2>3, <2>4
<1>3. CASE Handle /\ HandlePicked(Head(inbox))
  <2>1. draft' = draft \/ draft'.send = 0
        BY <1>3 DEF HandlePicked, Adopt
  <2>2. ~HandleHandedOff(Head(inbox))
        BY <1>3 DEF HandlePicked, HandleHandedOff
  <2> QED BY <1>0, <2>1, <2>2
<1>4. CASE Handle /\ HandleHandedOff(Head(inbox))
  <2> DEFINE e == Head(inbox)
  <2>1. CASE draft # None /\ draft.send = e.n
    <3>1. draft \in Drafts
          BY <2>1 DEF TypeInv, DraftTypes
    <3>2. [draft EXCEPT !.send = 0].send = 0
          BY <3>1 DEF Drafts
    <3>3. draft' = None \/ draft' = [draft EXCEPT !.send = 0]
          BY <1>4, <2>1 DEF HandleHandedOff
    <3> QED BY <3>2, <3>3
  <2>2. CASE ~(draft # None /\ draft.send = e.n)
    <3>1. draft' = draft
          BY <1>4, <2>2 DEF HandleHandedOff
    <3> QED BY <1>0, <2>2, <3>1
  <2> QED BY <2>1, <2>2
<1>5. CASE draft' = None
      BY <1>5
<1>6. ASSUME NEW r \in Rooms, PickAttachment(r) PROVE draft' = None
      BY <1>6 DEF PickAttachment
<1>7. ASSUME NEW p \in picking, PickEnds(p) PROVE draft' = draft
      BY <1>7 DEF PickEnds
<1> QED BY <1>0, <1>1, <1>2, <1>3, <1>4, <1>5, <1>6, <1>7, DraftMoves DEF DraftSteps

\* So a draft that is being sent stays with a task, or its outcome on its way.
LEMMA StepKeepsDraftSent ==
    ASSUME TypeInv, OutInv, OutInv', DraftSentInv, [Next]_vars
    PROVE  DraftSentInv'
<1> SUFFICES ASSUME draft' # None, draft'.send # 0
             PROVE  \/ \E t \in tasks' :
                          t.kind = "attachment" /\ t.n = draft'.send /\ ~t.abandoned
                    \/ \E e \in Elements(inbox') : e.kind = "handedOff" /\ e.n = draft'.send
    BY DEF DraftSentInv
<1>1. CASE /\ draft # None /\ draft.send = draft'.send /\ ~CancelAttachment
           /\ Handle /\ HandleHandedOff(Head(inbox)) => Head(inbox).n # draft.send
  <2>1. CASE \E t \in tasks : t.kind = "attachment" /\ t.n = draft.send /\ ~t.abandoned
    <3>1. PICK t \in tasks : t.kind = "attachment" /\ t.n = draft.send /\ ~t.abandoned
          BY <2>1
    <3>2. ~AbortTasks
          BY <1>1 DEF AbortTasks, OutInv
    <3> QED BY <1>1, <3>1, <3>2, AttachmentTasksSettle
  <2>2. CASE \E e \in Elements(inbox) : e.kind = "handedOff" /\ e.n = draft.send
    <3>1. PICK e \in Elements(inbox) : e.kind = "handedOff" /\ e.n = draft.send
          BY <2>2
    <3>2. CASE e \in Elements(inbox')
          BY <1>1, <3>1, <3>2
    <3>3. CASE e \notin Elements(inbox')
      <4>1. Handle /\ e = Head(inbox)
            BY <3>3, LeavesHandled
      <4>2. HandleHandedOff(Head(inbox))
            BY <3>1, <4>1 DEF Handle, HandleSettled, HandleUnsaved, HandlePicked,
                              HandleUpdate, HandleRefocus, HandleSignedIn, Updates
      <4> QED BY <1>1, <3>1, <4>1, <4>2
    <3> QED BY <3>2, <3>3
  <2> QED BY <1>1, <2>1, <2>2 DEF DraftSentInv
<1> QED BY <1>1, DraftSentNext

\* What is held and what is a draft at first.
LEMMA InitSent == Init => SentInv /\ OutInv /\ DraftSentInv
<1> SUFFICES ASSUME Init PROVE SentInv /\ OutInv /\ DraftSentInv
    OBVIOUS
<1>1. held = <<>> /\ draft = None /\ session = "running"
      BY DEF Init
<1>2. Elements(<<>>) = {}
      BY EmptyQueue
<1> QED BY <1>1, <1>2 DEF SentInv, OutInv, DraftSentInv

\* Nothing waits for ever: a message that is shown as being sent, and an attachment
\* that is, is with a task or its outcome is on its way, whatever else is sent,
\* given up or aborted, and over all sessions (submissions.rs, send_lanes.rs,
\* attachments.rs).
THEOREM SentIsNotForgotten == Spec => []NothingSentIsForgotten
<1>1. TypeInv /\ SentInv /\ DraftSentInv => NothingSentIsForgotten
  <2> SUFFICES ASSUME TypeInv, SentInv, DraftSentInv PROVE NothingSentIsForgotten
      OBVIOUS
  <2>1. \A i \in DOMAIN held : held[i] \in Elements(held)
        BY DEF Elements
  <2>2. \A e \in Elements(inbox) : \E k \in DOMAIN inbox : inbox[k] = e
        BY DEF Elements
  <2>3. ASSUME NEW i \in DOMAIN held, ~held[i].refused
        PROVE  \/ \E t \in tasks : t.kind = "message" /\ t.n = held[i].n
               \/ \E k \in DOMAIN inbox : inbox[k].kind = "settled" /\ inbox[k].n = held[i].n
        BY <2>1, <2>2, <2>3 DEF SentInv
  <2>4. ASSUME draft # None, draft.send # 0
        PROVE  \/ \E t \in tasks : t.kind = "attachment" /\ t.n = draft.send /\ ~t.abandoned
               \/ \E k \in DOMAIN inbox : inbox[k].kind = "handedOff" /\ inbox[k].n = draft.send
        BY <2>2, <2>4 DEF DraftSentInv
  <2> QED BY <2>3, <2>4 DEF NothingSentIsForgotten
<1> QED BY <1>1, InitTypeInv, InitLaneInv, InitWindowInv, InitMessages, InitSent,
           StepKeepsTypes, StepKeepsLanes, StepKeepsWindow, StepKeepsOnce, StepKeepsOwed,
           StepKeepsSent, StepKeepsOut, StepKeepsDraftSent, PTL DEF Spec

-----------------------------------------------------------------------------
(* Files are kept while they are needed *)

\* The reports of the dialog of pick n.
PickedOf(n) == {e \in Picked : e.pick = n}

\* A dialog reports once, and it has ended then.
PicksInv ==
    /\ \A p, q \in picking : p.pick = q.pick => p = q
    /\ \A n \in Nat : Count(inbox, PickedOf(n)) <= 1
    /\ \A p \in picking : Count(inbox, PickedOf(p.pick)) = 0

\* The reports that are of a dialog.
LEMMA PickedOfFacts ==
    ASSUME NEW n
    PROVE  /\ PickedOf(n) \cap UpdateMessages = {}
           /\ \A x \in PickedOf(n) : x.kind = "picked" /\ x.pick = n
           /\ \A x \in Picked : x \in PickedOf(n) <=> x.pick = n
  BY KindsDiffer DEF PickedOf

\* What is new of the reports is of a dialog that ends.
LEMMA NewPicked ==
    ASSUME NEW n, NEW x \in PickedOf(n), NewsOf(x)
    PROVE  \E p \in picking : picking' = picking \ {p} /\ p.pick = n
<1>1. x.kind = "picked" /\ x.pick = n /\ "picked" \notin Updates
      BY PickedOfFacts, KindsDiffer
<1>2. \A s, k : Update(s, k).kind = k
      BY DEF Update
<1> QED BY <1>1, <1>2 DEF NewsOf

\* The dialogs that are open were, or the one is new.
LEMMA PickingNext ==
    ASSUME TypeInv, [Next]_vars
    PROVE  \A p \in picking' :
              \/ p \in picking
              \/ /\ \E r \in Rooms : PickAttachment(r)
                 /\ p.pick = picks + 1
                 /\ \A q \in picking' : q.pick = picks + 1 => q = p
<1>0. picks \in Nat /\ \A p \in picking : p.pick \in 1..picks
      BY DEF TypeInv, NumbersInv, DraftTypes
<1>1. ASSUME NEW r \in Rooms, PickAttachment(r), NEW p \in picking', p \notin picking
      PROVE  p.pick = picks + 1 /\ \A q \in picking' : q.pick = picks + 1 => q = p
  <2> DEFINE new == [pick |-> picks + 1, room |-> r]
  <2>1. picking' = picking \cup {new} /\ new.pick = picks + 1
        BY <1>1 DEF PickAttachment
  <2> HIDE DEF new
  <2>2. \A q \in picking : q.pick # picks + 1
        BY <1>0
  <2> QED BY <1>1, <2>1, <2>2
<1>2. ASSUME NEW p \in picking, PickEnds(p) PROVE picking' \subseteq picking
      BY <1>2 DEF PickEnds
<1>3. CASE \/ \E r \in Rooms : SendAttachment(r)
           \/ CancelAttachment
           \/ Handle /\ HandlePicked(Head(inbox))
           \/ Handle /\ HandleHandedOff(Head(inbox))
      BY <1>3 DEF SendAttachment, CancelAttachment, HandlePicked, HandleHandedOff
<1> QED BY <1>1, <1>2, <1>3, DraftMoves DEF DraftSteps

\* A dialog reports once.
LEMMA StepKeepsPicks ==
    ASSUME TypeInv, PicksInv, [Next]_vars
    PROVE  PicksInv'
<1>0. /\ inbox \in Seq(Said) /\ picks \in Nat
      /\ \A p \in picking : p.pick \in 1..picks
      /\ \A e \in Elements(inbox) : e.kind = "picked" => e.pick <= picks
      BY DEF TypeInv, InboxTypes, DraftTypes, NumbersInv
<1> DEFINE C(q, n) == Count(q, PickedOf(n))
<1>1. \A n : /\ C(inbox, n) \in Nat /\ C(inbox', n) \in Nat
             /\ \/ C(inbox', n) <= C(inbox, n)
                \/ /\ C(inbox', n) = C(inbox, n) + 1
                   /\ \E p \in picking : picking' = picking \ {p} /\ p.pick = n
  <2> TAKE n
  <2>1. /\ C(inbox, n) \in Nat /\ C(inbox', n) \in Nat
        /\ \/ C(inbox', n) <= C(inbox, n)
           \/ C(inbox', n) = C(inbox, n) + 1 /\ \E x \in PickedOf(n) : NewsOf(x)
        BY InboxCount, PickedOfFacts
  <2>2. ASSUME NEW x \in PickedOf(n), NewsOf(x)
        PROVE  \E p \in picking : picking' = picking \ {p} /\ p.pick = n
        BY <2>2, NewPicked
  <2> HIDE DEF C
  <2> QED BY <2>1, <2>2
<1>2. C(inbox, picks + 1) = 0
  <2>1. ASSUME NEW e \in Elements(inbox), e \in PickedOf(picks + 1) PROVE FALSE
    <3>1. e.kind = "picked" /\ e.pick = picks + 1
          BY <2>1, PickedOfFacts
    <3> QED BY <1>0, <3>1
  <2> QED BY <1>0, <2>1, CountNone
<1>3. /\ \A n \in Nat : C(inbox, n) <= 1
      /\ \A p \in picking : C(inbox, p.pick) = 0
      /\ \A p, q \in picking : p.pick = q.pick => p = q
      BY DEF PicksInv
<1> HIDE DEF C
<1>4. \A n \in Nat : C(inbox', n) <= 1
      BY <1>1, <1>3
<1>5. ASSUME NEW p \in picking'
      PROVE  C(inbox', p.pick) = 0
  <2>1. CASE p \in picking
    <3>1. C(inbox, p.pick) = 0
          BY <1>3, <2>1
    <3>2. ~(\E q \in picking : picking' = picking \ {q} /\ q.pick = p.pick)
          BY <1>3, <1>5, <2>1
    <3> QED BY <1>1, <3>1, <3>2
  <2>2. CASE p.pick = picks + 1
    <3>1. C(inbox, p.pick) = 0
          BY <1>2, <2>2
    <3>2. ~(\E q \in picking : picking' = picking \ {q} /\ q.pick = p.pick)
          BY <1>0, <2>2
    <3> QED BY <1>1, <3>1, <3>2
  <2> QED BY <1>5, <2>1, <2>2, PickingNext
<1>6. ASSUME NEW p \in picking', NEW q \in picking', p.pick = q.pick
      PROVE  p = q
      BY <1>3, <1>6, PickingNext
<1>7. (\A n \in Nat : Count(inbox, PickedOf(n)) <= 1)'
      BY <1>4 DEF C
<1>8. \A p \in picking' : C(inbox', p.pick) = 0
      BY <1>5
<1> QED BY <1>6, <1>7, <1>8 DEF PicksInv, C

\* Pick n has not been handled: its dialog is open, or its report on its way.
Loose(n, open, queue) ==
    \/ \E p \in open : p.pick = n
    \/ \E e \in Elements(queue) : e \in Picked /\ e.pick = n

\* What is loose was, or is new; what is handled is no longer.
LEMMA LooseNext ==
    ASSUME TypeInv, PicksInv, [Next]_vars, NEW n, Loose(n, picking', inbox')
    PROVE  /\ \/ Loose(n, picking, inbox)
              \/ n = picks + 1 /\ \E r \in Rooms : PickAttachment(r)
           /\ Handle /\ HandlePicked(Head(inbox)) =>
                 n # Head(inbox).pick /\ Loose(Head(inbox).pick, picking, inbox)
<1>0. /\ InboxTypes /\ inbox \in Seq(Said)
      BY DEF TypeInv, InboxTypes
<1>1. \/ Loose(n, picking, inbox)
      \/ n = picks + 1 /\ \E r \in Rooms : PickAttachment(r)
  <2>1. CASE \E p \in picking' : p.pick = n
        BY <2>1, PickingNext DEF Loose
  <2>2. ASSUME NEW e \in Elements(inbox'), e \in Picked, e.pick = n
        PROVE  Loose(n, picking, inbox)
    <3>1. CASE e \in Elements(inbox)
          BY <2>2, <3>1 DEF Loose
    <3>2. CASE NewsOf(e)
      <4>1. e \in PickedOf(n)
            BY <2>2, PickedOfFacts
      <4> QED BY <3>2, <4>1, NewPicked DEF Loose
    <3>3. e \notin UpdateMessages
          BY <2>2, KindsDiffer
    <3> QED BY <3>1, <3>2, <3>3, InboxNext
  <2> QED BY <2>1, <2>2 DEF Loose
<1>2. ASSUME Handle, HandlePicked(Head(inbox))
      PROVE  n # Head(inbox).pick /\ Loose(Head(inbox).pick, picking, inbox)
  <2> DEFINE e == Head(inbox)
  <2>1. /\ e \in Said /\ e \in Elements(inbox) /\ Tail(inbox) \in Seq(Said)
        /\ \A set : /\ Count(inbox, set) =
                         Count(Tail(inbox), set) + (IF e \in set THEN 1 ELSE 0)
                    /\ Count(Tail(inbox), set) \in Nat
        BY <1>0, <1>2, Handled
  <2>2. e \in Picked /\ inbox' = Tail(inbox) /\ picking' = picking
        BY <1>2, <2>1, SaidByKind DEF HandlePicked
  <2> HIDE DEF e
  <2>3. e.pick \in Nat /\ e \in PickedOf(e.pick)
        BY <2>2, Bounds, PickedOfFacts DEF Picked
  <2>4. Count(inbox, PickedOf(e.pick)) <= 1
        BY <2>3 DEF PicksInv
  <2>5. Count(inbox, PickedOf(e.pick)) = Count(Tail(inbox), PickedOf(e.pick)) + 1
        BY <2>1, <2>3
  <2>6. Count(Tail(inbox), PickedOf(e.pick)) \in Nat
        BY <2>1
  <2>7. Count(Tail(inbox), PickedOf(e.pick)) = 0
        BY <2>4, <2>5, <2>6
  <2>8. \A x \in Elements(Tail(inbox)) : x \notin PickedOf(e.pick)
        BY <2>1, <2>7, CountNone
  <2>9. \A x \in Elements(inbox') : x \in Picked => x.pick # e.pick
        BY <2>2, <2>8, PickedOfFacts
  <2>10. \A p \in picking' : p.pick # e.pick
    <3>1. Count(inbox, PickedOf(e.pick)) # 0
          BY <1>0, <2>1, <2>3, CountNone
    <3> QED BY <2>2, <3>1 DEF PicksInv
  <2>11. n # e.pick
         BY <2>9, <2>10 DEF Loose
  <2>12. Loose(e.pick, picking, inbox)
         BY <2>1, <2>2 DEF Loose
  <2> QED BY <2>11, <2>12 DEF e
<1> QED BY <1>1, <1>2

\* A number of a send is given out by a command that sends.
LEMMA AttemptsMove ==
    ASSUME [Next]_vars, attempts' # attempts
    PROVE  \E r \in Rooms : SendAttachment(r)
  BY DEF Next, Commands, TasksStep, Handle, SelectRoom, SendMessage, EditMessage, SendSticker,
         PickAttachment, JumpToLatest, DropRoom, CancelAttachment, DismissUnsent,
         EnqueueMessage, EnqueueSticker, ReadAttachment, EnqueueAttachment, Ends, AbortTasks,
         PickEnds, HandleSettled, HandleUnsaved, HandlePicked, HandleHandedOff, HandleUpdate,
         HandleRefocus, HandleSignedIn, EndSession, SessionEnded, SignIn, UpdateArrives,
         EditRefused, SubscriptionStops, UserMoves, others, vars, attachments

\* A send that was not given up and has still to read the files.
Needed(t) == t.kind = "attachment" /\ ~t.read /\ ~t.abandoned

\* A task goes on as another: the same send, which reads on only if that did.
GoesOnAs(u, t) ==
    /\ u.kind = "attachment" /\ u.id = t.id /\ u.n = t.n /\ u.pick = t.pick
    /\ Needed(t) => Needed(u)
    /\ CancelAttachment /\ Needed(t) => u.n # draft.send

\* A task that sends an attachment did before, or is new.
LEMMA AttachmentTasksNext ==
    ASSUME TypeInv, [Next]_vars, NEW t \in tasks', t.kind = "attachment"
    PROVE  \/ \E u \in tasks : GoesOnAs(u, t)
           \/ /\ \E r \in Rooms : SendAttachment(r)
              /\ t.id = spawned + 1 /\ t.n = attempts + 1 /\ t.pick = draft.pick
<1>0. tasks \subseteq Tasks /\ attempts \in Nat
      BY DEF TypeInv, TasksTypes, NumbersInv
<1>1. CASE CancelAttachment
  <2> DEFINE F(u) == IF u.kind = "attachment" /\ u.n = draft.send
                     THEN [u EXCEPT !.abandoned = TRUE] ELSE u
  <2>1. tasks' = {F(u) : u \in tasks}
        BY <1>1 DEF CancelAttachment
  <2>2. PICK u \in tasks : t = F(u)
        BY <2>1
  <2>3. CASE u.kind = "attachment" /\ u.n = draft.send
    <3>1. /\ t.abandoned /\ t.kind = u.kind /\ t.id = u.id /\ t.n = u.n /\ t.pick = u.pick
          BY <1>0, <2>2, <2>3 DEF Tasks
    <3> QED BY <2>3, <3>1 DEF GoesOnAs, Needed
  <2>4. CASE ~(u.kind = "attachment" /\ u.n = draft.send)
    <3>1. t = u
          BY <2>2, <2>4
    <3> QED BY <2>4, <3>1 DEF GoesOnAs, Needed
  <2> QED BY <2>3, <2>4
<1>2. CASE t \in tasks /\ ~CancelAttachment
      BY <1>2 DEF GoesOnAs
<1>3. ASSUME NEW u \in tasks, ReadAttachment(u), ~CancelAttachment, t \notin tasks
      PROVE  GoesOnAs(u, t)
  <2>1. u.kind = "attachment" /\ t = [u EXCEPT !.read = TRUE]
        BY <1>3 DEF ReadAttachment
  <2>2. t.read /\ t.kind = u.kind /\ t.id = u.id /\ t.n = u.n /\ t.pick = u.pick
        BY <1>0, <2>1 DEF Tasks
  <2> QED BY <1>3, <2>1, <2>2 DEF GoesOnAs, Needed
<1>4. ASSUME NEW r \in Rooms, Spawn(r, "attachment", attempts + 1, draft.pick),
             attempts' = attempts + 1, t \notin tasks
      PROVE  /\ \E q \in Rooms : SendAttachment(q)
             /\ t.id = spawned + 1 /\ t.n = attempts + 1 /\ t.pick = draft.pick
  <2>1. t = Task(r, "attachment", attempts + 1, draft.pick)
        BY <1>4 DEF Spawn
  <2>2. attempts' # attempts
        BY <1>0, <1>4
  <2> QED BY <2>1, <2>2, AttemptsMove DEF Task
<1>5. ASSUME NEW r, NEW kind \in {"message", "sticker"}, NEW n, NEW pick,
             Spawn(r, kind, n, pick)
      PROVE  t \in tasks
      BY <1>5 DEF Spawn, Task
<1> QED BY <1>1, <1>2, <1>3, <1>4, <1>5, LanesMove DEF LaneSteps

\* Each send has a number of its own, also those whose outcome is on its way.
SendsInv ==
    /\ \A t, u \in tasks :
          t.kind = "attachment" /\ u.kind = "attachment" /\ t.n = u.n => t = u
    /\ \A e \in Elements(inbox), t \in tasks :
          e.kind = "handedOff" /\ t.kind = "attachment" => t.n # e.n

\* A new outcome of a send is of a task that ends.
LEMMA NewHandedOff ==
    ASSUME NEW x, x.kind = "handedOff", NewsOf(x)
    PROVE  \E t \in tasks : t.kind = "attachment" /\ tasks' = tasks \ {t} /\ t.n = x.n
<1>1. "handedOff" \notin Updates
      BY KindsDiffer
<1>2. \A s, k : Update(s, k).kind = k
      BY DEF Update
<1> QED BY <1>1, <1>2 DEF NewsOf

\* Each send keeps a number of its own.
LEMMA StepKeepsSends ==
    ASSUME TypeInv, LaneInv, LaneInv', SendsInv, [Next]_vars
    PROVE  SendsInv'
<1>0. /\ attempts \in Nat
      /\ \A t \in tasks : t.kind = "attachment" => t.n \in 1..attempts
      /\ \A e \in Elements(inbox) : e.kind = "handedOff" => e.n <= attempts
      /\ \A t, u \in tasks : t.id = u.id => t = u
      /\ \A t, u \in tasks' : t.id = u.id => t = u
      BY DEF TypeInv, TasksTypes, InboxTypes, NumbersInv, LaneInv, TasksInv
<1>1. ASSUME NEW t \in tasks', NEW u \in tasks', t.kind = "attachment",
             u.kind = "attachment", t.n = u.n
      PROVE  t = u
  <2>1. \/ \E v \in tasks : v.kind = "attachment" /\ v.id = t.id /\ v.n = t.n
        \/ t.id = spawned + 1 /\ t.n = attempts + 1
        BY <1>1, AttachmentTasksNext DEF GoesOnAs
  <2>2. \/ \E v \in tasks : v.kind = "attachment" /\ v.id = u.id /\ v.n = u.n
        \/ u.id = spawned + 1 /\ u.n = attempts + 1
        BY <1>1, AttachmentTasksNext DEF GoesOnAs
  <2>3. t.id = u.id
        BY <1>0, <1>1, <2>1, <2>2 DEF SendsInv
  <2> QED BY <1>0, <2>3
<1>2. ASSUME NEW e \in Elements(inbox'), NEW t \in tasks', e.kind = "handedOff",
             t.kind = "attachment"
      PROVE  t.n # e.n
  <2>1. CASE e \in Elements(inbox)
    <3>1. \/ \E v \in tasks : v.kind = "attachment" /\ v.n = t.n
          \/ t.n = attempts + 1
          BY <1>2, AttachmentTasksNext DEF GoesOnAs
    <3>2. CASE \E v \in tasks : v.kind = "attachment" /\ v.n = t.n
          BY <1>2, <2>1, <3>2 DEF SendsInv
    <3>3. CASE t.n = attempts + 1
      <4>1. e.n <= attempts
            BY <1>0, <1>2, <2>1
      <4>2. e.n # attempts + 1
        <5>1. ASSUME e.n = attempts + 1 PROVE FALSE
          <6>1. attempts + 1 <= attempts
                BY <4>1, <5>1
          <6> QED BY <1>0, <6>1
        <5> QED BY <5>1
      <4> QED BY <3>3, <4>2
    <3> QED BY <3>1, <3>2, <3>3
  <2>2. CASE NewsOf(e)
    <3>1. PICK v \in tasks : v.kind = "attachment" /\ tasks' = tasks \ {v} /\ v.n = e.n
          BY <1>2, <2>2, NewHandedOff
    <3>2. t \in tasks /\ t # v
          BY <3>1
    <3> QED BY <1>2, <3>1, <3>2 DEF SendsInv
  <2>3. e \notin UpdateMessages
        BY <1>2, KindsDiffer
  <2> QED BY <2>1, <2>2, <2>3, InboxNext
<1> QED BY <1>1, <1>2 DEF SendsInv

\* The files of what is loose, of the draft and of a send that needs them are
\* there. What is loose is nobody's yet, and a send that needs the files of the
\* draft is the one the draft waits for.
FilesInv ==
    /\ \A n \in Nat : Loose(n, picking, inbox) =>
          /\ n \notin released
          /\ draft # None => draft.pick # n
          /\ \A t \in tasks : t.kind = "attachment" => t.pick # n
    /\ draft # None => draft.pick \notin released
    /\ \A t \in tasks : Needed(t) =>
          /\ t.pick \notin released
          /\ draft # None /\ draft.pick = t.pick => draft.send = t.n

\* The files of the sends, when the draft is sent.
LEMMA SendKeepsFiles ==
    ASSUME TypeInv, PicksInv, SendsInv, FilesInv, [Next]_vars, NEW r \in Rooms,
           SendAttachment(r)
    PROVE  FilesInv'
<1>0. /\ draft # None /\ draft \in Drafts /\ draft.send = 0
      /\ draft' = [draft EXCEPT !.send = attempts + 1] /\ UNCHANGED <<picking, released, inbox>>
      /\ \A t \in tasks : t.kind = "attachment" => t.n \in 1..attempts
      BY DEF TypeInv, DraftTypes, TasksTypes, SendAttachment
<1>1. draft'.pick = draft.pick /\ draft'.send = attempts + 1
      BY <1>0 DEF Drafts
<1>2. ASSUME NEW t \in tasks', t.kind = "attachment"
      PROVE  \/ /\ \E u \in tasks : u.kind = "attachment" /\ u.pick = t.pick
                /\ Needed(t) => t.pick # draft.pick /\ t.pick \notin released
             \/ t.pick = draft.pick /\ t.n = attempts + 1
  <2>1. CASE \E u \in tasks : GoesOnAs(u, t)
    <3>1. PICK u \in tasks : GoesOnAs(u, t)
          BY <2>1
    <3>2. u.kind = "attachment" /\ u.pick = t.pick /\ u.n # 0
          BY <1>0, <3>1 DEF GoesOnAs
    <3>3. ASSUME Needed(t) PROVE t.pick # draft.pick /\ t.pick \notin released
          BY <1>0, <3>1, <3>2, <3>3 DEF GoesOnAs, FilesInv
    <3> QED BY <3>2, <3>3
  <2> QED BY <1>2, <2>1, AttachmentTasksNext
<1>3. ASSUME NEW n \in Nat, Loose(n, picking, inbox)
      PROVE  /\ n \notin released' /\ draft'.pick # n
             /\ \A t \in tasks' : t.kind = "attachment" => t.pick # n
      BY <1>0, <1>1, <1>2, <1>3 DEF FilesInv
<1>4. draft.pick \notin released
      BY <1>0 DEF FilesInv
<1>5. ASSUME NEW t \in tasks', Needed(t)
      PROVE  t.pick \notin released /\ (t.pick = draft.pick => t.n = attempts + 1)
      BY <1>2, <1>4, <1>5 DEF Needed
<1> QED BY <1>0, <1>1, <1>3, <1>4, <1>5 DEF FilesInv

\* The files, when no attachment is picked or sent: what is loose and what the
\* sends need was so before.
LEMMA OthersKeepFiles ==
    ASSUME TypeInv, PicksInv, SendsInv, FilesInv, [Next]_vars,
           ~\E r \in Rooms : SendAttachment(r) \/ PickAttachment(r)
    PROVE  FilesInv'
<1>0. /\ draft # None => draft \in Drafts
      /\ \A t \in tasks : t.kind = "attachment" => t.n \in 1..attempts
      /\ InboxTypes
      BY DEF TypeInv, DraftTypes, TasksTypes
<1>1. ASSUME NEW n, Loose(n, picking', inbox')
      PROVE  /\ Loose(n, picking, inbox)
             /\ Handle /\ HandlePicked(Head(inbox)) =>
                   n # Head(inbox).pick /\ Loose(Head(inbox).pick, picking, inbox)
      BY <1>1, LooseNext
<1>2. ASSUME NEW t \in tasks', t.kind = "attachment"
      PROVE  \E u \in tasks : GoesOnAs(u, t)
      BY <1>2, AttachmentTasksNext
<1>3. /\ \A n \in Nat : Loose(n, picking, inbox) =>
            /\ n \notin released
            /\ draft # None => draft.pick # n
            /\ \A t \in tasks : t.kind = "attachment" => t.pick # n
      /\ draft # None => draft.pick \notin released
      BY DEF FilesInv
<1>4. ASSUME NEW t \in tasks', Needed(t)
      PROVE  /\ t.pick \notin released
             /\ draft # None /\ draft.pick = t.pick => draft.send = t.n /\ ~CancelAttachment
             /\ t.n # 0
             /\ \A e \in Elements(inbox) : e.kind = "handedOff" => t.n # e.n
             /\ \A n \in Nat : Loose(n, picking, inbox) => t.pick # n
  <2>1. t.kind = "attachment"
        BY <1>4 DEF Needed
  <2>2. PICK u \in tasks : GoesOnAs(u, t)
        BY <1>2, <2>1
  <2>3. /\ u.kind = "attachment" /\ u.n = t.n /\ u.pick = t.pick /\ Needed(u)
        /\ CancelAttachment => u.n # draft.send
        BY <1>4, <2>2 DEF GoesOnAs
  <2>4. t.pick \notin released /\ (draft # None /\ draft.pick = t.pick => draft.send = t.n)
        BY <2>3 DEF FilesInv
  <2>5. t.n # 0
        BY <1>0, <2>3
  <2>6. \A e \in Elements(inbox) : e.kind = "handedOff" => t.n # e.n
        BY <2>3 DEF SendsInv
  <2>7. \A n \in Nat : Loose(n, picking, inbox) => t.pick # n
        BY <1>3, <2>3
  <2> QED BY <2>3, <2>4, <2>5, <2>6, <2>7
<1>5. ASSUME NEW n \in Nat, NEW t \in tasks', Loose(n, picking, inbox), t.kind = "attachment"
      PROVE  t.pick # n
      BY <1>2, <1>3, <1>5 DEF GoesOnAs
<1>6. ASSUME draft' # None => draft' = draft, released' \subseteq released \cup {draft.pick},
             draft.pick \in released' /\ draft.pick \notin released =>
                /\ draft # None /\ draft' = None
                /\ \A t \in tasks' : Needed(t) => t.pick # draft.pick
      PROVE  FilesInv'
  <2>1. ASSUME NEW n \in Nat, Loose(n, picking', inbox')
        PROVE  /\ n \notin released'
               /\ draft' # None => draft'.pick # n
               /\ \A t \in tasks' : t.kind = "attachment" => t.pick # n
        BY <1>1, <1>3, <1>5, <1>6, <2>1
  <2>2. draft' # None => draft'.pick \notin released'
        BY <1>3, <1>6
  <2>3. ASSUME NEW t \in tasks', Needed(t)
        PROVE  /\ t.pick \notin released'
               /\ draft' # None /\ draft'.pick = t.pick => draft'.send = t.n
        BY <1>4, <1>6, <2>3
  <2> QED BY <2>1, <2>2, <2>3 DEF FilesInv
<1>7. CASE UNCHANGED <<draft, released, picking>>
      BY <1>6, <1>7
<1>8. CASE draft' = None /\ released' = Cleared
  <2>1. CASE draft # None /\ draft.send = 0
    <3>1. released' = released \cup {draft.pick}
          BY <1>8, <2>1 DEF Cleared
    <3>2. \A t \in tasks' : Needed(t) => t.pick # draft.pick
          BY <1>4, <2>1
    <3> QED BY <1>6, <1>8, <2>1, <3>1, <3>2
  <2>2. CASE ~(draft # None /\ draft.send = 0)
    <3>1. released' = released
          BY <1>8, <2>2 DEF Cleared
    <3> QED BY <1>6, <1>8, <3>1
  <2> QED BY <2>1, <2>2
<1>9. ASSUME NEW p \in picking, PickEnds(p) PROVE FilesInv'
      BY <1>6, <1>9 DEF PickEnds
<1>10. CASE CancelAttachment
  <2>1. draft # None /\ draft' = None /\ released' = released \cup {draft.pick}
        BY <1>10 DEF CancelAttachment
  <2>2. \A t \in tasks' : Needed(t) => t.pick # draft.pick
        BY <1>4, <1>10, <2>1
  <2> QED BY <1>6, <2>1, <2>2
<1>11. CASE Handle /\ HandlePicked(Head(inbox))
  <2> DEFINE e == Head(inbox)
  <2>1. /\ e \in Said /\ e \in Elements(inbox)
        BY <1>0, <1>11, Handled
  <2>2. e \in Picked /\ Adopt(e)
        BY <1>11, <2>1, SaidByKind DEF HandlePicked
  <2>3. Loose(e.pick, picking, inbox) /\ e.pick \in Nat
        BY <2>1, <2>2, Bounds DEF Loose, Picked
  <2>4. ASSUME NEW n, Loose(n, picking', inbox') PROVE n # e.pick
        BY <1>1, <1>11, <2>4
  <2> HIDE DEF e
  <2>5. /\ e.pick \notin released /\ (draft # None => draft.pick # e.pick)
        BY <1>3, <2>3
  <2>6. ASSUME NEW t \in tasks', Needed(t) PROVE t.pick # e.pick
        BY <1>4, <2>3, <2>6
  <2>7. CASE released' = released \cup {e.pick} /\ draft' = draft
    <3>1. ASSUME NEW n \in Nat, Loose(n, picking', inbox')
          PROVE  /\ n \notin released'
                 /\ draft' # None => draft'.pick # n
                 /\ \A t \in tasks' : t.kind = "attachment" => t.pick # n
          BY <1>1, <1>3, <1>5, <2>4, <2>7, <3>1
    <3>2. draft' # None => draft'.pick \notin released'
          BY <1>3, <2>5, <2>7
    <3>3. ASSUME NEW t \in tasks', Needed(t)
          PROVE  /\ t.pick \notin released'
                 /\ draft' # None /\ draft'.pick = t.pick => draft'.send = t.n
          BY <1>4, <2>6, <2>7, <3>3
    <3> QED BY <3>1, <3>2, <3>3 DEF FilesInv
  <2>8. CASE draft' = [room |-> e.room, pick |-> e.pick, send |-> 0] /\ released' = released
    <3>0. draft'.pick = e.pick
          BY <2>8
    <3>1. ASSUME NEW n \in Nat, Loose(n, picking', inbox')
          PROVE  /\ n \notin released'
                 /\ draft' # None => draft'.pick # n
                 /\ \A t \in tasks' : t.kind = "attachment" => t.pick # n
          BY <1>1, <1>3, <1>5, <2>4, <2>8, <3>0, <3>1
    <3>2. draft'.pick \notin released'
          BY <2>5, <2>8, <3>0
    <3>3. ASSUME NEW t \in tasks', Needed(t)
          PROVE  t.pick \notin released' /\ draft'.pick # t.pick
          BY <1>4, <2>6, <2>8, <3>0, <3>3
    <3> QED BY <3>1, <3>2, <3>3 DEF FilesInv
  <2> QED BY <2>2, <2>7, <2>8 DEF Adopt
<1>12. CASE Handle /\ HandleHandedOff(Head(inbox))
  <2> DEFINE e == Head(inbox)
  <2>1. e \in Elements(inbox) /\ e.kind = "handedOff"
        BY <1>0, <1>12, Handled DEF HandleHandedOff
  <2>2. ASSUME NEW t \in tasks', Needed(t) PROVE t.n # e.n
        BY <1>4, <2>1, <2>2
  <2>3. CASE draft # None /\ draft.send = e.n /\ e.ok
    <3>1. draft' = None /\ released' = released \cup {draft.pick}
          BY <1>12, <2>3 DEF HandleHandedOff
    <3>2. \A t \in tasks' : Needed(t) => t.pick # draft.pick
          BY <1>4, <2>2, <2>3
    <3> QED BY <1>6, <2>3, <3>1, <3>2
  <2>4. CASE draft # None /\ draft.send = e.n /\ ~e.ok
    <3>1. draft' = [draft EXCEPT !.send = 0] /\ released' = released
          BY <1>12, <2>4 DEF HandleHandedOff
    <3>2. draft'.pick = draft.pick
          BY <1>0, <2>4, <3>1 DEF Drafts
    <3>3. ASSUME NEW n \in Nat, Loose(n, picking', inbox')
          PROVE  /\ n \notin released' /\ draft'.pick # n
                 /\ \A t \in tasks' : t.kind = "attachment" => t.pick # n
          BY <1>1, <1>3, <1>5, <2>4, <3>1, <3>2, <3>3
    <3>4. draft'.pick \notin released'
          BY <1>3, <2>4, <3>1, <3>2
    <3>5. ASSUME NEW t \in tasks', Needed(t)
          PROVE  t.pick \notin released' /\ draft'.pick # t.pick
          BY <1>4, <2>2, <2>4, <3>1, <3>2, <3>5
    <3> QED BY <3>3, <3>4, <3>5 DEF FilesInv
  <2>5. CASE ~(draft # None /\ draft.send = e.n)
    <3>1. UNCHANGED <<draft, released>>
          BY <1>12, <2>5 DEF HandleHandedOff
    <3> QED BY <1>6, <3>1
  <2> QED BY <2>3, <2>4, <2>5
<1> QED BY <1>7, <1>8, <1>9, <1>10, <1>11, <1>12, DraftMoves DEF DraftSteps

\* The files, when another attachment is picked: its number is nobody's yet.
LEMMA PickKeepsFiles ==
    ASSUME TypeInv, PicksInv, FilesInv, [Next]_vars, NEW r \in Rooms, PickAttachment(r)
    PROVE  FilesInv'
<1>0. /\ draft' = None /\ released' = Cleared /\ tasks' = tasks
      BY DEF PickAttachment, lanes
<1>1. /\ picks \in Nat /\ released \subseteq 1..picks
      /\ draft # None => draft.pick \in Nat /\ draft.pick <= picks
      /\ \A t \in tasks : t.kind = "attachment" => t.pick \in 1..picks /\ t.n # 0
  <2>1. draft # None => draft \in Drafts /\ draft.pick <= picks
        BY DEF TypeInv, DraftTypes
  <2>2. draft # None => draft.pick \in Nat
        BY <2>1, Bounds DEF Drafts
  <2>3. /\ picks \in Nat /\ released \subseteq 1..picks /\ attempts \in Nat
        /\ \A t \in tasks : t.kind = "attachment" => t.pick \in 1..picks /\ t.n \in 1..attempts
        BY DEF TypeInv, DraftTypes, TasksTypes, NumbersInv
  <2> QED BY <2>1, <2>2, <2>3
<1>2. picks + 1 \notin released' /\ \A t \in tasks : t.kind = "attachment" => t.pick # picks + 1
      BY <1>0, <1>1 DEF Cleared
<1>3. ASSUME NEW n \in Nat, Loose(n, picking, inbox)
      PROVE  n \notin released' /\ \A t \in tasks : t.kind = "attachment" => t.pick # n
      BY <1>0, <1>3 DEF FilesInv, Cleared
<1>4. ASSUME NEW n \in Nat, Loose(n, picking', inbox')
      PROVE  n \notin released' /\ \A t \in tasks : t.kind = "attachment" => t.pick # n
      BY <1>2, <1>3, <1>4, LooseNext
<1>5. ASSUME NEW t \in tasks, Needed(t) PROVE t.pick \notin released'
  <2>1. t.kind = "attachment" /\ t.n # 0
        BY <1>1, <1>5 DEF Needed
  <2> QED BY <1>0, <1>5, <2>1 DEF FilesInv, Cleared
<1> QED BY <1>0, <1>4, <1>5 DEF FilesInv

\* So the files are kept by every step.
LEMMA StepKeepsFiles ==
    ASSUME TypeInv, PicksInv, SendsInv, FilesInv, [Next]_vars
    PROVE  FilesInv'
  BY SendKeepsFiles, PickKeepsFiles, OthersKeepFiles

\* Nothing is picked, sent or released at first.
LEMMA InitFiles == Init => PicksInv /\ SendsInv /\ FilesInv
<1> SUFFICES ASSUME Init PROVE PicksInv /\ SendsInv /\ FilesInv
    OBVIOUS
<1>1. inbox = <<>> /\ draft = None /\ tasks = {} /\ picking = {} /\ released = {}
      BY DEF Init
<1>2. Elements(<<>>) = {} /\ \A set : Count(<<>>, set) = 0
      BY EmptyQueue
<1> QED BY <1>1, <1>2 DEF PicksInv, SendsInv, FilesInv, Loose

\* The files of an attachment are there for as long as a send that was not given
\* up has to read them, however the picks, the dialogs, the rooms and the outcomes
\* of other sends come between (attachments.rs, service/messages.rs).
THEOREM FilesAreKept == Spec => []KeptWhileNeeded
<1>1. FilesInv => KeptWhileNeeded
      BY DEF FilesInv, Needed, KeptWhileNeeded
<1> QED BY <1>1, InitTypeInv, InitLaneInv, InitFiles, StepKeepsTypes, StepKeepsLanes,
           StepKeepsPicks, StepKeepsSends, StepKeepsFiles, PTL DEF Spec

==============================================================================
