# u2dm-client in TLA+

This directory is the verification development kept beside u2dm-client, a
desktop Matrix client written in Rust. It models the parts of the client whose
correctness depends on the order of effects: signing in as one transaction over
the disk and the keyring and its recovery after a crash; the life of a session
in the service loop, from the restore at a start to the logout; the media keys
of an encrypted call, the task that keeps the membership of the device in it, and
its connections to media servers with the user's own devices; what is sent in the
rooms and what the timeline of the open room marks as read. TLC checks the models
on small instances, TLAPS proves theorems about each of them for every instance.

Paths below are relative to the repository's `src/`. `PROJECT.json` names, for
every definition that models code, the lines it stands for.

## 1. Inventory

The client is a hexagonal program. `domain/` holds values and pure rules,
`ports/` the traits the core needs, `adapters/` their implementations (the
Matrix SDK, the keyring, LiveKit, the Slint interface), `app/` the core. One
task owns the core, `AppService::run` (`app/service.rs`). It takes commands of
the user and events of its own tasks, in the order they were sent, from one
unbounded inbox (`app/input.rs`) and handles each to its end. Everything slow is
a task in a `TaskGroup` (`app/task_group.rs`) that reports by sending an event
back. Nothing else is shared: the hard behaviours are events that arrive in a
state that has moved on, handlers that await while tasks go on, and effects on
the disk, in the keyring and on the homeserver that outlive the task that asked
for them, or the process.

| Component | State | Operations | Hard behaviour | What makes it correct |
|---|---|---|---|---|
| **Login transaction** (`adapters/matrix/journal.rs`, `store.rs`, `app/establish.rs`, `recover.rs`, `conclude.rs`, `credentials.rs`) | the journal file of each login, store directories, the staging entry in the keyring | adopt, install, stage, record, commit, roll back, recover, sweep | crashes between and inside effects; every effect may fail; undoing may fail and is retried at the next start | a login happened or did not; what it displaced is kept while it can be undone; a start is not blocked for ever |
| **Session lifecycle** (`app/lifecycle.rs`, `service/sign_in.rs`, `service/session_end.rs`, `service/syncing.rs`, `app/session.rs`) | phase, attempt, session number, held session, tasks | restore, sign in, cancel, re-authenticate, suspend, expire, log out, quit | answers of superseded attempts, losses that name no session, handlers that await, tasks that are aborted | an answer acts only on what it answers; every phase that waits ends; nobody is signed out unasked |
| **Session token persister** (`app/session.rs`) | tokens not saved yet, retry delay | save the newest, retry, flush | newer tokens while a save fails; a save still under way at a sign-out | tokens never go back; they are saved in the end; an erased session stays erased |
| **Secure storage** (`adapters/storage.rs`, `private_fs.rs`) | keyring entries, the lane of calls, private files | get, set, delete; durable write | a call goes on after its caller was aborted; a write that fails after it took effect | calls take effect in order |
| **Sign-in and restore adapter** (`adapters/matrix/mod.rs`, `auth.rs`, `session.rs`) | prepared login, open client | discover, adopt, restore, log out | a store that does not open | see the login transaction |
| **Call media keys** (`domain/call/keys.rs`, `adapters/matrix/rtc/keys.rs`) | our key and index, keys of members, a delayed switch | rotate, distribute, accept | keys that overtake memberships, an index that wraps at 256, two rotations within the delay, a timer set for a switch that was replaced | a member that left cannot decrypt after the switch; a member that stays can; no key that arrived is lost or undone by an older one |
| **Call membership lane** (`app/calls/lane.rs`, `adapters/matrix/rtc/delayed.rs`) | membership event, the delayed leave on the homeserver | join, keep alive, rejoin, leave | the delayed leave fires while it is being restarted; a request whose caller was dropped may still land; the next call of the room shares the state key | one that left leaves no membership behind; one in the call becomes a member again |
| **Calls** (`app/calls.rs`, `app/calls/`) | preparing, ringing, joining, joined | start, answer, decline, hang up, move to another room | every stage awaits the others' answers | one call at a time; what was prepared is released |
| **Media of a call** (`app/calls/joined.rs`, `app/calls/media.rs`, `adapters/livekit/`, `domain/call/sfu.rs`) | the link of each media server, what is shown of the user's own microphone, camera and screen; grants under way; the connections and devices of the media session | plan, ask a grant, connect, disconnect, switch devices, share, close | orders and reports cross in two channels; a grant, a connection, a device or the desktop's dialog answers after the user changed their mind | nothing stays connected or on that is not wanted; what is shown is so |
| **Submissions and send lanes** (`app/submissions.rs`, `send_lanes.rs`) | drafts handed in, one lane per room | submit, settle, offer back | a refusal that arrives when another room is shown | messages of a room keep their order; no draft is lost |
| **Attachments** (`app/attachments.rs`) | one picked attachment | pick, adopt, drop, send, give up | a picker that answers late; a draft that is cleared while it is sent | the attachment is sent to the room it was picked for; its files stay while they are read |
| **Active timeline** (`app/active_timeline.rs`, `adapters/matrix/timeline/`) | generation, focus, read position, new messages, a receipt held back | open, refocus, page, scroll, mark read, close | updates of an earlier generation, also of one with the same number in an earlier session; a read position that is not known yet | what is shown is of the room selected; only what was seen is marked read, and all of it |
| **Room directory, navigation, space order** (`app/room_directory.rs`, `selection.rs`, `space_order.rs`) | rooms as sync reports them, selection, optimistic order | update, select, move, revert | a failed write after a later move | a revert only undoes its own move |
| **Verification** (`app/verification.rs`) | one flow | request, accept, confirm, cancel | both sides act at once; the session ends | one flow at a time, of this session |
| **Encryption set-up**, **account and interactive auth**, **room actions**, **presence and typing**, **notifications**, **media viewers** | a request number, a form, a timer | one request each | late answers | a late answer is dropped by its number |
| **Instance lock and hand-off**, **user interface**, **demo adapter** | a file lock, the view | — | — | external to the protocol, see section 8 |

Interactions that matter: the service calls the login transaction when a sign-in
succeeds and undoes it when the user no longer waits for it; the sync task tells
the service that the homeserver has ended the session; the persister, the
sign-in tasks, the restore and the erasure all write the one saved session,
through one lane; a logout passes the account's check first; the end of a
session tears down every other component and waits for its tasks. A call hands
its list of members and its lane's first report to the key exchange; sending in
a room may open another window of its timeline; opening a room decides which
refused message is offered and whether the attachment draft stays.

## 2. Plan

In order of how much depends on them.

1. **LoginTransaction**, with its abstract specification **AtomicLogin** and the
   refinement **LoginAtomicity**; proofs in **LoginTransaction_proofs** and
   **LoginAtomicity_proofs**. Done.
2. **SessionLifecycle**: the service loop, the tasks it starts, the persister and
   the keyring lane; proofs in **SessionLifecycle_proofs**. Done.
3. **KeyExchange** (`domain/call/keys.rs`); proofs in **KeyExchange_proofs**. Done.
4. **CallLane** (`app/calls/lane.rs`) against a homeserver; proofs in
   **CallLane_proofs**. Done.
5. **RoomTimeline** and **RoomMessages**: the open room, what is sent in it, and
   the composition of both; proofs in **RoomMessages_proofs**. Done.
6. **CallMedia**: the media servers of a call and the user's own devices
   (`app/calls/joined.rs`, `app/calls/media.rs`, `adapters/livekit/`); proofs in
   **CallMedia_proofs**. Done.
7. Left: **SpaceOrder** (an optimistic order and its revert), **Verification**
   (one flow at a time), older-page pagination in RoomTimeline, and CallMedia
   composed with CallLane and KeyExchange.

Every safety and action property of a passing run is proved; liveness is not
(section 7). No module that is proved about declares a RECURSIVE operator, and
every bound is a constant with a named assumption.

## 3. Modules

### LoginTransaction

State: the journal (stage and whether credentials were staged), the store
directory of each account (`target`), the store a login displaced (`aside`,
`backup-<txn>`) and the one it was made in (`pending`), the keyring's saved
session, store keys and the one staging entry (`superseded`), and of the process
its next step (`pc`), on whose behalf it runs (`mode`: adopt, abandon, record,
roll back, commit, recover, erase), the record in memory and what it read.

Each effect on disk or keyring is an action: it succeeds, fails (`Fault(kind)`
for journal writes, a directory sync after the rename, moves, purges, keyring
calls), or the process dies before or inside it (`Crash`, `CrashMidPurge`).
Signing in is `BeginLogin` … `SettleLogin`; `RollingBack`, `RestoreSession`,
`RestoreKey` and `Unwind` … `PutBack` undo it; `ClearSlot`, `Forget`,
`PurgeAside`, `AdvanceCommitted` conclude it; `Start`, `Resolve`, `Plan`,
`Recovered` are recovery; `RestoreSaved` and the erasing of a logout are what
the program does with the result. `Persist` has three outcomes, because
`write_durably` renames first and syncs the directory after: the record can be
on the disk while the caller is told it is not.

A login stands for its transaction, session, key and store at once, so that a
session, a key and a store fit together exactly when they are the same login.

### AtomicLogin, LoginAtomicity

`AtomicLogin` is what signing in promises: `saved`, the login the next start
restores, changes in one step, and may be given back until the process that
signed in has taken it. `LoginAtomicity` maps the concrete state to it:
`saved` is the login whose session, key and store would be in place once the
journals that must be undone are undone (`RestorableWithout`).

### SessionLifecycle

State: `phase`, `attempt`, `session` (Lifecycle), `held` (HeldSession), the
OAuth cancel token, whether a login store was prepared, the account's logout
check and warning; the inbox and where in a handler the loop is; the tasks as
sets of records (`signIns`, `restores`, `erasures`, `syncs`, `persisters`,
`checks`); the keyring lane and the saved session.

A handler that does not await is one action. One that awaits is two: the loop's
`serving` says what it waits for and tasks move in between. So are
`tear_down_session` (`WindDown`, then `WoundDown` when every task has ended or
`AbortStragglers` has aborted it) and the undoing of a superseded login
(`UndoSupersededLogin`, then `LoginUndone`). `RefuseCommand` is `command_allowed`
saying no. A task that awaits the keyring puts a call in `lane`; `RunCall` runs
the first one and wakes whoever still waits. An aborted task leaves its call
there, as a `oneshot` whose receiver is gone does.

The login itself is one write of the saved session and its undoing; its inside
is `LoginTransaction`. Two parts of the state are history that no handler reads:
the field `s` of a message, the session it is about, and the variables
`dismissed` and `gone`, the attempts cancelled and the devices erased.

### KeyExchange

State: `own`, `switch`, `holders`, `newest`, `queued` are the fields of
`KeyExchange`; `slots` and `inUse` what its commands leave in the media engine;
`joined`, `seen`, `wakes` of the call: whether its membership is sent, the list
of members it knows, the timers set for the switch. `ExchangeMembers` is
`members_changed`, run by `LaneJoined` and `MembersChanged`; `Receive` is
`received` in its three cases; `KeyWake` is `tick`. A holder is a member with the
session it is in, as a `KeyHolder` is one with the time it joined, so a member
that left and came back between two lists is another holder. A timer that ran out
may be handled any time later, and a rotation that replaces a switch leaves the
timer of the earlier one running. `audience` and `due` are history: the holders
the newest key went to, and the key that arrived last for each slot.

### CallLane

One lane per call of one room, a record whose `step` is where its task is:
scheduling the delayed leave, joining, waiting to retry, keeping, restarting,
rescheduling, rejoining, resending, refreshing, retelling, leaving through the
delayed leave or by clearing. A step that asks the homeserver puts a request in
`requests`; `Process` handles it, which the lane hears in its next step.
`RequestFails` and `AnswerLost` are the faults, `Fire` is a delayed leave that
was not restarted in time. A lane that drops a call to the homeserver (the order
to leave while joining, a stop of the session) leaves its request behind. The
calls of the room follow each other (`Join`, `LeaveCall`, `LaneEvent`,
`StopSession`, `ClearStale`) and share one state key. The time since the delayed
leave last ran (`last_good`) is `age`. `spoiled` is history: the calls a request
of which failed or was dropped.

### CallMedia

The app and the media session are two tasks with a channel each way: `commands`
(`MediaCommand`) and `events` (`MediaEvent`, which `forward_media` puts in the
inbox). Of the app: `links`, what is shown (`mic`, `camera`, `screen`), the
`grants` under way. Of the session: `wants` (`MediaWants`), `dialling` and
`conns`, the microphone's `track` and whether it takes sound, the camera's
`capture`, the `share`. `MembersChanged` is `members_changed` with `replan`,
`Granted` and `GrantRefused` are `granted`, the four `…Reported` actions
`media_event`, each command of the user an action. `Connect` … `SwitchScreen` are
`apply` with what the session does for it; the loop of `drive` prefers orders, so
what else it polls waits for `Idle`. The pump of a connection, the camera, the
screen share and the check of the desktop are tasks of their own that report at
any time. Until `Open` the call waits for the turn of the one before. Ending the
call (`EndCall`: `end_call` or `fail`) drops the orders that wait; the session
then closes what it holds (`Close`).

`hasty` is history: a server that is asked for again before the grant, the
connection or the reports of its link before are done with. `Budgets` are
scenarios: how often each kind of move is made.

### RoomTimeline, RoomMessages

`RoomTimeline` has the state and the steps of the open room: `window` is
`ActiveTimeline`, `selected` and `generation` the selection, `subs` the
subscriptions still running, those of replaced windows included, and the inbox
of the app they report through. `Says` is what a subscription may say of the read
position, in order; `Advance` is `settle_read_position`, `SettleUpdate` adds
`complete_pagination`. A `serial` beside the generation, which starts over with
every session, is history.

`RoomMessages` extends it with what is sent and gives the next-state relation.
`held`, `issued`, `unsent` are `Submissions` and what the view offers of it;
`tasks` and `tails` are `SendLanes`: each task waits for the one ahead of it;
`draft`, `picks`, `attempts`, `picking` are `Attachments` with the file dialogs
still open. A command is one action with every call it makes, so `SendMessage`
also opens the live window when the open one is not live (`ReturnToLive`), and
`SelectRoom` offers the refused message of the room and drops the draft of
another. `Handle` takes the first input: what a task, a dialog, a subscription or
a sign-in reports. The end of a session clears what it holds (`EndSession`),
waits for the tasks or aborts them (`AbortTasks`), then forgets the windows
(`SessionEnded`); the inbox is not cleared, so what was in it is handled after.
`SignIn` stands for the whole of a sign-in, of which there is one at a time
(`OneSignInAtATime` of SessionLifecycle), so it reports none while one is reported.
Commands are handled at once instead of through the inbox, with any room: that
includes every order in which they could be handled. `released`, `enqueued` and
`owed` are history.

### Queues, and the modules of proofs

`Queues` has what several modules say of a list: what is kept of it (`Retain`) and
what stands in it. `Queues_proofs` states the facts about it that the proofs
about inboxes and channels share: what is taken from a queue, added or dropped
changes what stands in it, how often and behind what. The other `_proofs` modules
extend the module they are named after; what each proves is in section 7.

## 4. Runs

| Run | Question | Result |
|---|---|---|
| `LoginTransaction` | Does a login that can be undone keep what it displaced, and does dying alone ever leave a login unresolved? | holds |
| `LoginAtomicity` | Is signing in one step as seen by the next start? | holds when a failed write left nothing on the disk and nobody signs in past an open journal |
| `LoginRetry` | Is a start that could not resolve a login followed, in the end, by one that can? | holds for journal, sync, move and keyring failures |
| `LoginWedged` | The same with one failing purge. | violated, finding 1 |
| `LoginSyncFails` | Does a saved session keep its store when one directory sync fails and the process dies once? | violated, finding 2 |
| `LoginPastJournal` | Does it, when the user signs in again in a process that left a login for the next start? | violated, finding 3 |
| `SessionLifecycle` | Do attempts, sessions, losses, logouts and late writes ever mix? Does any phase wait for an event that never comes, and is a refreshed token saved in the end? | they do not; none waits; it is saved |
| `KeyExchange` | Is media ever sent under a key that a member lacks or somebody else has, and is a key of a member ever lost? | no, and no |
| `CallLane` | Does a call that goes on become a member again whatever fails, does one that ended leave something behind, does every lane end? | it does; only what failed or was dropped may stay; every lane ends |
| `CallRejoin` | Can the call before end the next one of the room, or be taken for it? | not for good; never |
| `RoomMessages` | Do sends keep their order, are refusals, drafts and files kept, is what was seen to the end marked read? | holds |
| `CallMedia` | Does the call stay connected to a server, or a device on, that is not wanted any more, and does the interface show a device or a link as what it is not? | neither, but for a server asked for again in haste |

Properties of `SessionLifecycle`: `OneSignInAtATime` (while the app
authenticates exactly one task or verdict is under way, of that attempt; this is
why an event that names no attempt, and a cancel token taken by any verdict, do
no harm), `HeldAsThePhaseSays`, `GoneStaysGone` and `TokensNeverGoBack` (an
erased session does not come back and tokens are not overwritten by older ones,
although aborted tasks leave writes behind: the lane's order sees to it),
`LossEndsItsOwnSession` (a loss names no session; a stale one finds the phase
changed, because the group that sends it is drained before the phase can be
Syncing again and the inbox is in order), `RunsAsTheUserAsked` (no logout that was
not asked for, and no session of a sign-in that was cancelled); and over fair
behaviours `SignInSettles`, `LogoutEnds`, `TokensAreSaved`.

Properties of `KeyExchange`: `NewestKeyReachesMembersOnly` and
`MediaIsForMembersOnly` (who has the newest key, and when that is the one in
use), `NewKeyIsUsed` (a switch that another replaced leaves a timer that still
serves it; that there is always one in time is `SwitchIsWoken`, which is proved),
`KeyInUseStays` (the index wraps), `LastArrivalIsKept` and `SlotsNeverGoBack` (keys
of others in any order, and none that waits for a member who is listed).

Properties of `CallLane`: `LeavesNothingBehind`, `OrderedLanesEnd`,
`EventsAreOfTheirCall` and `CallComesBack`, whose strength is that nothing is
asked of the order in which the homeserver processes the requests of two lanes.

Properties of `RoomMessages`: `EnqueuedInOrder`, `NothingSentIsForgotten`,
`RefusedIsOffered`, `DraftIsOfTheRoomShown`, `KeptWhileNeeded`, `BottomIsRead`,
`UpdatesAreOfTheirWindow`: the last holds across sessions only because the
subscriptions have ended before the generation starts over and the inbox is in
order behind them.

Properties of `CallMedia`: `ConnectionsAreWanted` (a grant or a connection that
comes after the last member who used the server went: the order to disconnect is
behind the order to connect, and a grant for a link that is gone is dropped),
`OffIsOff` (a device that is shown off captures nothing, and a connection that
comes later does not start it: the driver keeps what is wanted, and a camera that
failed is switched off so that its wish does not stay), `ShownIsSo` (what is shown to
be on is on and what is shown to be under way is: a report that a device is on,
sent before the user's last order, is not taken for its answer).

Every property is also run against a mutant of the code's model that breaks it
(`PROJECT.json`, "mutants"; the mutated forms stand beside the definitions).

### Findings

1. **One failed purge blocks signing in for good** (`adapters/matrix/store.rs:227`).
   Unwinding advances the journal to `Prepared` although the purge of the target
   failed; from `Prepared` the target is never purged again and putting the old
   store back fails at every start. The log promises a retry
   (`app/recover.rs:257`).
2. **A failed directory sync can cost a store** (`adapters/private_fs.rs:124`).
   The record is on the disk, the caller believes it is not, undoes the login in
   the keyring and does not move the journal back; a crash then makes the next
   start roll it forward and purge the store of the session that stays saved.
3. **Signing in past a login left for the next start** (`adapters/matrix/store.rs:202`).
   The failure reaches the user as a plain rejection; a second sign-in on the
   account installs a store that the next start purges for the first one.

### Observed, and not a finding

Behaviour of the models that a reader of the code may want to know of; no text
of the repository says that it should be otherwise, so no run is made of it.

- Old stores are swept once in a process, at its first sign-in or restore
  (`adapters/matrix/mod.rs:90`), when recovery has left no login to undo. The
  model has the sweep (`Sweepable`), but no property depends on which stores it
  spares, so none is claimed of it.
- A restart that is answered with "gone" before `LEAVE_DELAY` is over schedules
  another leave but does not send the membership again (`app/calls/lane.rs:178`);
  if the leave did fire, the device is no member until the next refresh.
- A membership whose sending was dropped by the order to leave may be processed
  after the leave (`app/calls/lane.rs:139`) and stays until it expires.
- An answer to a scheduling that is lost (`app/calls/lane.rs:123`), or a restart
  whose answer is lost once the delay is over, leaves an earlier leave armed: it
  fires on the running call, which comes back with the next refresh. A farewell
  or a clearing of stale memberships (`app/calls/joining.rs:131`) that lands after
  the next call joined does the same.
- While members keep leaving within `KEY_SWITCH_DELAY` of each other the switch is
  replaced again and again: media stays under a key that those who left hold, and
  after 255 rotations the index comes back to the one in use. The properties bound
  this churn (`MaxChurn`).
- A key that could not be sent to a device is reported (`keys_sent`,
  `app/calls/in_call.rs:627`) and not sent again.
- An attachment whose room is left while it is being sent is neither kept as the
  draft nor released when the send ends (`app/attachments.rs:229`): its files stay
  until the session's directory goes.
- When the open room leaves the directory the attachment draft stays
  (`drop_selected_room`), without a room it could be sent in.

- A media server that is dropped and asked for again, or retried, before its grant,
  connection or reports are done (`app/calls/joined.rs:551`): a report of the
  connection before is taken for the new link's, which may be shown failed while
  it connects; a second grant finds a connection and nothing is reported
  (`adapters/livekit/session.rs:471`), so the link may be shown connecting for as
  long as it is up. `ShownIsSo` leaves such a server out until its next link.
- When the default microphone fails while it is live, "Your microphone did not
  start" is shown (`adapters/livekit/session.rs:361`). A microphone that is
  plugged in later is started by the next check of devices, with no report: it is
  heard while it is still shown as failed. The same follows from a recording that
  starts after the device was reported to have failed in one switch.
- A share that the desktop ends just when the user asks to change it reports Off
  while the desktop's dialog for the next is open (`app/calls/joined.rs:863`): the
  share that is then chosen is shown as off, and switching it off has no effect
  (`set_screen_share`). The answer that the desktop cannot share, when it comes
  late, does the same to a share that runs.
- What is reported of members (present, muted, speaking, a video) is taken also for
  a server whose link is gone (`app/calls/joined.rs:711`); it is forgotten when the
  server is dropped the next time. Not modelled.

## 5. Bounds

`LoginTransaction`: three logins, two of one account and one of another, are
enough for a saved login, a second that displaces it and a third that meets what
the second left, or one on another account that needs the one staging entry. Two
faults allow one in the login and one in its undoing or in recovery; two crashes
allow one in the login and one in the recovery. The violating runs use the
smallest environment that shows the finding.

`SessionLifecycle`: `MaxTyped` 4 commands reach, for example, a sign-in, its
cancellation, a second sign-in and a logout, or a restore, a logout with its
confirmation and the next sign-in. `MaxWaiting` 1 bounds only how many commands may
be waiting when the user adds one; events are not counted, so a command can
arrive before, between and behind them. `MaxTokens` 2 gives the saved device a
refresh, or a second device its first tokens. `MaxFaults` 1 keyring failure. The counters
`attempt`, `session` and `request` saturate at 2^64 in the code; here the
commands bound them.

`KeyExchange`: two others, each of whom joins twice, so that one can come back
while the other leaves; three indexes and four keys, so that the index wraps with
a switch pending, which takes `MaxChurn` 2; a switch delay of 2 and an age limit
of 3 ticks, so that a rotation can replace a switch half way and a key can be
young or old after its switch; three keys of others, for a newer, an older and
one of the other member behind a queue of one.

`CallLane`: two delayed leaves, for one lane can leave one armed and hold
another; a delay of one tick, as only "not yet", "now" and "over" matter; two
faults, one in a restart and one in what repairs it. `CallRejoin` has two calls
and one leave, so that the second call may get none.

`RoomMessages`: two rooms, which are interchangeable (`RoomSymmetry`; none of the
properties is a liveness property); three windows, so that a replaced one and one
of the session before can be in the inbox of the third; two picks, one of which
is replaced; four commands and updates. Every mutant of section 4 shows within
these. `MaxInbox` bounds only when a subscription may speak.

`CallMedia`: the user's own server and one that others use; two servers of others
differ in nothing and share nothing but the channels. Five scenarios, each of which
moves what can meet in one hazard: three changes of members with two faults, which
is a server used, dropped and used again; two orders each to the microphone and
the camera, from either start; three to the microphone with two faults of devices
or connections; three to the camera with one; four to the screen share with one
late refusal, which is a share, its change, its end and the next. Grants,
connections and the devices' answers are not bounded.

Deadlock is not checked: the program stops by `Quit`, and a behaviour ends when
the environment's budget is spent.

## 6. Fairness

`LoginTransaction`'s `FairSpec`: the process takes its next step unless it dies,
and a user whom a start has blocked starts the program again.

`SessionLifecycle`'s `FairSpec`: weak fairness of the loop, of aborting
stragglers and of each kind of task. The runtime polls what is ready. A task
that waits for the homeserver or a browser gets an answer or a timeout answers
for it: a browser sign-in five minutes (`OAUTH_CALLBACK_TIMEOUT`), a logout a
fixed budget, a drain three seconds (`SHUTDOWN_GRACE`), a request the SDK's own
limit. The keyring is assumed to answer, well or not: a keyring call that never
returns stops the lane and everything behind it, in the code as in the model. No
fairness is given to the user, to the refreshing of tokens or to the sync. The
number of keyring failures is bounded, which is what "in the end" in
`TokensAreSaved` rests on.

`KeyExchange`'s `FairSpec`: time passes and the events of timers are handled.
Nothing is asked of members, or of when a key arrives.

`CallLane`'s `FairSpec`: weak fairness of each lane's step and of the
homeserver's answer to each call: a request has a timeout, and a fault is an
answer too. Strong fairness of hearing the order to leave and of the refresh:
both are branches of a `select!` in a loop whose other branch, the restart, is
ready again and again, and `select!` begins with a random one of those that are
ready. The number of faults is bounded; nothing is asked of how fast time passes,
so a delayed leave may fire at any time it could.

`CallMedia` has no liveness property: a grant, a connection, a device or the
desktop's dialog may take any time, and that what is shown as under way is under
way is the invariant `ShownIsSo`.

`RoomMessages` has no liveness property: whether an enqueue or a dialog ends is
the SDK's and the user's affair, and that nothing waits on something that is gone
is the invariant `NothingSentIsForgotten`.

## 7. Proofs

`LoginTransaction_proofs` proves, for any logins, accounts, failures and crashes,
from `ConstantsAssumption` alone:

- `TypeCorrect`: `Spec => []TypeOK`. `TypeOK` is not inductive: most steps work
  on `txn` and need it to be a login (`AtHand`), and the steps shared by signing
  in, undoing, settling and recovery continue by `mode` (`ModesFit`).
- `DisplacedCredentialsKept`: `Spec => []StagedCredentialsKept`, with
  `SignInPastOpenJournal` either way. There is one staging entry and there may be
  several open journals; what keeps them apart is the strengthening `KeepInv`:
  a login that is not recorded as complete yet is in a stage that would
  be undone (`UndoAhead`), a login at hand
  that has not staged yet is not marked staged (`NotYetStaged`), the entry is the login's own from
  staging to the end (`SlotOurs`), a login that awaits its user is recorded
  (`AwaitWritten`), at most the login at hand can newly need the entry
  (`Burdens`), and by the time the entry is cleared the journal is terminal
  (`Concluded`). One lemma per group of actions shows that it is preserved;
  `PersistEffect`, `AdvanceEffect`, `MovesEffect` and `PurgeEffect` say once what
  the helpers do.
- `DyingIsResolved`: `Spec => []CrashAloneIsResolved`. A process may die at any
  step, so what it left must be described without its memory. `CleanInv`, which holds
  while no operation failed, says that at most one login is not over: the one at hand
  (`AtWork`), none of them while the user is served (`AtRest`), and after a death the
  one the disk shows (`LeftOver`). `Fits` ties the disk, the keyring and the record to
  the step of the login at hand; its part `HasRoom` is why recovery does not fail by
  itself: as long as the journal says `Prepared` and a store is held aside, the place
  it came from is empty. `TriedInv` says that nothing on the disk belongs to a login
  still to be made. That `credential_plan` never gives up is `KeepInv`. `QuietPersist`,
  `QuietAdvance`, `QuietMove` and `QuietPurge` say what the helpers do when nothing
  fails, `WorkGoesOn` and `WorkEnds` what a step must show of its own part.

`LoginAtomicity_proofs` proves the refinement, `SigningInIsAtomic`: `Plain => (Spec =>
LoginIsAtomic)`, for any logins, accounts, failures and crashes. `Plain` says that a
reported failure of a journal write left nothing on the disk and that nobody signs in
past an open journal. The theorem needs both halves: with either dropped (`"sync"` among
the `FaultKinds`, or `SignInPastOpenJournal` true) TLC finds `LoginIsAtomic` violated;
the runs `LoginSyncFails` and `LoginPastJournal` show in the same two environments what
becomes of the store of the session served. Moves, purges, keyring calls and
journal writes may fail as often as they like, and the process may die at any step.

- What `saved` maps to depends on a whole disk. `RestorableValue` and `SavedValue` say
  what that comes to: with at most one login to undo (`OneToUndo`), it is what the
  session, the keys and the stores restore together (`Restored3`), as they are
  (`AsItIs`) or once that login is undone (`GivenBack`). `SavedIs(s)` is this value.
- `AtomInv` is the inductive invariant, checked by TLC on a run of its own before. Its
  parts say, at every step of the login at hand and whatever has failed: which stages
  its journal may show (`RecordFits`), what the store directories hold (`StoresFit`),
  whose the staging entry is (`SlotFits`), that what the process holds to give back is
  what the entry or the keyring has (`HeldFits`), and that a report without a failure
  means that everything is back (`GivenBackFits`). The last is why a journal may be
  marked as rolled back; `SlotFits` is why a stage that goes back from
  `NewStoreInstalled` to `Prepared`, though the store of the login may still be there,
  restores nothing new: the session to be given back is not the login's own.
- One lemma for each group of steps (`AdoptingFits`, `RecordingFits`, `WrittenFits`,
  `RollingBackFits`, `RestoringFits`, `UnwindingFits`, `ConcludingFits`,
  `StartingFits`, `ErasingFits`, `StoppingFits`) shows that it keeps the invariant and
  the value, except that `AdvanceWritten` makes it the new login, `RollingBack` the old
  one again, and the steps of a logout nobody.
- `StepIsAtomic` reads this as steps of AtomicLogin: `AdvanceWritten` is `Establish`,
  `SettleLogin` and a death while the login could be taken back are `Confirm`,
  `RollingBack` is `Undo`, or `Confirm` when it fails, each way out of making a login
  is `GiveUp`, and nothing else is seen but the beginning, the logout and what it
  erases.

`KeyExchange_proofs` proves, from `ParametersAssumption`, for any number of
members, keys and indexes:

- `NewestKeyIsForMembers`, `MediaIsForMembers`, `SwitchesAreWoken`, `KeyInUseIsKept`.
  None of them is inductive. `KeyInv` joins three parts: `OwnInv` says which key
  each index holds, as a function of the newest index and key alone (`KeyAt`), and
  that a pending switch is to the newest index; `MemberInv` that the audience is
  the holders and, in a joined call, the list; `WakeInv` that a pending switch has
  a timer in time. `NextIsFree` is the arithmetic: with fewer keys made while a
  switch is pending than there are indexes (`MaxChurn < IndexSpan`; the code has
  256 indexes and one second) the next index is not the one in use. `RotateKeeps` and
  `ExchangeKeeps` carry it through the operations, `StepKeyInv` has one step per
  action.

`KeyExchange_proofs` also proves `TypesAreKept` and, of the keys of others,
`LastArrivalsAreKept` (`LastArrivalIsKept`) and `SlotsGoForward`
(`SlotsNeverGoBack`), for any limit of the queue. `ReceivedInv` adds to the property
that no two keys that wait are for one slot (`OnePerSlot`): a list of members takes
out of the queue all that it names, and only then is what it installs for a slot the
one that waited for it.

`SessionLifecycle_proofs` proves every safety property of the run, for any number of
commands, tokens and failures of the keyring. The handlers differ in what they say
and agree in what they do to the inbox, the tasks and the phase, so lemmas say once
what each command and event leaves of each, and the invariants stand on those, in
layers:

- `TypeCorrect` (`TypeInv`): an attempt is begun by a command, so there are no more
  than commands, those that wait included.
- `SignInsAreOneByOne` (`OneSignInAtATime`) and `HeldIsAsThePhaseSays`
  (`HeldAsThePhaseSays`), from `PhaseInv`: while the loop authenticates there is the
  task, or its verdict in the inbox, or the undoing of its login, and exactly one of
  the three (`OneAuth`), of the attempt and in a phase of its kind (`AuthInv`); the
  same for restores (`RestoreInv`) and erasures (`ErasureInv`). `ServingInv` carries
  it over the handlers that wait, between whose halves the phase says less.
- `LossesEndTheirOwnSession` (`LossEndsItsOwnSession`), from `LossInv`: a loss is
  reported once, by the sync of the session or after it ended, and none comes behind
  the report of an erasure, so none outlives the session.
- `SessionsRunAsAsked` (`RunsAsTheUserAsked`), from `AskedInv`: the attempt at hand
  was not cancelled, and an answer of the logout's check that has the number of the
  request at hand is about the session that runs.
- `GoneIsNeverSaved` (`GoneStaysGone`) and `TokensOnlyGoForward` (`TokensNeverGoBack`),
  from `LaneInv` and `CredInv`. `LaneInv` says that the lane holds at most a save of
  a persister and, behind it, the call of one other task, told by the stage of that
  task: a persister is the only task that another follows before its call is done.
  `CredInv` says of every credential that can still be written or handed on, by a
  call, a task or a message, that its device is not gone and that it is not older
  than the saved session (`Newer`), and of the second call that it is not older
  than the first. What the undoing of a login puts back is older, and another
  device's (`LoginCreds`, `MessageCreds`). That a device that goes is nobody's any
  more, in the lane or in a task, is `GoneIsNobodys`.

`CallLane_proofs` proves, for any number of calls, leaves, faults and stops:
`TypeCorrect`, `EndedCallsLeaveNothing` (`LeavesNothingBehind`) and
`EventsStayWithTheirCall` (`EventsAreOfTheirCall`). The steps of a lane have much in
common: `Shape` says what, `StepShape` that each has it, and every layer is kept by
`Shape` and the few actions that are no step of a lane. `RequestInv` says that a call
without a fault has no request under way but the one its lane waits for, and is no
member once its farewell was answered; `FateInv` that a lane joins or gives up once,
and that its events, and what Calls shows, agree with which.

`CallMedia_proofs` proves, for any servers and budgets: `TypeCorrect`;
`OnlyWantedConnections` (`ConnectionsAreWanted`) from `ServersAreCut`: a server
without a link is `Cut`, that is, an order to disconnect it waits with no order to
connect behind it, or no order to connect waits and it is neither dialled nor
connected; and `OffMeansOff` (`OffIsOff`) from `DevicesStayOff`, the same of a device
shown off: the last order that waits for it switches it off, or none that waits
switches it on and it is off and not wanted (`MicOff`, `CamOff`). An order to connect
that waits behind one to disconnect is told from the reverse by `Ends`, and
`EndsBehindOne` says what another order behind the queue does to it.

It also proves `WhatIsShownIsSo` (`ShownIsSo`), which alone says nothing of the states
between: orders and reports cross, and a report on its way may answer an order that
was followed by another since. `ShownAsReported` is the invariant of every state of a
joined call, that what is shown is so or that something which makes it so is on its way
(TLC checked it on the run's scenarios before). Its parts:

- `OwnInv`: the user's own server keeps its link and no order to disconnect it waits.
  From this, `PublishingStays`: whoever publishes goes on until the call is over.
- `ScreenInv`: a share that is shown, or awaited, has its end on the way to the app, or
  the last order that waits begins it (`ComesLast`), or it is there and no order that
  waits ends it (`NotOff`). An end that is read late therefore ends what is shown only
  when nothing is left to show.
- `SoundInv` (`TrackInv`, `SpeaksInv`) and `PictureInv` (`TakenInv`, `SeesInv`): the
  same of the microphone and the camera, with a third way to be so, that the device
  waits for a connection that is not there (`wants`). `TrackInv` is why a microphone
  that was published once may be shown on before it says so; `TakenInv` needs
  `DeviceInv`, because a camera that captures when it is ordered on does not say so
  again.
- `LinksInv`: a link is of one of three ages, `Asked` (one grant on its way), `Granting`
  (one order to connect waits, none to disconnect behind it) and `Linked` (what was
  told of the connection last is how it is); in the first two nothing but an order to
  disconnect is left of the link before (`Gone`). It says nothing of the servers of
  `hasty`, of which several ages can be at hand at once.

One lemma for the steps of the user and the app, and one for those of the session and
its surroundings, keeps each part (`ScreenStep` does both); the `QueuesOf` lemmas say
once of every action which kinds of orders and reports it adds or takes.

`RoomMessages_proofs` proves every safety property of the run, for any rooms, sends,
dialogs, windows and sessions:

- `SentInOrder` (`EnqueuedInOrder`). That nothing was enqueued past a waiting send
  is kept only because a send whose turn it is has nothing of its room before it,
  although it waits for one task alone. `LaneInv` says why: the task it waits for
  is, while anything before it runs, the last of that (`Chained`), and so is the
  tail of the lane (`TailInv`), except at the end of a session, where the tails are
  dropped before the tasks but nothing is sent. Tasks that fail or are aborted out
  of turn are covered: `AbortTasks` takes them all.
- `AttachmentStaysInItsRoom` (`DraftIsOfTheRoomShown`), with the window being of the
  selected room (`DraftInv`): returning to the live end reopens a room, and only
  this says that it is the selected one.
- `TypeCorrect` (`TypeInv`): numbers are given out once and counted by the inputs,
  what is on its way names what was numbered, and the messages held are in the order
  of their numbers.
- `NothingIsLeftUnread` (`BottomIsRead`), which is inductive with the types.
- `UpdatesStayWithTheirWindow` (`UpdatesAreOfTheirWindow`), from `WindowInv`: of one
  session, a room and a generation are one window's (`OfWindow`); out of a session
  no subscription speaks, and behind the report of the next sign-in there is no
  update of the session before (`NoneBehind`).
- `RefusedAreOffered` (`RefusedIsOffered`), from `OnceInv` (the outcome of a message
  comes once, and not while a task has it) and `OwedInv` (what is owed is what is
  refused of the messages held, and an outcome that is on its way is of one that
  waits for it).
- `SentIsNotForgotten` (`NothingSentIsForgotten`), from `SentInv`, `OutInv` and
  `DraftSentInv`: what is shown as being sent is with a task that was not told to
  give up, or its outcome is on its way.
- `FilesAreKept` (`KeptWhileNeeded`), from `FilesInv`: what a dialog picked is
  nobody's until it is adopted, and a send that needs the files of the draft is the
  one the draft waits for; with `PicksInv` and `SendsInv`, that dialogs and sends
  report once and under numbers of their own.

`Queues_proofs` proves what these proofs need of queues: that `Retain` keeps exactly
what is in the set, in its order (`RetainFacts`), and what an append, a removal from
the front or a `Retain` does to what a queue holds (`Elements`), how much of a kind
(`Count`) and what stands behind what (`NoneBehind`). The facts about `Retain`
need an induction. The library's induction theorems take an operator as a parameter,
so `Induction` is stated over a set of numbers, from finite sets being well-founded
by inclusion.

The proofs rest on the named assumptions of the modules alone: `ConstantsAssumption`,
`FinalAssumption`, `BoundsAssumption`, `RoomsAssumption`, `MessagesAssumption`,
`ServersAssumption`, `BudgetsAssumption` and the two `ParametersAssumption`. They say of
the constants what kind they are, and of two modules more: `KeyExchange` makes fewer keys
while a switch is pending than there are indexes, and `CallLane` has at least one intent
that a call can be joined with.

Model-checked only:

- Liveness, which is outside the prover's reach under fairness:
  `BlockedUntilRetried`, `SignInSettles`, `LogoutEnds`, `TokensAreSaved`,
  `NewKeyIsUsed`, `CallComesBack`, `OrderedLanesEnd`.
- That the three runs which expect a violation find one.

`SwitchIsWoken` is proved and not among the properties of a run.

## 8. Not modelled, and why

Within the modelled components: the cache directory beside a store (only the
extra way a move can fail), the contents of a store, the protocol with the
homeserver (the SDK's), file permissions; the end of a session by deactivating
the account, which takes the same path as an expiry after an interactive
authentication; events that only change the view; panics of a task. A `Logout`
sent while a session runs and handled after its suspension ends it without the
check: the model has this behaviour (`LogoutUnchecked`) and no property forbids
it, because no text of the repository says which is meant.

Of calls: the sheet, ringing, the stage; of their media, the choice of devices and
its lists, the meters and statistics, what is heard and seen of the other members,
and the report that media is not encrypted, which ends the call as `LeaveCall`
does; of the lane, a homeserver that caps the delay and the expiry
of a membership after hours; of keys, their encryption and delivery. Of the
timeline: rows and patches, older pages, reactions, polls and lookups; a position
report that waits in the `watch` channel while an update is handled, which needs
a model of what the interface draws. A deletion goes through a lane as a sticker
does; an edit of a caption and the command of a slash are messages.

Verification, encryption set-up, the space order and the room actions are
planned or one request each. The instance lock, the LiveKit library, the
interface, the notifier and the media viewers are the operating system's or
libraries' protocols, or pure output. The demo adapter, which is a large part of
the source, is not part of the product's behaviour; the same goes for the schema
and the bindings of the interface, which hold no protocol.
