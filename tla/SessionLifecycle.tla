--------------------------- MODULE SessionLifecycle ---------------------------
(* The service loop of u2dm-client as it signs a user in, runs the session,   *)
(* suspends, resumes and ends it (app/lifecycle.rs, app/service.rs,           *)
(* service/sign_in.rs, service/session_end.rs, service/syncing.rs,            *)
(* app/session.rs, app/task_group.rs, app/input.rs).                          *)
(*                                                                            *)
(* One loop takes commands of the user and events of its own tasks from one   *)
(* inbox. The tasks talk to the homeserver and to the keyring while the loop  *)
(* goes on; a task's answer is handled when the phase may be another one. The *)
(* keyring is behind a lane that runs one call after the other                *)
(* (adapters/storage.rs). Where a handler awaits, it is two steps here, and   *)
(* tasks move in between.                                                     *)
(*                                                                            *)
(* Credentials are a device and the number of the token it holds; tokens are  *)
(* numbered as the homeserver issues them and a device is named after its     *)
(* first token. Of the keyring only the saved session is here: the keys, the  *)
(* stores and the journal of a login are the subject of LoginTransaction, and *)
(* a login is here one write of the saved session and its undoing.            *)
(*                                                                            *)
(* The field s of a message and of a logout warning is history: the session   *)
(* it is about. No handler reads it.                                          *)
EXTENDS Naturals, Sequences, FiniteSets

CONSTANTS
    MaxTyped,   \* bound: commands the user sends
    MaxWaiting, \* bound: commands in the inbox at which the user waits
    MaxTokens,  \* bound: tokens the homeserver issues
    MaxFaults   \* bound: keyring calls that fail

ASSUME BoundsAssumption ==
    /\ MaxTyped \in Nat /\ MaxWaiting \in Nat
    /\ MaxTokens \in Nat /\ MaxFaults \in Nat

VARIABLES
    \* Lifecycle
    phase, attempt, session,
    \* AppService, SessionController and Account
    held, oauthCancel, prepared, logoutCheck, logoutWarning, request,
    \* the loop
    inbox, serving, after,
    \* task groups: operations, background, account actions
    signIns, fired, restores, erasures,
    syncs, persisters, bgCancelled,
    checks,
    \* the keyring
    lane, keyring,
    \* of the environment, and history
    issued, typed, faults, dismissed, gone

lifecycle == <<phase, attempt, session>>
account == <<logoutCheck, logoutWarning, request>>
loop == <<inbox, serving, after>>
operations == <<signIns, fired, restores, erasures>>
background == <<syncs, persisters, bgCancelled>>
storage == <<lane, keyring>>
environment == <<issued, typed, faults>>
history == <<dismissed, gone>>
vars == <<lifecycle, held, oauthCancel, prepared, account, loop, operations,
          background, checks, storage, environment, history>>

-----------------------------------------------------------------------------
(* Phases, credentials, commands, events *)

AuthPhases ==
    {"Authenticating", "CancellingAuth", "Reauthenticating", "CancellingReauth"}
EndPhases == {"LoggingOut", "CleaningUp"}
Phases == AuthPhases \cup EndPhases
    \cup {"Starting", "Restoring", "RestorePaused", "Blocked", "LoggedOut",
          "Syncing", "SoftLoggedOut"}

Credentials == [device: Nat, token: Nat]
NoSession == [device |-> 0, token |-> 0]

Commands ==
    {"RestoreSession", "CheckServer", "LoginPassword", "LoginOAuth",
     "CancelOAuth", "ReauthPassword", "ReauthOAuth", "Logout",
     "ConfirmLogout", "CancelLogout", "Quit"}
\* The events that end an authentication.
Verdicts ==
    {"ServerDiscovered", "AuthRejected", "AuthCancelled", "LoggedIn",
     "LoginUnresolved", "Resumed"}
Losses == {"Suspended", "Expired"}
Events == Verdicts \cup Losses
    \cup {"Restored", "RestoreFailed", "RestorePaused", "ErasingLocalState",
          "LocalStateCleared", "LogoutSafe", "LogoutRisky"}

Message ==
    [kind: Commands \cup Events, n: Nat, s: Nat, cred: Credentials, was: Credentials]
Event(kind, n, s) ==
    [kind |-> kind, n |-> n, s |-> s, cred |-> NoSession, was |-> NoSession]
Carrying(kind, n, cred, was) ==
    [kind |-> kind, n |-> n, s |-> 0, cred |-> cred, was |-> was]

Send(event) == inbox' = Append(inbox, event)

\* lifecycle::command_allowed
Allowed(p, command) ==
    \/ command = "Quit"
    \/ command = "RestoreSession" /\ p \in {"Starting", "RestorePaused"}
    \/ command \in {"CheckServer", "LoginPassword", "LoginOAuth"} /\ p = "LoggedOut"
    \/ command \in {"ReauthPassword", "ReauthOAuth"} /\ p = "SoftLoggedOut"
    \/ command = "CancelOAuth" /\ p \in {"Authenticating", "Reauthenticating"}
    \/ command = "Logout" /\ p \in {"Syncing", "SoftLoggedOut"}
    \/ command \in {"ConfirmLogout", "CancelLogout"} /\ p = "Syncing"

-----------------------------------------------------------------------------
(* Tasks, and the calls they put in the keyring's lane *)

Browsers == {"browser", "reBrowser"}
LoginMethods == {"password", "browser"}
MethodOf ==
    [CheckServer |-> "check", LoginPassword |-> "password", LoginOAuth |-> "browser",
     ReauthPassword |-> "rePassword", ReauthOAuth |-> "reBrowser"]
SignInStages ==
    {"asking", "saving", "saved", "unsaved", "puttingBack", "undone", "stuck"}

\* One authentication: of a new device, or of the device it was started for;
\* armed when a login store was prepared for it.
SignIn(method, armed, device) ==
    [attempt |-> attempt + 1, method |-> method, armed |-> armed, device |-> device,
     stage |-> "asking", cred |-> NoSession, was |-> NoSession]
SignIns ==
    [attempt: Nat, method: {"check", "password", "browser", "rePassword", "reBrowser"},
     armed: BOOLEAN, device: Nat, stage: SignInStages, cred: Credentials, was: Credentials]
Restores ==
    [stage: {"loading", "loaded", "absent", "unreadable", "forgetting"}, cred: Credentials]

\* The erasure of a session's device, by a logout or on its own.
Erasure(of, device) == [session |-> of, device |-> device, stage |-> "leaving"]
Erasures == [session: Nat, device: Nat, stage: {"leaving", "clearing", "cleared"}]

\* The persister of a session: latest is the token its client holds, fresh that
\* the channel to it is not empty, dirty what it has not saved yet.
Persisters ==
    [session: Nat, latest: Credentials, fresh: BOOLEAN, dirty: Credentials,
     stage: {"idle", "saving", "retry", "flushing", "flushed"}, listening: BOOLEAN]

\* A call about the saved session: who waits for it and which one of them, and
\* what it writes; a deletion writes NoSession.
Read(who) == [who |-> who, n |-> 0, op |-> "get", cred |-> NoSession]
Write(who, n, cred) == [who |-> who, n |-> n, op |-> "set", cred |-> cred]
Calls ==
    [who: {"restore", "signIn", "persister", "erasure", "service"}, n: Nat,
     op: {"get", "set"}, cred: Credentials]
Enqueue(call) == lane' = Append(lane, call)

-----------------------------------------------------------------------------
(* Lifecycle: the transitions that more than one handler uses *)

IdleAfterAuth(p) ==
    IF p \in {"Authenticating", "CancellingAuth"} THEN "LoggedOut" ELSE "SoftLoggedOut"

\* Mutant of Settled: forgets the phases of a cancelled attempt.
SettledIfAwaited(n) ==
    phase \in {"Authenticating", "Reauthenticating"} /\ attempt = n
\* settle_auth: an answer to the attempt under way ends it.
Settled(n) == phase \in AuthPhases /\ attempt = n
SettleAuth(n) == phase' = IF Settled(n) THEN IdleAfterAuth(phase) ELSE phase

\* Mutant of CancelledPhase: does not wait for the cancelled attempt's answer.
CancelledAtOnce(p) == IdleAfterAuth(p)
\* cancel_auth
CancelledPhase(p) ==
    IF p = "Authenticating" THEN "CancellingAuth" ELSE "CancellingReauth"

\* promote_to_syncing, resume_syncing
Promotes(n) == phase = "Authenticating" /\ attempt = n
Resumes(n) == phase = "Reauthenticating" /\ attempt = n

\* Mutant of MayFinishLogout: forgets the phase the erasure's start leads to.
FinishesBeforeCleanup(s) == phase = "LoggingOut" /\ session = s
\* finish_logout
MayFinishLogout(s) == phase \in EndPhases /\ session = s

-----------------------------------------------------------------------------
(* The loop takes its inputs one by one, in the order they were sent *)

Take(kind) ==
    /\ serving = "next" /\ inbox # <<>> /\ Head(inbox).kind = kind
    /\ inbox' = Tail(inbox)
Command(command) == Take(command) /\ Allowed(phase, command)
Input == Head(inbox)

\* A command that is not legal in the phase it arrives in.
RefuseCommand ==
    /\ \E command \in Commands : Take(command) /\ ~Allowed(phase, command)
    /\ UNCHANGED <<lifecycle, held, oauthCancel, prepared, account, serving, after,
                   operations, background, checks, storage, environment, history>>

\* AppService::activate and start_syncing: hold the session and start its
\* tasks on a background group that was drained and given a new token. The
\* persister's listener sends the current tokens first.
Activate(cred) ==
    /\ phase' = "Syncing" /\ session' = session + 1
    /\ held' = [kind |-> "Running", device |-> cred.device]
    /\ bgCancelled' = FALSE
    /\ syncs' = {session'}
    /\ persisters' = {[session |-> session', latest |-> cred, fresh |-> TRUE,
                       dirty |-> NoSession, stage |-> "idle", listening |-> TRUE]}

\* tear_down_session: cancel every task and wait for them.
WindDown(then, device) ==
    /\ serving' = "winding" /\ after' = [then |-> then, n |-> device]
    /\ bgCancelled' = TRUE
    /\ UNCHANGED <<syncs, persisters>>

\* end_session, once begin_logout has let it.
EndSession ==
    /\ phase' = "LoggingOut"
    /\ WindDown(IF held.kind = "None" THEN "finish" ELSE "erase", held.device)
MayLogOut == phase \in {"Syncing", "SoftLoggedOut"}

\* What a handler leaves alone that settles a phase.
Rest == <<held, prepared, account, serving, after, operations, background,
          checks, storage, environment>>

-----------------------------------------------------------------------------
(* Commands *)

RestoreSession ==
    /\ Command("RestoreSession")
    /\ phase' = "Restoring"
    /\ restores' = restores \cup {[stage |-> "loading", cred |-> NoSession]}
    /\ Enqueue(Read("restore"))
    /\ UNCHANGED <<attempt, session, held, oauthCancel, prepared, account, serving,
                   after, signIns, fired, erasures, background, checks, keyring,
                   environment, history>>

NextAttempt == attempt + 1

\* CheckServer, LoginPassword, LoginOAuth: begin_auth and a task for the answer.
\* Checking a server prepares the key of the store the login will be made in.
Authenticate ==
    /\ \E command \in {"CheckServer", "LoginPassword", "LoginOAuth"} :
        /\ Command(command)
        /\ prepared' = (prepared \/ command = "CheckServer")
        /\ signIns' = signIns \cup {SignIn(MethodOf[command], prepared, 0)}
        /\ oauthCancel' = IF MethodOf[command] \in Browsers THEN NextAttempt
                                                            ELSE oauthCancel
    /\ attempt' = NextAttempt
    /\ phase' = "Authenticating"
    /\ UNCHANGED <<session, held, account, serving, after, fired, restores, erasures,
                   background, checks, storage, environment, history>>

\* ReauthPassword, ReauthOAuth: begin_reauth, for the suspended session's device.
Reauthenticate ==
    \E command \in {"ReauthPassword", "ReauthOAuth"} :
        /\ Command(command)
        /\ IF held.kind = "Suspended"
           THEN /\ attempt' = NextAttempt /\ phase' = "Reauthenticating"
                /\ signIns' = signIns \cup {SignIn(MethodOf[command], TRUE, held.device)}
                /\ oauthCancel' = IF MethodOf[command] \in Browsers THEN NextAttempt
                                                                    ELSE oauthCancel
           ELSE UNCHANGED <<attempt, phase, signIns, oauthCancel>>
        /\ UNCHANGED <<session, held, prepared, account, serving, after, fired, restores,
                       erasures, background, checks, storage, environment, history>>

\* cancel_oauth: a browser sign-in is told; any other is left to finish.
CancelOAuth ==
    /\ Command("CancelOAuth")
    /\ phase' = CancelledPhase(phase)
    /\ fired' = fired \cup ({oauthCancel} \ {0})
    /\ oauthCancel' = 0
    /\ dismissed' = dismissed \cup {attempt}
    /\ UNCHANGED <<attempt, session, held, prepared, account, serving, after, signIns,
                   restores, erasures, background, checks, storage, environment, gone>>

\* Logout of a running session first asks what it would lose (check_logout).
CheckLogout ==
    /\ Command("Logout") /\ held.kind = "Running"
    /\ IF logoutCheck = 0 /\ logoutWarning = 0
       THEN /\ request' = request + 1
            /\ logoutCheck' = request'
            /\ checks' = checks \cup {[request |-> request', session |-> session]}
       ELSE UNCHANGED <<request, logoutCheck, checks>>
    /\ UNCHANGED <<lifecycle, held, oauthCancel, prepared, logoutWarning, serving, after,
                   operations, background, storage, environment, history>>

\* Logout of a suspended session has no homeserver to ask.
LogoutUnchecked ==
    /\ Command("Logout") /\ held.kind # "Running"
    /\ EndSession
    /\ UNCHANGED <<attempt, session, held, oauthCancel, prepared, account, operations,
                   checks, storage, environment, history>>

ConfirmLogout ==
    /\ Command("ConfirmLogout")
    /\ logoutWarning' = 0
    /\ IF logoutWarning # 0 THEN EndSession
                            ELSE UNCHANGED <<phase, serving, after, background>>
    /\ UNCHANGED <<attempt, session, held, oauthCancel, prepared, logoutCheck, request,
                   operations, checks, storage, environment, history>>

CancelLogout ==
    /\ Command("CancelLogout")
    /\ logoutWarning' = 0
    /\ UNCHANGED <<lifecycle, held, oauthCancel, prepared, logoutCheck, request, serving,
                   after, operations, background, checks, storage, environment, history>>

\* handle_quit winds every task group down and the loop ends.
Quit ==
    /\ Command("Quit")
    /\ WindDown("quit", 0)
    /\ UNCHANGED <<lifecycle, held, oauthCancel, prepared, account, operations, checks,
                   storage, environment, history>>

-----------------------------------------------------------------------------
(* Events *)

SettleRestore ==
    /\ Take("Restored")
    /\ IF phase = "Restoring" THEN Activate(Input.cred)
                              ELSE UNCHANGED <<phase, session, held, background>>
    /\ UNCHANGED <<attempt, oauthCancel, prepared, account, serving, after, operations,
                   checks, storage, environment, history>>

\* settle_restore_failure, settle_restore_pause
SettleRestoreFailure ==
    /\ \/ /\ Take("RestoreFailed")
          /\ phase' = IF phase = "Restoring" THEN "LoggedOut" ELSE phase
       \/ /\ Take("RestorePaused")
          /\ phase' = IF phase = "Restoring" THEN "RestorePaused" ELSE phase
    /\ UNCHANGED <<attempt, session, oauthCancel, Rest, history>>

SettleDiscovery ==
    /\ Take("ServerDiscovered")
    /\ SettleAuth(Input.n)
    /\ UNCHANGED <<attempt, session, oauthCancel, Rest, history>>

\* settle_auth_rejection, settle_auth_cancel
SettleAuthFailure ==
    /\ Take("AuthRejected") \/ Take("AuthCancelled")
    /\ SettleAuth(Input.n)
    /\ oauthCancel' = 0
    /\ UNCHANGED <<attempt, session, Rest, history>>

\* settle_login of the login the user waits for: commit and activate.
SettleLogin ==
    /\ Take("LoggedIn") /\ Promotes(Input.n)
    /\ Activate(Input.cred)
    /\ oauthCancel' = 0 /\ prepared' = FALSE
    /\ UNCHANGED <<attempt, account, serving, after, operations, checks, storage,
                   environment, history>>

\* settle_login of any other: undo it, unless its rollback cannot be recorded.
UndoSupersededLogin ==
    /\ Take("LoggedIn") /\ ~Promotes(Input.n)
    /\ \/ /\ serving' = "undoing" /\ after' = [then |-> "undo", n |-> Input.n]
          /\ Enqueue(Write("service", Input.cred.device, Input.was))
          /\ UNCHANGED phase
       \/ phase' = "Blocked" /\ UNCHANGED <<serving, after, lane>>
    /\ oauthCancel' = 0 /\ prepared' = FALSE
    /\ UNCHANGED <<attempt, session, held, account, operations, background, checks,
                   keyring, environment, history>>

\* The rest of it, once the keyring has answered.
LoginUndone ==
    /\ \/ serving = "undone" /\ SettleAuth(after.n)
       \/ serving \in {"undone", "stuck"} /\ phase' = "Blocked"
    /\ serving' = "next"
    /\ UNCHANGED <<attempt, session, held, oauthCancel, prepared, account, inbox, after,
                   operations, background, checks, storage, environment, history>>

\* block_sign_in
SettleUnresolved ==
    /\ Take("LoginUnresolved")
    /\ phase' = "Blocked"
    /\ UNCHANGED <<attempt, session, oauthCancel, Rest, history>>

\* settle_resume: a superseded re-authentication is released again.
SettleResume ==
    /\ Take("Resumed")
    /\ oauthCancel' = 0
    /\ IF Resumes(Input.n)
       THEN Activate(Input.cred)
       ELSE SettleAuth(Input.n) /\ UNCHANGED <<session, held, background>>
    /\ UNCHANGED <<attempt, prepared, account, serving, after, operations, checks,
                   storage, environment, history>>

\* suspend_session
SuspendSession ==
    /\ Take("Suspended")
    /\ IF held.kind = "Running" /\ phase = "Syncing"
       THEN phase' = "SoftLoggedOut" /\ WindDown("suspend", held.device)
       ELSE UNCHANGED <<phase, serving, after, background>>
    /\ UNCHANGED <<attempt, session, held, oauthCancel, prepared, account, operations,
                   checks, storage, environment, history>>

\* end_session of a session the homeserver has ended.
ExpireSession ==
    /\ Take("Expired")
    /\ IF MayLogOut THEN EndSession ELSE UNCHANGED <<phase, serving, after, background>>
    /\ UNCHANGED <<attempt, session, held, oauthCancel, prepared, account, operations,
                   checks, storage, environment, history>>

\* logout_checked: proceed, or warn and wait. A check that nobody waits for is
\* dropped, and so is any while no session runs.
LogoutChecked ==
    /\ Take("LogoutSafe") \/ Take("LogoutRisky")
    /\ IF held.kind = "Running" /\ Input.n = logoutCheck
       THEN /\ logoutCheck' = 0
            /\ IF Input.kind = "LogoutSafe" /\ MayLogOut
               THEN EndSession /\ UNCHANGED logoutWarning
               ELSE /\ logoutWarning' = IF Input.kind = "LogoutRisky" THEN Input.s
                                                                      ELSE logoutWarning
                    /\ UNCHANGED <<phase, serving, after, background>>
       ELSE UNCHANGED <<phase, serving, after, background, logoutCheck, logoutWarning>>
    /\ UNCHANGED <<attempt, session, held, oauthCancel, prepared, request, operations,
                   checks, storage, environment, history>>

\* settle_erasure_start, settle_erasure
SettleErasure ==
    /\ \/ /\ Take("ErasingLocalState")
          /\ phase' = IF phase = "LoggingOut" /\ session = Input.n THEN "CleaningUp"
                                                                   ELSE phase
       \/ /\ Take("LocalStateCleared")
          /\ phase' = IF MayFinishLogout(Input.n) THEN "LoggedOut" ELSE phase
    /\ UNCHANGED <<attempt, session, oauthCancel, Rest, history>>

-----------------------------------------------------------------------------
(* Winding down: a cancelled task ends by itself, or is aborted when it has   *)
(* not after SHUTDOWN_GRACE.                                                  *)

\* Mutant of Drained: goes on while the sync still runs.
DrainedButSync ==
    /\ persisters = {} /\ checks = {}
    /\ signIns = {} /\ restores = {} /\ erasures = {}
\* Mutant of Drained: goes on while the persister still runs.
DrainedButPersister ==
    /\ syncs = {} /\ checks = {}
    /\ signIns = {} /\ restores = {} /\ erasures = {}
\* drain_within_grace: every task has ended.
Drained ==
    /\ syncs = {} /\ persisters = {} /\ checks = {}
    /\ signIns = {} /\ restores = {} /\ erasures = {}

AbortStragglers ==
    /\ serving = "winding"
    /\ \/ /\ ~(syncs = {} /\ persisters = {})
          /\ syncs' = {} /\ persisters' = {}
          /\ UNCHANGED <<checks, signIns, restores, erasures>>
       \/ /\ checks # {} /\ checks' = {}
          /\ UNCHANGED <<syncs, persisters, signIns, restores, erasures>>
       \/ /\ ~(signIns = {} /\ restores = {} /\ erasures = {})
          /\ signIns' = {} /\ restores' = {} /\ erasures' = {}
          /\ UNCHANGED <<syncs, persisters, checks>>
    /\ UNCHANGED <<lifecycle, held, oauthCancel, prepared, account, loop, fired,
                   bgCancelled, storage, environment, history>>

\* Mutant of ForgetLogoutDialog: a check or warning outlives its session.
KeepLogoutDialog == UNCHANGED <<logoutCheck, logoutWarning>>
\* Mutant of ForgetLogoutDialog: waits for a check nobody has asked for.
AwaitNextCheck == logoutCheck' = request + 1 /\ logoutWarning' = 0
\* The account's dialogs are forgotten when its tasks are drained (restart).
ForgetLogoutDialog == logoutCheck' = 0 /\ logoutWarning' = 0
\* Mutant of WhatIsHeldAfter: a suspended session is let go.
NothingHeldAfter(plan) == [kind |-> "None", device |-> 0]
WhatIsHeldAfter(plan) ==
    IF plan.then = "suspend" THEN [kind |-> "Suspended", device |-> plan.n]
                             ELSE [kind |-> "None", device |-> 0]

\* The rest of tear_down_session, and of the handler that called it.
WoundDown ==
    /\ serving = "winding" /\ Drained
    /\ IF after.then = "quit"
       THEN /\ serving' = "stopped"
            /\ UNCHANGED <<phase, held, erasures, logoutCheck, logoutWarning>>
       ELSE /\ serving' = "next"
            /\ ForgetLogoutDialog
            /\ held' = WhatIsHeldAfter(after)
            /\ phase' = IF after.then = "finish" THEN "LoggedOut" ELSE phase
            /\ erasures' = IF after.then = "erase" THEN {Erasure(session, after.n)}
                                                   ELSE erasures
    /\ UNCHANGED <<attempt, session, oauthCancel, prepared, request, inbox, after,
                   signIns, fired, restores, background, checks, storage, environment,
                   history>>

-----------------------------------------------------------------------------
(* The keyring lane runs the first call in it and wakes who waits for it.     *)

\* Mutant of Turn: the lane runs the newest call first.
NewestTurn == Len(lane)
Turn == 1
NextCall == lane[Turn]
OtherCalls == SubSeq(lane, 1, Turn - 1) \o SubSeq(lane, Turn + 1, Len(lane))

\* read_displaced has read what a login's write replaces.
SignInHeard(t, ok) ==
    IF t.stage = "saving"
    THEN [t EXCEPT !.stage = IF ok THEN "saved" ELSE "unsaved", !.was = keyring]
    ELSE [t EXCEPT !.stage = IF ok THEN "undone" ELSE "stuck"]

RestoreHeard(r, ok) ==
    IF r.stage = "loading" /\ ~ok THEN [r EXCEPT !.stage = "unreadable"]
    ELSE IF r.stage = "loading" /\ keyring # NoSession
         THEN [stage |-> "loaded", cred |-> keyring]
         ELSE [r EXCEPT !.stage = "absent"]

\* Mutant of PersisterHeard: a save that failed is not tried again.
PersisterHeardOnce(p, ok) ==
    IF p.stage = "flushing" THEN [p EXCEPT !.stage = "flushed"]
    ELSE [p EXCEPT !.stage = "idle", !.dirty = NoSession]
\* SessionPersister::store: what could not be saved stays dirty.
PersisterHeard(p, ok) ==
    IF p.stage = "flushing" THEN [p EXCEPT !.stage = "flushed"]
    ELSE IF ok THEN [p EXCEPT !.stage = "idle", !.dirty = NoSession]
    ELSE [p EXCEPT !.stage = "retry"]

\* Devices whose saved session this call has taken away for good.
GoneAfter(call) ==
    CASE call.who = "erasure" -> {e.device : e \in {f \in erasures : f.session = call.n}}
      [] call.who = "service" -> {call.n}
      [] call.who = "signIn" ->
            {t.cred.device : t \in {u \in signIns : u.attempt = call.n
                                                    /\ u.stage = "puttingBack"}}
      [] OTHER -> {}

Answer(call, ok) ==
    /\ signIns' = {IF call.who = "signIn" /\ t.attempt = call.n
                   THEN SignInHeard(t, ok) ELSE t : t \in signIns}
    /\ restores' = {IF call.who = "restore" THEN RestoreHeard(r, ok) ELSE r : r \in restores}
    /\ persisters' = {IF call.who = "persister" /\ p.session = call.n
                      THEN PersisterHeard(p, ok) ELSE p : p \in persisters}
    /\ erasures' = {IF call.who = "erasure" /\ e.session = call.n
                    THEN [e EXCEPT !.stage = "cleared"] ELSE e : e \in erasures}
    /\ serving' = IF call.who # "service" THEN serving
                  ELSE IF ok THEN "undone" ELSE "stuck"

RunCall ==
    /\ lane # <<>>
    /\ lane' = OtherCalls
    /\ \/ /\ keyring' = IF NextCall.op = "set" THEN NextCall.cred ELSE keyring
          /\ Answer(NextCall, TRUE)
          /\ gone' = gone \cup GoneAfter(NextCall)
          /\ UNCHANGED faults
       \/ /\ faults < MaxFaults /\ faults' = faults + 1
          /\ Answer(NextCall, FALSE)
          /\ UNCHANGED <<keyring, gone>>
    /\ UNCHANGED <<lifecycle, held, oauthCancel, prepared, account, inbox, after, fired,
                   syncs, bgCancelled, checks, issued, typed, dismissed>>

-----------------------------------------------------------------------------
(* The task of a sign-in *)

SignInRest ==
    UNCHANGED <<lifecycle, held, oauthCancel, prepared, account, serving, after, fired,
                restores, erasures, background, checks, keyring, typed, faults, history>>
Becomes(t, next) == signIns' = (signIns \ {t}) \cup {next}
Reports(t, event) == signIns' = signIns \ {t} /\ Send(event)
Asking(t) ==
    /\ t.stage = "asking"
    /\ ~(t.method \in Browsers /\ t.attempt \in fired)

\* A browser sign-in that is cancelled says so, whatever the browser answers.
SignInCancelled(t) ==
    /\ t.stage = "asking" /\ t.method \in Browsers /\ t.attempt \in fired
    /\ Reports(t, Event("AuthCancelled", t.attempt, 0))
    /\ UNCHANGED <<lane, issued>> /\ SignInRest

\* The server or the browser refuses, does not answer in time, or a step before
\* the credentials are written fails.
SignInRefused(t) ==
    /\ Asking(t)
    /\ Reports(t, Event("AuthRejected", t.attempt, 0))
    /\ UNCHANGED <<lane, issued>> /\ SignInRest

ServerChecked(t) ==
    /\ Asking(t) /\ t.method = "check"
    /\ Reports(t, Event("ServerDiscovered", t.attempt, 0))
    /\ UNCHANGED <<lane, issued>> /\ SignInRest

\* The server grants tokens, and the session is to be saved: establish_session
\* for a new device (its store was prepared), report_resumed for a known one.
SignInGranted(t) ==
    /\ Asking(t) /\ t.method # "check" /\ t.armed /\ issued < MaxTokens
    /\ issued' = issued + 1
    /\ LET cred == [device |-> IF t.method \in LoginMethods THEN issued' ELSE t.device,
                    token |-> issued']
       IN  /\ Becomes(t, [t EXCEPT !.stage = "saving", !.cred = cred])
           /\ Enqueue(Write("signIn", t.attempt, cred))
    /\ UNCHANGED inbox /\ SignInRest

\* Established; a later step of the login may still fail.
LoginEstablished(t) ==
    /\ t.stage = "saved" /\ t.method \in LoginMethods
    /\ Reports(t, Carrying("LoggedIn", t.attempt, t.cred, t.was))
    /\ UNCHANGED <<lane, issued>> /\ SignInRest

\* record_or_roll_back undoes what it could not record.
LoginRollsBack(t) ==
    /\ t.stage \in {"saved", "unsaved"} /\ t.method \in LoginMethods
    /\ Becomes(t, [t EXCEPT !.stage = "puttingBack"])
    /\ Enqueue(Write("signIn", t.attempt, t.was))
    /\ UNCHANGED <<inbox, issued>> /\ SignInRest

LoginRolledBack(t) ==
    /\ t.stage = "undone"
    /\ Reports(t, Event("AuthRejected", t.attempt, 0))
    /\ UNCHANGED <<lane, issued>> /\ SignInRest

\* The login cannot be marked for rollback, the previous credentials cannot be
\* put back, or the undoing cannot be finished or recorded.
LoginStuck(t) ==
    /\ t.stage \in {"saved", "unsaved", "undone", "stuck"} /\ t.method \in LoginMethods
    /\ Reports(t, Event("LoginUnresolved", 0, 0))
    /\ UNCHANGED <<lane, issued>> /\ SignInRest

\* report_resumed: a session that could not be saved is resumed all the same.
SessionResumed(t) ==
    /\ t.stage \in {"saved", "unsaved"} /\ t.method \notin LoginMethods
    /\ Reports(t, Carrying("Resumed", t.attempt, t.cred, NoSession))
    /\ UNCHANGED <<lane, issued>> /\ SignInRest

SignInStep == \E t \in signIns :
    \/ SignInCancelled(t) \/ SignInRefused(t) \/ ServerChecked(t) \/ SignInGranted(t)
    \/ LoginEstablished(t) \/ LoginRollsBack(t) \/ LoginRolledBack(t) \/ LoginStuck(t)
    \/ SessionResumed(t)

-----------------------------------------------------------------------------
(* The task of a restore *)

RestoreRest ==
    UNCHANGED <<lifecycle, held, oauthCancel, prepared, account, serving, after,
                signIns, fired, erasures, background, checks, keyring, environment,
                history>>
RestoreEnds(r, event) == restores' = restores \ {r} /\ Send(event) /\ UNCHANGED lane

\* No session to restore; no key for it, or a client that cannot be restored.
RestoreFails(r) ==
    /\ r.stage \in {"loaded", "absent"}
    /\ RestoreEnds(r, Event("RestoreFailed", 0, 0)) /\ RestoreRest
\* The keyring could not be read: for the session, or for its key.
RestorePauses(r) ==
    /\ r.stage \in {"unreadable", "loaded"}
    /\ RestoreEnds(r, Event("RestorePaused", 0, 0)) /\ RestoreRest
RestoreSucceeds(r) ==
    /\ r.stage = "loaded"
    /\ RestoreEnds(r, Carrying("Restored", 0, r.cred, NoSession)) /\ RestoreRest
\* report_diverged: forget a session the homeserver has signed out.
RestoreForgets(r) ==
    /\ r.stage = "loaded"
    /\ restores' = (restores \ {r}) \cup {[r EXCEPT !.stage = "forgetting"]}
    /\ Enqueue(Write("restore", 0, NoSession))
    /\ UNCHANGED inbox /\ RestoreRest

RestoreStep == \E r \in restores :
    RestoreFails(r) \/ RestorePauses(r) \/ RestoreSucceeds(r) \/ RestoreForgets(r)

-----------------------------------------------------------------------------
(* The tasks of a running session: its sync, its persister, a logout's check *)

BackgroundRest ==
    UNCHANGED <<lifecycle, held, oauthCancel, prepared, account, serving, after,
                operations, bgCancelled, keyring, typed, faults, history>>

\* supervise_sync reports one loss and returns.
SessionLost(s, loss) ==
    /\ syncs' = syncs \ {s}
    /\ Send(Event(loss, 0, s))
    /\ UNCHANGED <<persisters, checks, lane, issued>> /\ BackgroundRest

\* Cancelled, or failed for good: either ends it in silence.
SyncEnds(s) ==
    /\ syncs' = syncs \ {s}
    /\ UNCHANGED <<inbox, persisters, checks, lane, issued>> /\ BackgroundRest

PersisterBecomes(p, next) == persisters' = (persisters \ {p}) \cup {next}

\* The client refreshes its tokens and the listener passes them on.
TokensRefreshed(p) ==
    /\ p.listening /\ issued < MaxTokens
    /\ issued' = issued + 1
    /\ PersisterBecomes(p, [p EXCEPT !.latest.token = issued', !.fresh = TRUE])
    /\ UNCHANGED <<inbox, syncs, checks, lane>> /\ BackgroundRest

\* recv_newest_session and store; a token that waits for a retry is replaced.
PersisterStores(p) ==
    /\ p.stage \in {"idle", "retry"} /\ p.fresh
    /\ PersisterBecomes(p, [p EXCEPT !.fresh = FALSE, !.dirty = p.latest, !.stage = "saving"])
    /\ Enqueue(Write("persister", p.session, p.latest))
    /\ UNCHANGED <<inbox, syncs, checks, issued>> /\ BackgroundRest

PersisterRetries(p) ==
    /\ p.stage = "retry" /\ ~p.fresh /\ p.listening
    /\ PersisterBecomes(p, [p EXCEPT !.stage = "saving"])
    /\ Enqueue(Write("persister", p.session, p.dirty))
    /\ UNCHANGED <<inbox, syncs, checks, issued>> /\ BackgroundRest

ListenerEnds(p) ==
    /\ p.listening /\ bgCancelled
    /\ PersisterBecomes(p, [p EXCEPT !.listening = FALSE])
    /\ UNCHANGED <<inbox, syncs, checks, lane, issued>> /\ BackgroundRest

\* Closed: what is still dirty is tried once more.
PersisterFlushes(p) ==
    /\ p.stage = "retry" /\ ~p.fresh /\ ~p.listening
    /\ PersisterBecomes(p, [p EXCEPT !.stage = "flushing"])
    /\ Enqueue(Write("persister", p.session, p.dirty))
    /\ UNCHANGED <<inbox, syncs, checks, issued>> /\ BackgroundRest

PersisterEnds(p) ==
    /\ ~p.listening /\ ~p.fresh /\ p.stage \in {"idle", "flushed"}
    /\ persisters' = persisters \ {p}
    /\ UNCHANGED <<inbox, syncs, checks, lane, issued>> /\ BackgroundRest

SyncStep == \E s \in syncs : SyncEnds(s) \/ \E loss \in Losses : SessionLost(s, loss)
PersisterStep == \E p \in persisters :
    \/ PersisterStores(p) \/ PersisterRetries(p)
    \/ ListenerEnds(p) \/ PersisterFlushes(p) \/ PersisterEnds(p)
Refresh == \E p \in persisters : TokensRefreshed(p)

LogoutRisksRead ==
    /\ \E c \in checks, kind \in {"LogoutSafe", "LogoutRisky"} :
        /\ checks' = checks \ {c}
        /\ Send(Event(kind, c.request, c.session))
    /\ UNCHANGED <<syncs, persisters, lane, issued>> /\ BackgroundRest

-----------------------------------------------------------------------------
(* The task that ends a session: leave the homeserver (it answers, it does    *)
(* not in time, or the user quits), then erase what is local.                 *)

ErasureRest ==
    UNCHANGED <<lifecycle, held, oauthCancel, prepared, account, serving, after, signIns,
                fired, restores, background, checks, keyring, environment, history>>

ErasureBegins(e) ==
    /\ e.stage = "leaving"
    /\ erasures' = (erasures \ {e}) \cup {[e EXCEPT !.stage = "clearing"]}
    /\ Send(Event("ErasingLocalState", e.session, 0))
    /\ Enqueue(Write("erasure", e.session, NoSession))
    /\ ErasureRest

ErasureEnds(e) ==
    /\ e.stage = "cleared"
    /\ erasures' = erasures \ {e}
    /\ Send(Event("LocalStateCleared", e.session, 0))
    /\ UNCHANGED lane /\ ErasureRest

ErasureStep == \E e \in erasures : ErasureBegins(e) \/ ErasureEnds(e)

-----------------------------------------------------------------------------
(* The specification *)

UserSends ==
    /\ typed < MaxTyped /\ serving # "stopped"
    /\ Cardinality({i \in DOMAIN inbox : inbox[i].kind \in Commands}) < MaxWaiting
    /\ typed' = typed + 1
    /\ \E command \in Commands : Send(Event(command, 0, 0))
    /\ UNCHANGED <<lifecycle, held, oauthCancel, prepared, account, serving, after,
                   operations, background, checks, storage, issued, faults, history>>

\* A start finds a saved session or none, and recovery may have blocked it.
Init ==
    /\ phase \in {"Starting", "Blocked"} /\ attempt = 0 /\ session = 0
    /\ held = [kind |-> "None", device |-> 0]
    /\ oauthCancel = 0 /\ prepared = FALSE
    /\ logoutCheck = 0 /\ logoutWarning = 0 /\ request = 0
    /\ inbox = <<>> /\ serving = "next" /\ after = [then |-> "finish", n |-> 0]
    /\ signIns = {} /\ fired = {} /\ restores = {} /\ erasures = {}
    /\ syncs = {} /\ persisters = {} /\ bgCancelled = FALSE
    /\ checks = {}
    /\ lane = <<>> /\ keyring \in {NoSession, [device |-> 1, token |-> 1]}
    /\ issued = 1 /\ typed = 0 /\ faults = 0
    /\ dismissed = {} /\ gone = {}

HandleCommand ==
    \/ RefuseCommand \/ RestoreSession \/ Authenticate \/ Reauthenticate \/ CancelOAuth
    \/ CheckLogout \/ LogoutUnchecked \/ ConfirmLogout \/ CancelLogout \/ Quit
HandleEvent ==
    \/ SettleRestore \/ SettleRestoreFailure \/ SettleDiscovery \/ SettleAuthFailure
    \/ SettleLogin \/ UndoSupersededLogin \/ SettleUnresolved \/ SettleResume
    \/ SuspendSession \/ ExpireSession \/ LogoutChecked \/ SettleErasure
Resume == LoginUndone \/ WoundDown

Next ==
    \/ HandleCommand \/ HandleEvent \/ Resume \/ AbortStragglers
    \/ SignInStep \/ RestoreStep \/ SyncStep \/ Refresh \/ PersisterStep
    \/ LogoutRisksRead \/ ErasureStep \/ RunCall \/ UserSends

Spec == Init /\ [][Next]_vars

\* The runtime polls the loop and every task that can move; the homeserver, the
\* browser and the keyring answer, or a timeout answers for them; the grace
\* period of a drain ends. The user owes nothing, and no token must refresh.
Fairness ==
    /\ WF_vars(HandleCommand \/ HandleEvent \/ Resume)
    /\ WF_vars(AbortStragglers)
    /\ WF_vars(SignInStep) /\ WF_vars(RestoreStep) /\ WF_vars(ErasureStep)
    /\ WF_vars(PersisterStep) /\ WF_vars(RunCall)
FairSpec == Spec /\ Fairness

-----------------------------------------------------------------------------
(* Properties *)

\* Every variable is of its declared kind.
TypeOK ==
    /\ phase \in Phases /\ attempt \in 0..MaxTyped /\ session \in Nat
    /\ held \in [kind: {"None", "Running", "Suspended"}, device: Nat]
    /\ oauthCancel \in 0..attempt /\ prepared \in BOOLEAN
    /\ logoutCheck \in 0..request /\ logoutWarning \in 0..session /\ request \in Nat
    /\ inbox \in Seq(Message)
    /\ serving \in {"next", "winding", "undoing", "undone", "stuck", "stopped"}
    /\ after \in [then: {"finish", "erase", "suspend", "quit", "undo"}, n: Nat]
    /\ signIns \subseteq SignIns /\ fired \subseteq 1..attempt
    /\ restores \subseteq Restores /\ erasures \subseteq Erasures
    /\ syncs \subseteq 1..session /\ persisters \subseteq Persisters
    /\ bgCancelled \in BOOLEAN
    /\ checks \subseteq [request: Nat, session: Nat]
    /\ lane \in Seq(Calls) /\ keyring \in Credentials
    /\ issued \in Nat /\ typed \in 0..MaxTyped /\ faults \in 0..MaxFaults
    /\ dismissed \subseteq 1..attempt /\ gone \subseteq Nat

\* What is left of authentications: tasks, verdicts in the inbox, an undoing.
PendingVerdicts == {i \in DOMAIN inbox : inbox[i].kind \in Verdicts}
Undoing == serving \in {"undoing", "undone", "stuck"}
UnderWay ==
    Cardinality(signIns) + Cardinality(PendingVerdicts) + (IF Undoing THEN 1 ELSE 0)
AttemptsUnderWay ==
    {t.attempt : t \in signIns}
    \cup {inbox[i].n : i \in {j \in PendingVerdicts : inbox[j].kind # "LoginUnresolved"}}
    \cup (IF Undoing THEN {after.n} ELSE {})
Quitting == after.then = "quit"

\* While the app authenticates exactly one task or verdict, of that very
\* attempt, is under way, and none otherwise: an event without an attempt
\* (LoginUnresolved), and the cancel token that any verdict takes away
\* (finish_oauth), are about the attempt at hand. Aborted tasks of a program
\* that quits owe nothing.
OneSignInAtATime ==
    /\ ~Quitting => UnderWay = IF phase \in AuthPhases THEN 1 ELSE 0
    /\ AttemptsUnderWay \subseteq {attempt}

\* Between two inputs the loop holds a running session exactly while it syncs
\* and a suspended one exactly while it is soft-logged-out or signs in again,
\* and the tasks in the background belong to the session that runs.
HeldAsThePhaseSays ==
    serving = "next" =>
        /\ held.kind = "Running" <=> phase = "Syncing"
        /\ held.kind = "Suspended" <=>
            phase \in {"SoftLoggedOut", "Reauthenticating", "CancellingReauth"}
        /\ phase # "Syncing" => syncs = {} /\ persisters = {} /\ checks = {}
        /\ syncs \cup {p.session : p \in persisters} \subseteq {session}

\* A device whose saved session was erased (clear_local_state), or put away by
\* the undoing of its login (restore_displaced), is never saved again: no write
\* of its persister, finished, aborted or still in the lane, comes after.
GoneStaysGone == keyring.device \notin gone

\* A saved session is only replaced by newer tokens of the same device, whoever
\* writes them: the persister, an aborted one whose write is still in the lane,
\* or the task that signed in again (report_resumed).
TokensNeverGoBack ==
    [][keyring'.device = keyring.device => keyring'.token >= keyring.token]_vars

\* Suspended and Expired say of no session that it is lost (SessionEvent), yet
\* one is acted on only while the session that reported it runs: it neither
\* touches a later session nor erases the data of a suspended one.
LossEndsItsOwnSession ==
    [][serving = "next" /\ inbox # <<>> /\ Input.kind \in Losses /\ phase' # phase
        => phase = "Syncing" /\ Input.s = session]_vars

\* A session begins and ends as the user asked: what was cancelled never becomes
\* the running session, although its task may have succeeded before it was told;
\* and a running session is signed out only after a check of what signing out of
\* that very session loses, by the check or by the answer to its warning.
RunsAsTheUserAsked ==
    [][/\ phase # "Syncing" /\ phase' = "Syncing" => Input.n \notin dismissed
       /\ phase = "Syncing" /\ phase' = "LoggingOut" =>
             \/ Input.kind = "LogoutSafe" /\ Input.s = session
             \/ Input.kind = "ConfirmLogout" /\ logoutWarning = session
             \/ Input.kind = "Expired"]_vars

Stopped == serving = "stopped"

\* Every authentication ends, by its answer, its timeout or its cancellation.
SignInSettles == phase \in AuthPhases ~> phase \notin AuthPhases \/ Stopped

\* A logout that has begun ends logged out, whatever the homeserver answers.
LogoutEnds == phase \in EndPhases ~> phase = "LoggedOut" \/ Stopped

\* While its session runs, a refreshed token is in the keyring sooner or later,
\* for all the writes that fail on the way.
TokensAreSaved ==
    \A k \in 1..MaxTokens :
        (\E p \in persisters : p.latest.token = k)
            ~> (keyring.token >= k \/ phase # "Syncing" \/ bgCancelled)

=============================================================================
