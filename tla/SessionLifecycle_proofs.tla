------------------------ MODULE SessionLifecycle_proofs ------------------------
(* Proofs about SessionLifecycle: one sign-in at a time, the session that is  *)
(* held is the one the phase says, a session begins and ends as the user      *)
(* asked, what was erased is never saved again and tokens never go back, for  *)
(* any number of commands, tokens and failures.                               *)
(*                                                                            *)
(* The invariants come in layers, each proved from those before it: the types *)
(* and the numbers of attempts; the phases, with what is left of sign-ins,    *)
(* restores and erasures; the losses that are reported and the dialogs of a   *)
(* logout; the keyring's lane; and what is written through it.                *)
EXTENDS SessionLifecycle, Queues_proofs

-----------------------------------------------------------------------------
(* The inbox *)

OfKind(kinds) == {m \in Message : m.kind \in kinds}
Waiting == Elements(inbox)
Pending(kinds) == Count(inbox, OfKind(kinds))

\* What a handler takes from the inbox: the first message, and nothing else.
LEMMA TakeFacts ==
    ASSUME inbox \in Seq(Message), NEW kind, Take(kind)
    PROVE  /\ serving = "next" /\ Input \in Message /\ Input.kind = kind
           /\ inbox' \in Seq(Message) /\ Waiting = Waiting' \cup {Input}
           /\ \A kinds : /\ Pending(kinds)' \in Nat
                         /\ Pending(kinds) = Pending(kinds)' + (IF kind \in kinds THEN 1 ELSE 0)
<1>1. inbox # <<>> /\ inbox' = Tail(inbox) /\ Head(inbox).kind = kind /\ serving = "next"
      BY DEF Take
<1>2. /\ Tail(inbox) \in Seq(Message) /\ Head(inbox) \in Message
      /\ Elements(inbox) = Elements(Tail(inbox)) \cup {Head(inbox)}
      /\ \A set : /\ Count(inbox, set) =
                       Count(Tail(inbox), set) + (IF Head(inbox) \in set THEN 1 ELSE 0)
                  /\ Count(Tail(inbox), set) \in Nat
      BY <1>1, QueueTail
<1>3. \A kinds : Head(inbox) \in OfKind(kinds) <=> kind \in kinds
      BY <1>1, <1>2 DEF OfKind
<1> QED BY <1>1, <1>2, <1>3 DEF Waiting, Pending, Input

\* What is sent is behind the rest of the inbox.
LEMMA SendFacts ==
    ASSUME inbox \in Seq(Message), NEW m \in Message, Send(m)
    PROVE  /\ inbox' \in Seq(Message) /\ Waiting' = Waiting \cup {m}
           /\ \A kinds : /\ Pending(kinds) \in Nat
                         /\ Pending(kinds)' = Pending(kinds) + (IF m.kind \in kinds THEN 1 ELSE 0)
<1>1. inbox' = Append(inbox, m) /\ Append(inbox, m) \in Seq(Message)
      BY AppendProperties DEF Send
<1>2. /\ Elements(Append(inbox, m)) = Elements(inbox) \cup {m}
      /\ \A set : Count(Append(inbox, m), set) = Count(inbox, set) + (IF m \in set THEN 1 ELSE 0)
      BY QueueAppend
<1>3. \A kinds : m \in OfKind(kinds) <=> m.kind \in kinds
      BY DEF OfKind
<1>4. \A set : Count(inbox, set) \in Nat
      BY CountType
<1> QED BY <1>1, <1>2, <1>3, <1>4 DEF Waiting, Pending

\* An inbox that stays has what it had.
LEMMA InboxStays ==
    ASSUME UNCHANGED inbox
    PROVE  Waiting' = Waiting /\ \A kinds : Pending(kinds)' = Pending(kinds)
BY DEF Waiting, Pending

\* Nothing of a kind is pending when no message is of that kind.
LEMMA NonePending ==
    ASSUME inbox \in Seq(Message)
    PROVE  \A kinds : /\ Pending(kinds) \in Nat
                      /\ Pending(kinds) = 0 <=> \A m \in Waiting : m.kind \notin kinds
<1> TAKE kinds
<1>1. /\ Count(inbox, OfKind(kinds)) \in Nat
      /\ Count(inbox, OfKind(kinds)) = 0 <=> \A m \in Elements(inbox) : m \notin OfKind(kinds)
      BY CountType
<1>2. \A m \in Elements(inbox) : m \in Message
      BY ElementOfSeq, LenProperties DEF Elements
<1> QED BY <1>1, <1>2 DEF Waiting, Pending, OfKind

\* The messages that are sent, and what is in them.
LEMMA MessageFacts ==
    /\ \A kind \in Commands \cup Events, n \in Nat, s \in Nat :
          /\ Event(kind, n, s) \in Message /\ Event(kind, n, s).kind = kind
          /\ Event(kind, n, s).n = n /\ Event(kind, n, s).s = s
          /\ Event(kind, n, s).cred = NoSession /\ Event(kind, n, s).was = NoSession
    /\ \A kind \in Events, n \in Nat, cred \in Credentials, was \in Credentials :
          /\ Carrying(kind, n, cred, was) \in Message /\ Carrying(kind, n, cred, was).kind = kind
          /\ Carrying(kind, n, cred, was).n = n /\ Carrying(kind, n, cred, was).s = 0
          /\ Carrying(kind, n, cred, was).cred = cred /\ Carrying(kind, n, cred, was).was = was
<1>1. NoSession \in Credentials /\ 0 \in Nat
      BY DEF NoSession, Credentials
<1>2. ASSUME NEW kind \in Commands \cup Events, NEW n \in Nat, NEW s \in Nat
      PROVE  /\ Event(kind, n, s) \in Message /\ Event(kind, n, s).kind = kind
             /\ Event(kind, n, s).n = n /\ Event(kind, n, s).s = s
             /\ Event(kind, n, s).cred = NoSession /\ Event(kind, n, s).was = NoSession
      BY <1>1 DEF Event, Message
<1>3. ASSUME NEW kind \in Events, NEW n \in Nat, NEW cred \in Credentials, NEW was \in Credentials
      PROVE  /\ Carrying(kind, n, cred, was) \in Message /\ Carrying(kind, n, cred, was).kind = kind
             /\ Carrying(kind, n, cred, was).n = n /\ Carrying(kind, n, cred, was).s = 0
             /\ Carrying(kind, n, cred, was).cred = cred /\ Carrying(kind, n, cred, was).was = was
      BY <1>1 DEF Carrying, Message
<1> QED BY <1>2, <1>3

\* The calls that are put in the lane, and what is in them.
LEMMA CallFacts ==
    /\ Read("restore") \in Calls
    /\ \A who \in {"restore", "signIn", "persister", "erasure", "service"},
          n \in Nat, cred \in Credentials :
          /\ Write(who, n, cred) \in Calls /\ Write(who, n, cred).who = who
          /\ Write(who, n, cred).n = n /\ Write(who, n, cred).op = "set"
          /\ Write(who, n, cred).cred = cred
BY DEF Read, Write, Calls, NoSession, Credentials

\* The lane without the call that was run is the rest of it.
LEMMA LaneFacts ==
    ASSUME lane \in Seq(Calls), lane # <<>>
    PROVE  /\ NextCall \in Calls /\ NextCall = Head(lane)
           /\ OtherCalls = Tail(lane) /\ OtherCalls \in Seq(Calls)
<1>1. /\ Len(lane) \in Nat \ {0} /\ Head(lane) = lane[1] /\ Head(lane) \in Calls
      /\ Tail(lane) \in Seq(Calls)
      BY HeadTailProperties, EmptySeq, LenProperties
<1>2. SubSeq(lane, 1, 0) = <<>>
  <2>1. Len(SubSeq(lane, 1, 0)) = 0 /\ SubSeq(lane, 1, 0) \in Seq(Calls)
        BY <1>1, SubSeqProperties
  <2> QED BY <2>1, EmptySeq
<1>3. Tail(lane) = SubSeq(lane, 2, Len(lane))
      BY <1>1, TailIsSubSeq
<1>4. <<>> \o Tail(lane) = Tail(lane)
      BY <1>1, ConcatEmptySeq
<1> QED BY <1>1, <1>2, <1>3, <1>4 DEF NextCall, OtherCalls, Turn

-----------------------------------------------------------------------------
(* Type correctness, and the number of attempts *)

LifecycleTypes ==
    /\ phase \in Phases /\ attempt \in Nat /\ session \in Nat
    /\ held \in [kind: {"None", "Running", "Suspended"}, device: Nat]
    /\ oauthCancel \in 0..attempt /\ prepared \in BOOLEAN
    /\ fired \subseteq 1..attempt /\ dismissed \subseteq 1..attempt
    /\ phase \in AuthPhases => attempt # 0
AccountTypes ==
    /\ logoutCheck \in 0..request /\ logoutWarning \in 0..session /\ request \in Nat
    /\ checks \subseteq [request: Nat, session: Nat]
    /\ \A c \in checks : c.session <= session
LoopTypes ==
    /\ inbox \in Seq(Message) /\ \A m \in Waiting : m.s <= session
    /\ serving \in {"next", "winding", "undoing", "undone", "stuck", "stopped"}
    /\ after \in [then: {"finish", "erase", "suspend", "quit", "undo"}, n: Nat]
TaskTypes ==
    /\ signIns \subseteq SignIns /\ restores \subseteq Restores /\ erasures \subseteq Erasures
BackgroundTypes ==
    /\ syncs \subseteq 1..session /\ persisters \subseteq Persisters /\ bgCancelled \in BOOLEAN
StorageTypes ==
    /\ lane \in Seq(Calls) /\ keyring \in Credentials
    /\ issued \in Nat /\ faults \in 0..MaxFaults /\ gone \subseteq Nat

\* Every attempt was begun by a command that the user sent.
AttemptInv == attempt + Pending(Commands) <= typed /\ typed \in 0..MaxTyped

TypeInv ==
    /\ LifecycleTypes /\ AccountTypes /\ LoopTypes /\ TaskTypes
    /\ BackgroundTypes /\ StorageTypes /\ AttemptInv

\* The type invariant says more than the types that the runs check.
LEMMA TypesOfTypeInv == TypeInv => TypeOK
<1> SUFFICES ASSUME TypeInv PROVE TypeOK
    OBVIOUS
<1> USE DEF TypeInv, LifecycleTypes, AccountTypes, LoopTypes, TaskTypes, BackgroundTypes,
            StorageTypes, AttemptInv
<1>1. attempt \in 0..MaxTyped
  <2>1. Pending(Commands) \in Nat
        BY NonePending
  <2> QED BY <2>1, BoundsAssumption
<1> QED BY <1>1 DEF TypeOK

\* The types hold at first.
LEMMA InitTypeInv == Init => TypeInv
<1> SUFFICES ASSUME Init PROVE TypeInv
    OBVIOUS
<1>1. inbox = <<>> /\ lane = <<>>
      BY DEF Init
<1>2. inbox \in Seq(Message) /\ lane \in Seq(Calls)
      BY <1>1, EmptySeq
<1>3. Waiting = {} /\ \A kinds : Pending(kinds) = 0
      BY <1>1, EmptyQueue DEF Waiting, Pending
<1>4. LifecycleTypes /\ AccountTypes /\ LoopTypes
  <2>1. LifecycleTypes
    <3>1. phase \in Phases
          BY DEF Init, Phases
    <3>2. attempt = 0 /\ session = 0 /\ oauthCancel = 0 /\ prepared = FALSE
          /\ fired = {} /\ dismissed = {} /\ held = [kind |-> "None", device |-> 0]
          BY DEF Init
    <3>3. held \in [kind: {"None", "Running", "Suspended"}, device: Nat]
          BY <3>2
    <3>4. attempt \in Nat /\ session \in Nat /\ oauthCancel \in 0..attempt
          BY <3>2
    <3>5. prepared \in BOOLEAN /\ fired \subseteq 1..attempt /\ dismissed \subseteq 1..attempt
          BY <3>2
    <3>6. phase \notin AuthPhases
          BY DEF Init, AuthPhases
    <3> QED BY <3>1, <3>3, <3>4, <3>5, <3>6 DEF LifecycleTypes
  <2>2. AccountTypes
        BY DEF Init, AccountTypes
  <2>3. LoopTypes
        BY <1>2, <1>3 DEF Init, LoopTypes
  <2> QED BY <2>1, <2>2, <2>3
<1>5. TaskTypes /\ BackgroundTypes
      BY DEF Init, TaskTypes, BackgroundTypes
<1>6. StorageTypes
  <2>1. NoSession \in Credentials /\ [device |-> 1, token |-> 1] \in Credentials
        BY DEF NoSession, Credentials
  <2> QED BY <1>2, <2>1, BoundsAssumption DEF Init, StorageTypes
<1>7. AttemptInv
      BY <1>3, BoundsAssumption DEF Init, AttemptInv
<1> QED BY <1>4, <1>5, <1>6, <1>7 DEF TypeInv

\* A handler that takes an input, and what of the types depends on the inbox.
LEMMA TakeTypes ==
    ASSUME TypeInv, NEW kind, Take(kind)
    PROVE  /\ serving = "next" /\ Input \in Message /\ Input.kind = kind /\ Input.s <= session
           /\ inbox' \in Seq(Message) /\ Waiting' \subseteq Waiting
           /\ \A m \in Waiting' : m.s <= session
           /\ UNCHANGED <<attempt, typed>> => AttemptInv'
           /\ kind \in Commands /\ attempt' = attempt + 1 /\ typed' = typed => AttemptInv'
<1>1. inbox \in Seq(Message) /\ \A m \in Waiting : m.s <= session
      BY DEF TypeInv, LoopTypes
<1>2. /\ serving = "next" /\ Input \in Message /\ Input.kind = kind
      /\ inbox' \in Seq(Message) /\ Waiting = Waiting' \cup {Input}
      /\ Pending(Commands)' \in Nat
      /\ Pending(Commands) = Pending(Commands)' + (IF kind \in Commands THEN 1 ELSE 0)
      BY <1>1, TakeFacts
<1>3. /\ attempt + Pending(Commands) <= typed /\ typed \in 0..MaxTyped
      /\ attempt \in Nat
      BY DEF TypeInv, AttemptInv, LifecycleTypes
<1>4. (Commands)' = Commands
      BY DEF Commands
<1>5. UNCHANGED <<attempt, typed>> => AttemptInv'
      BY <1>2, <1>3, <1>4 DEF AttemptInv
<1>6. kind \in Commands /\ attempt' = attempt + 1 /\ typed' = typed => AttemptInv'
      BY <1>2, <1>3, <1>4 DEF AttemptInv
<1> QED BY <1>1, <1>2, <1>5, <1>6

\* A task that sends what is not about a later session, and no command.
LEMMA SendTypes ==
    ASSUME TypeInv, NEW m \in Message, Send(m), m.kind \in Events, m.s <= session,
           UNCHANGED <<attempt, session, typed>>
    PROVE  /\ inbox' \in Seq(Message) /\ AttemptInv'
           /\ \A w \in Waiting' : w.s <= session'
<1>1. inbox \in Seq(Message) /\ \A w \in Waiting : w.s <= session
      BY DEF TypeInv, LoopTypes
<1>2. /\ inbox' \in Seq(Message) /\ Waiting' = Waiting \cup {m}
      /\ Pending(Commands)' = Pending(Commands) + (IF m.kind \in Commands THEN 1 ELSE 0)
      /\ Pending(Commands) \in Nat
      BY <1>1, SendFacts
<1>3. m.kind \notin Commands
      BY DEF Events, Commands, Verdicts, Losses
<1>4. AttemptInv'
      BY <1>2, <1>3 DEF TypeInv, AttemptInv
<1> QED BY <1>1, <1>2, <1>4

\* An inbox that stays.
LEMMA StillTypes ==
    ASSUME TypeInv, UNCHANGED <<inbox, attempt, session, typed>>
    PROVE  /\ inbox' \in Seq(Message) /\ AttemptInv'
           /\ \A w \in Waiting' : w.s <= session'
<1>1. Waiting' = Waiting /\ Pending(Commands)' = Pending(Commands)
      BY InboxStays
<1> QED BY <1>1 DEF TypeInv, AttemptInv, LoopTypes

\* A call behind the others in the lane, and the lane without its first.
LEMMA LaneTypes ==
    ASSUME lane \in Seq(Calls)
    PROVE  /\ \A c \in Calls : Enqueue(c) => lane' \in Seq(Calls)
           /\ lane # <<>> /\ lane' = OtherCalls => lane' \in Seq(Calls)
<1>1. \A c \in Calls : Enqueue(c) => lane' \in Seq(Calls)
      BY AppendProperties DEF Enqueue
<1>2. lane # <<>> /\ lane' = OtherCalls => lane' \in Seq(Calls)
      BY LaneFacts
<1> QED BY <1>1, <1>2

\* The sets of the session, of its keyring calls and of its devices.
LEMMA NoSessionTypes == NoSession \in Credentials /\ NoSession.device = 0 /\ NoSession.token = 0
BY DEF NoSession, Credentials

HeldTypes == [kind: {"None", "Running", "Suspended"}, device: Nat]
AfterTypes == [then: {"finish", "erase", "suspend", "quit", "undo"}, n: Nat]
ServingTypes == {"next", "winding", "undoing", "undone", "stuck", "stopped"}

\* A handler, once what else it changes is of its types.
LEMMA HandlerTypes ==
    ASSUME TypeInv, NEW kind, Take(kind), UNCHANGED typed,
           \/ UNCHANGED attempt
           \/ kind \in Commands /\ attempt' = attempt + 1,
           session' = session \/ session' = session + 1,
           serving' \in ServingTypes, after' \in AfterTypes,
           LifecycleTypes', AccountTypes', TaskTypes', BackgroundTypes', StorageTypes'
    PROVE  TypeInv'
<1>1. /\ inbox' \in Seq(Message) /\ AttemptInv'
      /\ \A m \in Waiting' : m.s <= session
      BY TakeTypes
<1>2. \A m \in Waiting' : m.s <= session'
  <2>1. \A m \in Waiting' : m.s \in Nat
    <3>1. \A m \in Waiting' : m \in Message
          BY <1>1, ElementOfSeq, LenProperties DEF Waiting, Elements
    <3> QED BY <3>1 DEF Message
  <2>2. session \in Nat
        BY DEF TypeInv, LifecycleTypes
  <2> QED BY <1>1, <2>1, <2>2
<1>3. LoopTypes'
      BY <1>1, <1>2 DEF LoopTypes, ServingTypes, AfterTypes
<1> QED BY <1>1, <1>3 DEF TypeInv

\* What a session that starts is held as, and its tasks.
LEMMA ActivateTypes ==
    ASSUME TypeInv, NEW cred \in Credentials, Activate(cred)
    PROVE  /\ phase' \in Phases /\ session' = session + 1 /\ session' \in Nat
           /\ held' \in HeldTypes /\ BackgroundTypes'
<1>1. session \in Nat /\ cred.device \in Nat
      BY DEF TypeInv, LifecycleTypes, Credentials
<1>2. phase' \in Phases /\ session' = session + 1 /\ session' \in Nat
      BY <1>1 DEF Activate, Phases
<1>3. held' \in HeldTypes
  <2>1. held' = [kind |-> "Running", device |-> cred.device]
        BY DEF Activate
  <2> QED BY <1>1, <2>1 DEF HeldTypes
<1>4. syncs' \subseteq 1..session' /\ bgCancelled' \in BOOLEAN
  <2>1. session' \in 1..session' /\ syncs' = {session'} /\ bgCancelled' = FALSE
        BY <1>1, <1>2 DEF Activate
  <2> QED BY <2>1
<1>5. [session |-> session', latest |-> cred, fresh |-> TRUE, dirty |-> NoSession,
       stage |-> "idle", listening |-> TRUE] \in Persisters
      BY <1>2, NoSessionTypes DEF Persisters
<1>6. persisters' \subseteq Persisters
      BY <1>5 DEF Activate
<1> QED BY <1>2, <1>3, <1>4, <1>6 DEF BackgroundTypes

\* What the loop becomes when it winds down.
LEMMA WindDownTypes ==
    ASSUME TypeInv, NEW then \in {"finish", "erase", "suspend", "quit", "undo"},
           NEW device \in Nat, WindDown(then, device), UNCHANGED session
    PROVE  serving' \in ServingTypes /\ after' \in AfterTypes /\ BackgroundTypes'
<1>1. serving' \in ServingTypes
      BY DEF WindDown, ServingTypes
<1>2. after' = [then |-> then, n |-> device]
      BY DEF WindDown
<1>3. BackgroundTypes'
      BY DEF WindDown, TypeInv, BackgroundTypes
<1> QED BY <1>1, <1>2, <1>3 DEF AfterTypes

\* So does end_session, which winds down what is held.
LEMMA EndSessionTypes ==
    ASSUME TypeInv, EndSession, UNCHANGED session
    PROVE  phase' \in Phases /\ serving' \in ServingTypes /\ after' \in AfterTypes /\ BackgroundTypes'
<1>1. held.device \in Nat
      BY DEF TypeInv, LifecycleTypes
<1>2. phase' \in Phases
      BY DEF EndSession, Phases, EndPhases
<1> QED BY <1>1, <1>2, WindDownTypes DEF EndSession

\* What an authentication settles as is a phase.
LEMMA SettledTypes ==
    \A p \in Phases : IdleAfterAuth(p) \in Phases /\ CancelledPhase(p) \in Phases
BY DEF IdleAfterAuth, CancelledPhase, Phases, AuthPhases

\* A task of a sign-in, as it starts.
LEMMA SignInTypes ==
    ASSUME attempt \in Nat, NEW command \in {"CheckServer", "LoginPassword", "LoginOAuth",
                                             "ReauthPassword", "ReauthOAuth"},
           NEW armed \in BOOLEAN, NEW device \in Nat
    PROVE  SignIn(MethodOf[command], armed, device) \in SignIns
<1>1. MethodOf[command] \in {"check", "password", "browser", "rePassword", "reBrowser"}
      BY DEF MethodOf
<1> QED BY <1>1, NoSessionTypes DEF SignIn, SignIns, SignInStages

\* The dialogs of a logout when a session has started, or none.
LEMMA AccountStays ==
    ASSUME TypeInv, session' = session \/ session' = session + 1, UNCHANGED <<account, checks>>
    PROVE  AccountTypes'
<1>1. session \in Nat /\ AccountTypes
      BY DEF TypeInv, LifecycleTypes
<1>2. logoutWarning' \in 0..session' /\ logoutCheck' \in 0..request' /\ request' \in Nat
      BY <1>1 DEF AccountTypes, account
<1>3. \A c \in checks' : c \in [request: Nat, session: Nat] /\ c.session <= session'
  <2>1. checks' = checks
        OBVIOUS
  <2> QED BY <1>1, <2>1 DEF AccountTypes
<1> QED BY <1>2, <1>3 DEF AccountTypes

\* An answer to an authentication leaves a phase, and begins no attempt.
LEMMA SettleTypes ==
    ASSUME TypeInv, NEW n, SettleAuth(n)
    PROVE  phase' \in Phases /\ (phase' \in AuthPhases => attempt # 0)
<1>1. phase \in Phases /\ (phase \in AuthPhases => attempt # 0)
      BY DEF TypeInv, LifecycleTypes
<1>2. IdleAfterAuth(phase) \in Phases /\ IdleAfterAuth(phase) \notin AuthPhases
      BY DEF IdleAfterAuth, Phases, AuthPhases
<1> QED BY <1>1, <1>2 DEF SettleAuth

\* What the loop holds when a session has started, or has not.
LEMMA MayActivateTypes ==
    ASSUME TypeInv, NEW cred \in Credentials,
           Activate(cred) \/ UNCHANGED <<session, held, background>>
    PROVE  /\ session' = session \/ session' = session + 1
           /\ session' \in Nat /\ held' \in HeldTypes /\ BackgroundTypes'
           /\ Activate(cred) => phase' = "Syncing"
<1>1. CASE Activate(cred)
      BY <1>1, ActivateTypes DEF Activate
<1>2. CASE UNCHANGED <<session, held, background>> /\ ~Activate(cred)
  <2>1. BackgroundTypes'
        BY <1>2 DEF TypeInv, BackgroundTypes, background
  <2>2. session' \in Nat /\ held' \in HeldTypes
        BY <1>2 DEF TypeInv, LifecycleTypes, HeldTypes
  <2> QED BY <1>2, <2>1, <2>2
<1> QED BY <1>1, <1>2

\* What a handler has done to the loop that may wind a session down.
LEMMA MayEndTypes ==
    ASSUME TypeInv, UNCHANGED session,
           \/ EndSession
           \/ phase' = "SoftLoggedOut" /\ WindDown("suspend", held.device)
           \/ UNCHANGED <<phase, serving, after, background>>
    PROVE  /\ phase' \in Phases /\ (phase' \in AuthPhases => attempt # 0)
           /\ serving' \in ServingTypes /\ after' \in AfterTypes /\ BackgroundTypes'
<1>1. CASE EndSession
  <2>1. phase' = "LoggingOut"
        BY <1>1 DEF EndSession
  <2> QED BY <1>1, <2>1, EndSessionTypes DEF AuthPhases
<1>2. CASE phase' = "SoftLoggedOut" /\ WindDown("suspend", held.device)
  <2>1. held.device \in Nat
        BY DEF TypeInv, LifecycleTypes
  <2>2. phase' \in Phases /\ phase' \notin AuthPhases
        BY <1>2 DEF Phases, AuthPhases
  <2> QED BY <1>2, <2>1, <2>2, WindDownTypes
<1>3. CASE UNCHANGED <<phase, serving, after, background>>
  <2>1. BackgroundTypes'
        BY <1>3 DEF TypeInv, BackgroundTypes, background
  <2>2. phase' \in Phases /\ (phase' \in AuthPhases => attempt # 0)
        BY <1>3 DEF TypeInv, LifecycleTypes
  <2>3. serving' \in ServingTypes /\ after' \in AfterTypes
        BY <1>3 DEF TypeInv, LoopTypes, ServingTypes, AfterTypes
  <2> QED BY <2>1, <2>2, <2>3
<1> QED BY <1>1, <1>2, <1>3

\* What the loop and its lifecycle have become is of its types.
LEMMA LifecycleStays ==
    ASSUME TypeInv, UNCHANGED <<attempt, fired, dismissed>>,
           phase' \in Phases, phase' \in AuthPhases => attempt # 0,
           session' \in Nat, held' \in HeldTypes,
           oauthCancel' \in {0, oauthCancel}, prepared' \in {FALSE, prepared}
    PROVE  LifecycleTypes'
<1>1. LifecycleTypes
      BY DEF TypeInv
<1>2. oauthCancel' \in 0..attempt'
      BY <1>1 DEF LifecycleTypes
<1>3. prepared' \in BOOLEAN
      BY <1>1, Zenon DEF LifecycleTypes
<1> QED BY <1>1, <1>2, <1>3 DEF LifecycleTypes, HeldTypes

\* The commands of the user leave everything of its types.
LEMMA CommandTypes ==
    ASSUME TypeInv, HandleCommand
    PROVE  TypeInv'
<1> USE DEF lifecycle, account, operations, background, storage, environment, history
<1>0. /\ LifecycleTypes /\ AccountTypes /\ TaskTypes /\ BackgroundTypes /\ StorageTypes
      /\ serving \in ServingTypes /\ after \in AfterTypes
      BY DEF TypeInv, LoopTypes, ServingTypes, AfterTypes
<1>1. CASE RefuseCommand
  <2>1. PICK command \in Commands : Take(command)
        BY <1>1 DEF RefuseCommand
  <2>2. /\ LifecycleTypes' /\ AccountTypes' /\ TaskTypes' /\ BackgroundTypes' /\ StorageTypes'
        BY <1>0, <1>1 DEF RefuseCommand, LifecycleTypes, AccountTypes, TaskTypes,
                          BackgroundTypes, StorageTypes
  <2> QED BY <1>0, <1>1, <2>1, <2>2, HandlerTypes DEF RefuseCommand
<1>2. CASE RestoreSession
  <2>1. LifecycleTypes' /\ AccountTypes' /\ BackgroundTypes'
        BY <1>0, <1>2 DEF RestoreSession, LifecycleTypes, AccountTypes, BackgroundTypes, Phases,
                          AuthPhases
  <2>2. [stage |-> "loading", cred |-> NoSession] \in Restores
        BY NoSessionTypes DEF Restores
  <2>3. TaskTypes'
        BY <1>0, <1>2, <2>2 DEF RestoreSession, TaskTypes
  <2>4. StorageTypes'
        BY <1>0, <1>2, CallFacts, LaneTypes DEF RestoreSession, StorageTypes
  <2> QED BY <1>0, <1>2, <2>1, <2>3, <2>4, HandlerTypes DEF RestoreSession, Command
<1>3. CASE Authenticate
  <2>1. PICK command \in {"CheckServer", "LoginPassword", "LoginOAuth"} :
            /\ Take(command)
            /\ signIns' = signIns \cup {SignIn(MethodOf[command], prepared, 0)}
            /\ oauthCancel' \in {oauthCancel, NextAttempt}
            /\ prepared' = (prepared \/ command = "CheckServer")
    <3> HIDE DEF lifecycle, account, operations, background, storage, environment, history
    <3> QED BY <1>3, Zenon DEF Authenticate, Command
  <2>2. LifecycleTypes'
    <3>1. attempt' = attempt + 1 /\ phase' \in Phases /\ oauthCancel' \in 0..attempt'
          BY <1>0, <1>3, <2>1 DEF Authenticate, NextAttempt, LifecycleTypes, Phases, AuthPhases
    <3>2. prepared' \in BOOLEAN
          BY <1>0, <2>1, Zenon DEF LifecycleTypes
    <3> QED BY <1>0, <1>3, <3>1, <3>2 DEF Authenticate, LifecycleTypes
  <2>3. TaskTypes'
    <3>1. SignIn(MethodOf[command], prepared, 0) \in SignIns
          BY <1>0, SignInTypes DEF LifecycleTypes
    <3> QED BY <1>0, <1>3, <2>1, <3>1 DEF Authenticate, TaskTypes
  <2>4. AccountTypes' /\ BackgroundTypes' /\ StorageTypes'
        BY <1>0, <1>3 DEF Authenticate, AccountTypes, BackgroundTypes, StorageTypes
  <2>5. command \in Commands /\ attempt' = attempt + 1
        BY <1>3 DEF Authenticate, NextAttempt, Commands
  <2>6. serving' \in ServingTypes /\ after' \in AfterTypes /\ UNCHANGED <<typed, session>>
        BY <1>0, <1>3 DEF Authenticate
  <2> QED BY <2>1, <2>2, <2>3, <2>4, <2>5, <2>6, HandlerTypes
<1>4. CASE Reauthenticate
  <2>1. PICK command \in {"ReauthPassword", "ReauthOAuth"} :
            /\ Take(command)
            /\ \/ UNCHANGED <<attempt, phase, signIns, oauthCancel>>
               \/ /\ attempt' = NextAttempt /\ phase' = "Reauthenticating"
                  /\ signIns' = signIns \cup {SignIn(MethodOf[command], TRUE, held.device)}
                  /\ oauthCancel' \in {oauthCancel, NextAttempt}
            /\ UNCHANGED <<session, held, prepared, account, serving, after, fired, restores,
                           erasures, background, checks, storage, environment, history>>
        BY <1>4 DEF Reauthenticate, Command
  <2>2. LifecycleTypes'
    <3>1. attempt' \in {attempt, attempt + 1} /\ attempt \in Nat /\ oauthCancel' \in 0..attempt'
      <4>1. attempt \in Nat /\ oauthCancel \in 0..attempt
            BY <1>0 DEF LifecycleTypes
      <4>2. \/ UNCHANGED <<attempt, oauthCancel>>
            \/ attempt' = attempt + 1 /\ oauthCancel' \in {oauthCancel, attempt + 1}
            BY <2>1, Zenon DEF NextAttempt
      <4> QED BY <4>1, <4>2
    <3>2. phase' \in Phases /\ (phase' \in AuthPhases => attempt' # 0)
      <4>1. CASE UNCHANGED <<attempt, phase>>
            BY <1>0, <4>1 DEF LifecycleTypes
      <4>2. CASE attempt' = NextAttempt /\ phase' = "Reauthenticating"
            BY <3>1, <4>2 DEF NextAttempt, Phases, AuthPhases
      <4> QED BY <2>1, <4>1, <4>2
    <3> QED BY <1>0, <2>1, <3>1, <3>2 DEF LifecycleTypes
  <2>3. TaskTypes'
    <3>1. SignIn(MethodOf[command], TRUE, held.device) \in SignIns
          BY <1>0, SignInTypes DEF LifecycleTypes
    <3> QED BY <1>0, <2>1, <3>1 DEF TaskTypes
  <2>4. AccountTypes' /\ BackgroundTypes' /\ StorageTypes'
        BY <1>0, <2>1 DEF AccountTypes, BackgroundTypes, StorageTypes
  <2>5. command \in Commands /\ (UNCHANGED attempt \/ attempt' = attempt + 1)
        BY <2>1 DEF NextAttempt, Commands
  <2>6. serving' \in ServingTypes /\ after' \in AfterTypes /\ UNCHANGED <<typed, session>>
        BY <1>0, <2>1
  <2> QED BY <2>1, <2>2, <2>3, <2>4, <2>5, <2>6, HandlerTypes
<1>5. CASE CancelOAuth
  <2>1. phase' \in Phases
        BY <1>0, <1>5, SettledTypes DEF CancelOAuth, LifecycleTypes
  <2>2. attempt \in 1..attempt
    <3>1. phase \in {"Authenticating", "Reauthenticating"}
          BY <1>5 DEF CancelOAuth, Command, Allowed
    <3>2. attempt \in Nat /\ attempt # 0
          BY <1>0, <3>1 DEF LifecycleTypes, AuthPhases
    <3> QED BY <3>2
  <2>3. LifecycleTypes'
        BY <1>0, <1>5, <2>1, <2>2 DEF CancelOAuth, LifecycleTypes
  <2>4. AccountTypes' /\ TaskTypes' /\ BackgroundTypes' /\ StorageTypes'
        BY <1>0, <1>5 DEF CancelOAuth, AccountTypes, TaskTypes, BackgroundTypes, StorageTypes
  <2> QED BY <1>0, <1>5, <2>3, <2>4, HandlerTypes DEF CancelOAuth, Command
<1>6. CASE CheckLogout
  <2>1. AccountTypes'
    <3>1. \/ UNCHANGED <<request, logoutCheck, checks>>
          \/ /\ request' = request + 1 /\ logoutCheck' = request'
             /\ checks' = checks \cup {[request |-> request', session |-> session]}
          BY <1>6 DEF CheckLogout
    <3>2. request \in Nat /\ session \in Nat /\ logoutCheck \in 0..request
          BY <1>0 DEF AccountTypes, LifecycleTypes
    <3>3. request' \in Nat /\ logoutCheck' \in 0..request'
          BY <3>1, <3>2
    <3>4. /\ [request |-> request', session |-> session] \in [request: Nat, session: Nat]
          /\ [request |-> request', session |-> session].session <= session
          BY <3>2, <3>3
    <3>5. checks' \subseteq [request: Nat, session: Nat] /\ \A c \in checks' : c.session <= session
          BY <1>0, <3>1, <3>4 DEF AccountTypes
    <3> QED BY <1>0, <1>6, <3>3, <3>5 DEF CheckLogout, AccountTypes
  <2>2. LifecycleTypes' /\ TaskTypes' /\ BackgroundTypes' /\ StorageTypes'
        BY <1>0, <1>6 DEF CheckLogout, LifecycleTypes, TaskTypes, BackgroundTypes, StorageTypes
  <2> QED BY <1>0, <1>6, <2>1, <2>2, HandlerTypes DEF CheckLogout, Command
<1>7. CASE LogoutUnchecked
  <2>1. UNCHANGED session /\ EndSession
        BY <1>7 DEF LogoutUnchecked
  <2>2. phase' = "LoggingOut" /\ serving' \in ServingTypes /\ after' \in AfterTypes /\ BackgroundTypes'
        BY <2>1, EndSessionTypes DEF EndSession
  <2>3. LifecycleTypes' /\ AccountTypes' /\ TaskTypes' /\ StorageTypes'
        BY <1>0, <1>7, <2>2 DEF LogoutUnchecked, LifecycleTypes, AccountTypes, TaskTypes, StorageTypes,
                                Phases, AuthPhases, EndPhases
  <2> QED BY <1>7, <2>2, <2>3, HandlerTypes DEF LogoutUnchecked, Command
<1>8. CASE ConfirmLogout
  <2>1. \/ EndSession
        \/ UNCHANGED <<phase, serving, after, background>>
    <3> HIDE DEF background
    <3> QED BY <1>8 DEF ConfirmLogout
  <2>2. UNCHANGED session
        BY <1>8 DEF ConfirmLogout
  <2>3. /\ phase' \in Phases /\ (phase' \in AuthPhases => attempt # 0)
        /\ serving' \in ServingTypes /\ after' \in AfterTypes /\ BackgroundTypes'
    <3> HIDE DEF background
    <3> QED BY <2>1, <2>2, MayEndTypes
  <2>4. LifecycleTypes'
        BY <1>0, <1>8, <2>3 DEF ConfirmLogout, LifecycleTypes
  <2>5. AccountTypes' /\ TaskTypes' /\ StorageTypes'
        BY <1>0, <1>8 DEF ConfirmLogout, AccountTypes, TaskTypes, StorageTypes, LifecycleTypes
  <2> QED BY <1>8, <2>3, <2>4, <2>5, HandlerTypes DEF ConfirmLogout, Command
<1>9. CASE CancelLogout
  <2>1. LifecycleTypes' /\ AccountTypes' /\ TaskTypes' /\ BackgroundTypes' /\ StorageTypes'
        BY <1>0, <1>9 DEF CancelLogout, LifecycleTypes, AccountTypes, TaskTypes, BackgroundTypes, StorageTypes
  <2> QED BY <1>0, <1>9, <2>1, HandlerTypes DEF CancelLogout, Command
<1>10. CASE Quit
  <2>1. WindDown("quit", 0) /\ UNCHANGED session
        BY <1>10 DEF Quit
  <2>2. serving' \in ServingTypes /\ after' \in AfterTypes /\ BackgroundTypes'
        BY <2>1, WindDownTypes
  <2>3. LifecycleTypes' /\ AccountTypes' /\ TaskTypes' /\ StorageTypes'
        BY <1>0, <1>10 DEF Quit, LifecycleTypes, AccountTypes, TaskTypes, StorageTypes
  <2> QED BY <1>10, <2>2, <2>3, HandlerTypes DEF Quit, Command
<1> QED BY <1>1, <1>2, <1>3, <1>4, <1>5, <1>6, <1>7, <1>8, <1>9, <1>10 DEF HandleCommand


\* A handler that settles the phase and leaves the tasks alone.
LEMMA SettlingTypes ==
    ASSUME TypeInv, NEW kind, Take(kind), UNCHANGED <<attempt, session, Rest, history>>,
           phase' \in Phases, phase' \in AuthPhases => attempt # 0,
           oauthCancel' \in {0, oauthCancel}
    PROVE  TypeInv'
<1>1. /\ UNCHANGED <<attempt, fired, dismissed, session, prepared, account, checks, typed>>
      /\ UNCHANGED <<signIns, restores, erasures, syncs, persisters, bgCancelled>>
      /\ UNCHANGED <<lane, keyring, issued, faults, gone, serving, after, held>>
      BY DEF Rest, history, operations, background, storage, environment
<1>2. session' \in Nat /\ held' \in HeldTypes /\ prepared' \in {FALSE, prepared}
      BY <1>1 DEF TypeInv, LifecycleTypes, HeldTypes
<1>3. LifecycleTypes'
      BY <1>1, <1>2, LifecycleStays
<1>4. AccountTypes'
      BY <1>1, AccountStays
<1>5. TaskTypes' /\ BackgroundTypes' /\ StorageTypes'
      BY <1>1 DEF TypeInv, TaskTypes, BackgroundTypes, StorageTypes
<1>6. serving' \in ServingTypes /\ after' \in AfterTypes
      BY <1>1 DEF TypeInv, LoopTypes, ServingTypes, AfterTypes
<1> QED BY <1>1, <1>3, <1>4, <1>5, <1>6, HandlerTypes

\* A handler that may start a session.
LEMMA StartingTypes ==
    ASSUME TypeInv, NEW kind, Take(kind),
           UNCHANGED <<attempt, account, serving, after, operations, checks, storage,
                       environment, history>>,
           Activate(Input.cred) \/ UNCHANGED <<session, held, background>>,
           phase' \in Phases, phase' \in AuthPhases => attempt # 0,
           oauthCancel' \in {0, oauthCancel}, prepared' \in {FALSE, prepared}
    PROVE  TypeInv'
<1>1. /\ UNCHANGED <<attempt, fired, dismissed, account, checks, typed>>
      /\ UNCHANGED <<signIns, restores, erasures>>
      /\ UNCHANGED <<lane, keyring, issued, faults, gone, serving, after>>
      BY DEF history, operations, storage, environment
<1>2. Input.cred \in Credentials
  <2>1. Input \in Message
        BY TakeTypes
  <2> QED BY <2>1 DEF Message
<1>3. /\ session' = session \/ session' = session + 1
      /\ session' \in Nat /\ held' \in HeldTypes /\ BackgroundTypes'
      BY <1>2, MayActivateTypes
<1>4. LifecycleTypes'
      BY <1>1, <1>3, LifecycleStays
<1>5. AccountTypes'
      BY <1>1, <1>3, AccountStays
<1>6. TaskTypes' /\ StorageTypes'
      BY <1>1 DEF TypeInv, TaskTypes, StorageTypes
<1>7. serving' \in ServingTypes /\ after' \in AfterTypes
      BY <1>1 DEF TypeInv, LoopTypes, ServingTypes, AfterTypes
<1> QED BY <1>1, <1>3, <1>4, <1>5, <1>6, <1>7, HandlerTypes

\* A handler that may end a session.
LEMMA EndingTypes ==
    ASSUME TypeInv, NEW kind, Take(kind),
           UNCHANGED <<attempt, session, held, oauthCancel, prepared, operations, checks,
                       storage, environment, history>>,
           \/ EndSession
           \/ phase' = "SoftLoggedOut" /\ WindDown("suspend", held.device)
           \/ UNCHANGED <<phase, serving, after, background>>,
           AccountTypes'
    PROVE  TypeInv'
<1>1. /\ UNCHANGED <<attempt, fired, dismissed, typed, session, held>>
      /\ UNCHANGED <<signIns, restores, erasures>>
      /\ UNCHANGED <<lane, keyring, issued, faults, gone>>
      BY DEF history, operations, storage, environment
<1>2. /\ phase' \in Phases /\ (phase' \in AuthPhases => attempt # 0)
      /\ serving' \in ServingTypes /\ after' \in AfterTypes /\ BackgroundTypes'
      BY <1>1, MayEndTypes
<1>3. session' \in Nat /\ held' \in HeldTypes
      BY <1>1 DEF TypeInv, LifecycleTypes, HeldTypes
<1>4. LifecycleTypes'
      BY <1>1, <1>2, <1>3, LifecycleStays
<1>5. TaskTypes' /\ StorageTypes'
      BY <1>1 DEF TypeInv, TaskTypes, StorageTypes
<1> QED BY <1>1, <1>2, <1>4, <1>5, HandlerTypes

\* The handlers of the tasks' events leave everything of its types.
LEMMA EventTypes ==
    ASSUME TypeInv, HandleEvent
    PROVE  TypeInv'
<1>0. phase \in Phases /\ (phase \in AuthPhases => attempt # 0)
      BY DEF TypeInv, LifecycleTypes
<1>1. CASE SettleRestore
  <2>1. phase' \in Phases /\ (phase' \in AuthPhases => attempt # 0)
        BY <1>0, <1>1 DEF SettleRestore, Activate, Phases, AuthPhases
  <2> QED BY <1>1, <2>1, StartingTypes DEF SettleRestore
<1>2. CASE SettleRestoreFailure
  <2>1. PICK kind \in {"RestoreFailed", "RestorePaused"} : Take(kind)
        BY <1>2 DEF SettleRestoreFailure
  <2>2. phase' \in Phases /\ (phase' \in AuthPhases => attempt # 0)
        BY <1>0, <1>2 DEF SettleRestoreFailure, Phases, AuthPhases
  <2> QED BY <1>2, <2>1, <2>2, SettlingTypes DEF SettleRestoreFailure
<1>3. CASE SettleDiscovery
  <2>1. phase' \in Phases /\ (phase' \in AuthPhases => attempt # 0)
        BY <1>3, SettleTypes DEF SettleDiscovery
  <2> QED BY <1>3, <2>1, SettlingTypes DEF SettleDiscovery
<1>4. CASE SettleAuthFailure
  <2>1. PICK kind \in {"AuthRejected", "AuthCancelled"} : Take(kind)
        BY <1>4 DEF SettleAuthFailure
  <2>2. phase' \in Phases /\ (phase' \in AuthPhases => attempt # 0)
        BY <1>4, SettleTypes DEF SettleAuthFailure
  <2> QED BY <1>4, <2>1, <2>2, SettlingTypes DEF SettleAuthFailure
<1>5. CASE SettleLogin
  <2>1. phase' \in Phases /\ (phase' \in AuthPhases => attempt # 0)
        BY <1>0, <1>5 DEF SettleLogin, Activate, Phases, AuthPhases
  <2> QED BY <1>5, <2>1, StartingTypes DEF SettleLogin
<1>6. CASE UndoSupersededLogin
  <2>1. Take("LoggedIn") /\ Input \in Message
        BY <1>6, TakeTypes DEF UndoSupersededLogin
  <2>2. Input.n \in Nat /\ Input.was \in Credentials /\ Input.cred.device \in Nat
        BY <2>1 DEF Message, Credentials
  <2>3. /\ \/ /\ serving' = "undoing" /\ after' = [then |-> "undo", n |-> Input.n]
              /\ Enqueue(Write("service", Input.cred.device, Input.was)) /\ UNCHANGED phase
           \/ phase' = "Blocked" /\ UNCHANGED <<serving, after, lane>>
        /\ UNCHANGED <<attempt, session, held, account, operations, background, checks,
                       keyring, environment, history>>
        /\ oauthCancel' = 0 /\ prepared' = FALSE
        BY <1>6 DEF UndoSupersededLogin
  <2>4. UNCHANGED <<fired, dismissed, typed, signIns, restores, erasures, syncs, persisters,
                    bgCancelled, issued, faults, gone>>
        BY <2>3 DEF history, operations, environment, background
  <2>5. phase' \in Phases /\ (phase' \in AuthPhases => attempt # 0)
        BY <1>0, <2>3 DEF Phases, AuthPhases
  <2>6. LifecycleTypes'
    <3>1. session' \in Nat /\ held' \in HeldTypes
          BY <2>3 DEF TypeInv, LifecycleTypes, HeldTypes
    <3> QED BY <2>3, <2>4, <2>5, <3>1, LifecycleStays
  <2>7. AccountTypes'
        BY <2>3, AccountStays
  <2>8. TaskTypes' /\ BackgroundTypes'
        BY <2>3, <2>4 DEF TypeInv, TaskTypes, BackgroundTypes
  <2>9. StorageTypes'
    <3>1. lane' \in Seq(Calls)
          BY <2>2, <2>3, CallFacts, LaneTypes DEF TypeInv, StorageTypes
    <3> QED BY <2>3, <2>4, <3>1 DEF TypeInv, StorageTypes
  <2>10. serving' \in ServingTypes /\ after' \in AfterTypes
    <3>1. serving \in ServingTypes /\ after \in AfterTypes
          BY DEF TypeInv, LoopTypes, ServingTypes, AfterTypes
    <3>2. [then |-> "undo", n |-> Input.n] \in AfterTypes
          BY <2>2 DEF AfterTypes
    <3> QED BY <2>3, <3>1, <3>2 DEF ServingTypes
  <2> QED BY <2>1, <2>3, <2>4, <2>6, <2>7, <2>8, <2>9, <2>10, HandlerTypes
<1>7. CASE SettleUnresolved
  <2>1. phase' \in Phases /\ (phase' \in AuthPhases => attempt # 0)
        BY <1>7 DEF SettleUnresolved, Phases, AuthPhases
  <2> QED BY <1>7, <2>1, SettlingTypes DEF SettleUnresolved
<1>8. CASE SettleResume
  <2>1. \/ Activate(Input.cred)
        \/ SettleAuth(Input.n) /\ UNCHANGED <<session, held, background>>
    <3>1. IF Resumes(Input.n) THEN Activate(Input.cred)
          ELSE SettleAuth(Input.n) /\ UNCHANGED <<session, held, background>>
          BY <1>8 DEF SettleResume
    <3>2. CASE Resumes(Input.n)
          BY <3>1, <3>2
    <3>3. CASE ~Resumes(Input.n)
          BY <3>1, <3>3
    <3> QED BY <3>2, <3>3
  <2>2. phase' \in Phases /\ (phase' \in AuthPhases => attempt # 0)
    <3>1. "Syncing" \in Phases /\ "Syncing" \notin AuthPhases
          BY DEF Phases, AuthPhases
    <3> QED BY <2>1, <3>1, SettleTypes DEF Activate
  <2> QED BY <1>8, <2>1, <2>2, StartingTypes DEF SettleResume
<1>9. CASE SuspendSession
  <2>1. AccountTypes'
        BY <1>9, AccountStays DEF SuspendSession
  <2> QED BY <1>9, <2>1, EndingTypes DEF SuspendSession
<1>10. CASE ExpireSession
  <2>1. AccountTypes'
        BY <1>10, AccountStays DEF ExpireSession
  <2> QED BY <1>10, <2>1, EndingTypes DEF ExpireSession
<1>11. CASE LogoutChecked
  <2>1. PICK kind \in {"LogoutSafe", "LogoutRisky"} : Take(kind)
        BY <1>11 DEF LogoutChecked
  <2>2. AccountTypes'
    <3>1. AccountTypes /\ session \in Nat
          BY DEF TypeInv, LifecycleTypes
    <3>2. Input.s \in 0..session
      <4>1. Input \in Message /\ Input.s <= session
            BY <2>1, TakeTypes
      <4> QED BY <3>1, <4>1 DEF Message
    <3>3. /\ logoutCheck' \in {0, logoutCheck}
          /\ logoutWarning' \in {Input.s, logoutWarning}
          /\ UNCHANGED <<request, checks, session>>
          BY <1>11 DEF LogoutChecked
    <3>4. logoutCheck' \in 0..request' /\ logoutWarning' \in 0..session' /\ request' \in Nat
          BY <3>1, <3>2, <3>3 DEF AccountTypes
    <3>5. \A c \in checks' : c \in [request: Nat, session: Nat] /\ c.session <= session'
          BY <3>1, <3>3 DEF AccountTypes
    <3> QED BY <3>4, <3>5 DEF AccountTypes
  <2>3. EndSession \/ UNCHANGED <<phase, serving, after, background>>
        BY <1>11 DEF LogoutChecked
  <2>4. UNCHANGED <<attempt, session, held, oauthCancel, prepared, operations, checks,
                    storage, environment, history>>
        BY <1>11 DEF LogoutChecked
  <2> QED BY <2>1, <2>2, <2>3, <2>4, EndingTypes
<1>12. CASE SettleErasure
  <2>1. PICK kind \in {"ErasingLocalState", "LocalStateCleared"} : Take(kind)
        BY <1>12 DEF SettleErasure
  <2>2. phase' \in Phases /\ (phase' \in AuthPhases => attempt # 0)
        BY <1>0, <1>12 DEF SettleErasure, Phases, AuthPhases, EndPhases
  <2> QED BY <1>12, <2>1, <2>2, SettlingTypes DEF SettleErasure
<1> QED BY <1>1, <1>2, <1>3, <1>4, <1>5, <1>6, <1>7, <1>8, <1>9, <1>10, <1>11, <1>12 DEF HandleEvent


\* A step that takes nothing from the inbox and leaves the lifecycle alone.
LEMMA TaskStepTypes ==
    ASSUME TypeInv,
           UNCHANGED <<attempt, session, oauthCancel, prepared, request, fired, dismissed, typed>>,
           phase' \in Phases, phase' \in AuthPhases => attempt # 0, held' \in HeldTypes,
           \/ UNCHANGED inbox
           \/ \E m \in Message : Send(m) /\ m.kind \in Events /\ m.s <= session,
           UNCHANGED after, serving' \in ServingTypes,
           logoutCheck' \in {0, logoutCheck}, logoutWarning' \in {0, logoutWarning},
           checks' \subseteq checks,
           TaskTypes', BackgroundTypes', StorageTypes'
    PROVE  TypeInv'
<1>1. inbox' \in Seq(Message) /\ AttemptInv' /\ \A w \in Waiting' : w.s <= session'
      BY SendTypes, StillTypes
<1>2. after' \in AfterTypes
      BY DEF TypeInv, LoopTypes, AfterTypes
<1>3. LoopTypes'
      BY <1>1, <1>2 DEF LoopTypes, ServingTypes, AfterTypes
<1>4. session' \in Nat
      BY DEF TypeInv, LifecycleTypes
<1>5. LifecycleTypes'
      BY <1>4, LifecycleStays
<1>6. AccountTypes'
  <2>1. AccountTypes /\ session \in Nat
        BY DEF TypeInv, LifecycleTypes
  <2>2. logoutCheck' \in 0..request' /\ logoutWarning' \in 0..session' /\ request' \in Nat
        BY <2>1 DEF AccountTypes
  <2> QED BY <2>1, <2>2 DEF AccountTypes
<1> QED BY <1>1, <1>3, <1>5, <1>6 DEF TypeInv

\* What is as before is of its types.
LEMMA AsBefore ==
    ASSUME TypeInv
    PROVE  /\ phase \in Phases /\ (phase \in AuthPhases => attempt # 0)
           /\ held \in HeldTypes /\ serving \in ServingTypes
           /\ UNCHANGED <<signIns, restores, erasures>> => TaskTypes'
           /\ UNCHANGED <<session, syncs, persisters, bgCancelled>> => BackgroundTypes'
           /\ UNCHANGED <<lane, keyring, issued, faults, gone>> => StorageTypes'
BY DEF TypeInv, LifecycleTypes, LoopTypes, TaskTypes, BackgroundTypes, StorageTypes, HeldTypes,
       ServingTypes

\* The rest of a handler that waited leaves everything of its types.
LEMMA ResumeTypes ==
    ASSUME TypeInv, Resume
    PROVE  TypeInv'
<1>1. CASE LoginUndone
  <2>1. /\ UNCHANGED <<attempt, session, held, oauthCancel, prepared, account, inbox, after,
                       operations, background, checks, storage, environment, history>>
        /\ SettleAuth(after.n) \/ phase' = "Blocked"
        /\ serving' = "next"
        BY <1>1 DEF LoginUndone
  <2>2. phase' \in Phases /\ (phase' \in AuthPhases => attempt # 0)
    <3>1. "Blocked" \in Phases /\ "Blocked" \notin AuthPhases
          BY DEF Phases, AuthPhases
    <3> QED BY <2>1, <3>1, SettleTypes
  <2>3. UNCHANGED <<request, logoutCheck, logoutWarning, fired, dismissed, typed, signIns, restores,
                    erasures, syncs, persisters, bgCancelled, lane, keyring, issued, faults, gone>>
        BY <2>1 DEF account, operations, background, storage, environment, history
  <2>4. held' \in HeldTypes /\ TaskTypes' /\ BackgroundTypes' /\ StorageTypes'
        BY <2>1, <2>3, AsBefore
  <2>5. serving' \in ServingTypes
        BY <2>1 DEF ServingTypes
  <2> QED BY <2>1, <2>2, <2>3, <2>4, <2>5, TaskStepTypes
<1>2. CASE WoundDown
  <2>1. /\ UNCHANGED <<attempt, session, oauthCancel, prepared, request, inbox, after,
                       signIns, fired, restores, background, checks, storage, environment, history>>
        BY <1>2 DEF WoundDown
  <2>2. UNCHANGED <<dismissed, typed, syncs, persisters, bgCancelled, lane, keyring, issued,
                    faults, gone>>
        BY <2>1 DEF background, storage, environment, history
  <2>3. /\ serving' \in {"stopped", "next"}
        /\ phase' \in {phase, "LoggedOut"}
        /\ held' \in {held, WhatIsHeldAfter(after)}
        /\ erasures' \in {erasures, {Erasure(session, after.n)}}
        /\ logoutCheck' \in {0, logoutCheck} /\ logoutWarning' \in {0, logoutWarning}
        BY <1>2 DEF WoundDown, ForgetLogoutDialog
  <2>4. after \in AfterTypes /\ session \in Nat
        BY DEF TypeInv, LoopTypes, LifecycleTypes, AfterTypes
  <2>5. held' \in HeldTypes
    <3>1. after.n \in Nat
          BY <2>4 DEF AfterTypes
    <3>2. [kind |-> "Suspended", device |-> after.n] \in HeldTypes
          /\ [kind |-> "None", device |-> 0] \in HeldTypes
          BY <3>1 DEF HeldTypes
    <3> QED BY <2>3, <3>2, AsBefore DEF WhatIsHeldAfter
  <2>6. Erasure(session, after.n) \in Erasures
        BY <2>4 DEF Erasure, Erasures, AfterTypes
  <2>7. TaskTypes'
        BY <2>1, <2>3, <2>6 DEF TypeInv, TaskTypes
  <2>8. phase' \in Phases /\ (phase' \in AuthPhases => attempt # 0)
    <3>1. "LoggedOut" \in Phases /\ "LoggedOut" \notin AuthPhases
          BY DEF Phases, AuthPhases
    <3> QED BY <2>3, <3>1, AsBefore
  <2>9. serving' \in ServingTypes
        BY <2>3 DEF ServingTypes
  <2>10. BackgroundTypes' /\ StorageTypes'
        BY <2>1, <2>2, AsBefore
  <2> QED BY <2>1, <2>2, <2>3, <2>5, <2>7, <2>8, <2>9, <2>10, TaskStepTypes
<1> QED BY <1>1, <1>2 DEF Resume

\* What an abort takes away.
LEMMA AbortTypes ==
    ASSUME TypeInv, AbortStragglers
    PROVE  TypeInv'
<1>1. /\ UNCHANGED <<attempt, session, oauthCancel, prepared, request, fired, dismissed, typed,
                     phase, held, inbox, after, serving, logoutCheck, logoutWarning,
                     lane, keyring, issued, faults, gone, bgCancelled>>
      BY DEF AbortStragglers, lifecycle, account, loop, storage, environment, history
<1>2. /\ checks' \in {{}, checks} /\ syncs' \in {{}, syncs} /\ persisters' \in {{}, persisters}
      /\ signIns' \in {{}, signIns} /\ restores' \in {{}, restores} /\ erasures' \in {{}, erasures}
      BY DEF AbortStragglers
<1>3. TaskTypes'
      BY <1>2 DEF TypeInv, TaskTypes
<1>4. BackgroundTypes'
      BY <1>1, <1>2 DEF TypeInv, BackgroundTypes
<1>5. checks' \subseteq checks
      BY <1>2
<1> QED BY <1>1, <1>3, <1>4, <1>5, AsBefore, TaskStepTypes


\* What a task's step changes beyond its own record.
LEMMA OwnStepTypes ==
    ASSUME TypeInv,
           UNCHANGED <<lifecycle, held, oauthCancel, prepared, account, serving, after, fired,
                       typed, dismissed>>,
           \/ UNCHANGED inbox
           \/ \E m \in Message : Send(m) /\ m.kind \in Events /\ m.s <= session,
           checks' \subseteq checks,
           TaskTypes', BackgroundTypes', StorageTypes'
    PROVE  TypeInv'
<1>1. UNCHANGED <<phase, attempt, session, logoutCheck, logoutWarning, request>>
      BY DEF lifecycle, account
<1>2. phase' \in Phases /\ (phase' \in AuthPhases => attempt # 0) /\ held' \in HeldTypes
      /\ serving' \in ServingTypes
      BY <1>1, AsBefore
<1> QED BY <1>1, <1>2, TaskStepTypes

\* What a sign-in reports and how it goes on.
LEMMA SignInRecords ==
    ASSUME NEW t \in SignIns
    PROVE  /\ t.attempt \in Nat /\ t.cred \in Credentials /\ t.was \in Credentials /\ t.device \in Nat
           /\ \A cred \in Credentials : [t EXCEPT !.stage = "saving", !.cred = cred] \in SignIns
           /\ [t EXCEPT !.stage = "puttingBack"] \in SignIns
           /\ \A kind \in {"AuthCancelled", "AuthRejected", "ServerDiscovered"} :
                 /\ Event(kind, t.attempt, 0) \in Message
                 /\ Event(kind, t.attempt, 0).kind \in Events /\ Event(kind, t.attempt, 0).s = 0
           /\ /\ Event("LoginUnresolved", 0, 0) \in Message
              /\ Event("LoginUnresolved", 0, 0).kind \in Events /\ Event("LoginUnresolved", 0, 0).s = 0
           /\ \A kind \in {"LoggedIn", "Resumed"}, was \in {t.was, NoSession} :
                 /\ Carrying(kind, t.attempt, t.cred, was) \in Message
                 /\ Carrying(kind, t.attempt, t.cred, was).kind \in Events
                 /\ Carrying(kind, t.attempt, t.cred, was).s = 0
<1>1. t.attempt \in Nat /\ t.cred \in Credentials /\ t.was \in Credentials /\ t.device \in Nat
      BY DEF SignIns
<1>2. \A cred \in Credentials : [t EXCEPT !.stage = "saving", !.cred = cred] \in SignIns
      BY DEF SignIns, SignInStages
<1>3. [t EXCEPT !.stage = "puttingBack"] \in SignIns
      BY DEF SignIns, SignInStages
<1>4. {"AuthCancelled", "AuthRejected", "ServerDiscovered", "LoggedIn", "Resumed", "LoginUnresolved"}
          \subseteq Events
      BY DEF Events, Verdicts
<1>5. \A kind \in {"AuthCancelled", "AuthRejected", "ServerDiscovered"} :
         /\ Event(kind, t.attempt, 0) \in Message
         /\ Event(kind, t.attempt, 0).kind \in Events /\ Event(kind, t.attempt, 0).s = 0
      BY <1>1, <1>4, MessageFacts
<1>6. /\ Event("LoginUnresolved", 0, 0) \in Message
      /\ Event("LoginUnresolved", 0, 0).kind \in Events /\ Event("LoginUnresolved", 0, 0).s = 0
      BY <1>4, MessageFacts
<1>7. \A kind \in {"LoggedIn", "Resumed"}, was \in {t.was, NoSession} :
                 /\ Carrying(kind, t.attempt, t.cred, was) \in Message
                 /\ Carrying(kind, t.attempt, t.cred, was).kind \in Events
                 /\ Carrying(kind, t.attempt, t.cred, was).s = 0
  <2> TAKE kind \in {"LoggedIn", "Resumed"}, was \in {t.was, NoSession}
  <2>1. kind \in Events /\ was \in Credentials
        BY <1>1, <1>4, NoSessionTypes
  <2> QED BY <1>1, <2>1, MessageFacts
<1> QED BY <1>1, <1>2, <1>3, <1>5, <1>6, <1>7

\* A sign-in goes on of its types.
LEMMA SignInStepTypes ==
    ASSUME TypeInv, SignInStep
    PROVE  TypeInv'
<1>1. PICK t \in signIns :
          \/ SignInCancelled(t) \/ SignInRefused(t) \/ ServerChecked(t) \/ SignInGranted(t)
          \/ LoginEstablished(t) \/ LoginRollsBack(t) \/ LoginRolledBack(t) \/ LoginStuck(t)
          \/ SessionResumed(t)
      BY DEF SignInStep
<1>2. SignInRest
      BY <1>1 DEF SignInCancelled, SignInRefused, ServerChecked, SignInGranted, LoginEstablished,
                  LoginRollsBack, LoginRolledBack, LoginStuck, SessionResumed
<1>3. t \in SignIns /\ signIns \subseteq SignIns /\ session \in Nat /\ issued \in Nat
      /\ lane \in Seq(Calls)
      BY DEF TypeInv, TaskTypes, LifecycleTypes, StorageTypes
<1>4. /\ UNCHANGED <<lifecycle, held, oauthCancel, prepared, account, serving, after, fired,
                     typed, dismissed, session>>
      /\ UNCHANGED <<checks, restores, erasures, syncs, persisters, bgCancelled, keyring, faults, gone>>
      BY <1>2 DEF SignInRest, history, background, lifecycle
<1>5. BackgroundTypes'
      BY <1>4, AsBefore
<1>6. CASE \E m \in Message : Reports(t, m) /\ UNCHANGED <<lane, issued>> /\ m.kind \in Events /\ m.s = 0
  <2>1. \E m \in Message : Send(m) /\ m.kind \in Events /\ m.s <= session
        BY <1>3, <1>6 DEF Reports
  <2>2. signIns' \subseteq signIns /\ UNCHANGED <<lane, issued>>
        BY <1>6 DEF Reports
  <2>3. TaskTypes'
        BY <1>4, <2>2 DEF TypeInv, TaskTypes
  <2>4. StorageTypes'
        BY <1>4, <2>2, AsBefore
  <2> QED BY <1>4, <1>5, <2>1, <2>3, <2>4, OwnStepTypes
<1>7. CASE \E next \in SignIns, call \in Calls :
              Becomes(t, next) /\ Enqueue(call) /\ UNCHANGED inbox /\ issued' \in Nat
  <2>1. signIns' \subseteq SignIns
        BY <1>3, <1>7 DEF Becomes
  <2>2. lane' \in Seq(Calls) /\ issued' \in Nat /\ UNCHANGED inbox
        BY <1>3, <1>7, LaneTypes
  <2>3. TaskTypes'
        BY <1>4, <2>1 DEF TypeInv, TaskTypes
  <2>4. StorageTypes'
        BY <1>4, <2>2 DEF TypeInv, StorageTypes
  <2> QED BY <1>4, <1>5, <2>2, <2>3, <2>4, OwnStepTypes
<1>8. \/ SignInCancelled(t) \/ SignInRefused(t) \/ ServerChecked(t) \/ LoginEstablished(t)
      \/ LoginRolledBack(t) \/ LoginStuck(t) \/ SessionResumed(t)
      => \E m \in Message : Reports(t, m) /\ UNCHANGED <<lane, issued>> /\ m.kind \in Events /\ m.s = 0
  <2>1. /\ SignInCancelled(t) => Reports(t, Event("AuthCancelled", t.attempt, 0)) /\ UNCHANGED <<lane, issued>>
        /\ SignInRefused(t) => Reports(t, Event("AuthRejected", t.attempt, 0)) /\ UNCHANGED <<lane, issued>>
        /\ ServerChecked(t) => Reports(t, Event("ServerDiscovered", t.attempt, 0)) /\ UNCHANGED <<lane, issued>>
        /\ LoginEstablished(t) => Reports(t, Carrying("LoggedIn", t.attempt, t.cred, t.was)) /\ UNCHANGED <<lane, issued>>
        /\ LoginRolledBack(t) => Reports(t, Event("AuthRejected", t.attempt, 0)) /\ UNCHANGED <<lane, issued>>
        /\ LoginStuck(t) => Reports(t, Event("LoginUnresolved", 0, 0)) /\ UNCHANGED <<lane, issued>>
        /\ SessionResumed(t) => Reports(t, Carrying("Resumed", t.attempt, t.cred, NoSession)) /\ UNCHANGED <<lane, issued>>
        BY DEF SignInCancelled, SignInRefused, ServerChecked, LoginEstablished, LoginRolledBack,
               LoginStuck, SessionResumed
  <2> QED BY <1>3, <2>1, SignInRecords
<1>9. SignInGranted(t) \/ LoginRollsBack(t)
      => \E next \in SignIns, call \in Calls :
              Becomes(t, next) /\ Enqueue(call) /\ UNCHANGED inbox /\ issued' \in Nat
  <2>1. CASE SignInGranted(t)
    <3> DEFINE cred == [device |-> IF t.method \in LoginMethods THEN issued' ELSE t.device,
                        token |-> issued']
    <3>1. /\ issued' = issued + 1 /\ UNCHANGED inbox
          /\ Becomes(t, [t EXCEPT !.stage = "saving", !.cred = cred])
          /\ Enqueue(Write("signIn", t.attempt, cred))
          BY <2>1 DEF SignInGranted
    <3>2. cred \in Credentials
      <4>1. issued' \in Nat
        <5>1. issued' = issued + 1
              BY <3>1
        <5> QED BY <1>3, <5>1
      <4>2. t.device \in Nat
            BY <1>3, SignInRecords
      <4> QED BY <4>1, <4>2 DEF Credentials
    <3> HIDE DEF cred
    <3>3. issued' \in Nat
          BY <1>3, <3>1
    <3>4. [t EXCEPT !.stage = "saving", !.cred = cred] \in SignIns
          BY <1>3, <3>2, SignInRecords
    <3>5. Write("signIn", t.attempt, cred) \in Calls
          BY <1>3, <3>2, SignInRecords, CallFacts
    <3> QED BY <3>1, <3>3, <3>4, <3>5
  <2>2. CASE LoginRollsBack(t)
    <3>1. /\ Becomes(t, [t EXCEPT !.stage = "puttingBack"])
          /\ Enqueue(Write("signIn", t.attempt, t.was))
          /\ UNCHANGED <<inbox, issued>>
          BY <2>2 DEF LoginRollsBack
    <3> QED BY <1>3, <3>1, SignInRecords, CallFacts
  <2> QED BY <2>1, <2>2
<1> QED BY <1>1, <1>6, <1>7, <1>8, <1>9


\* A restore goes on of its types.
LEMMA RestoreStepTypes ==
    ASSUME TypeInv, RestoreStep
    PROVE  TypeInv'
<1>1. PICK r \in restores :
          RestoreFails(r) \/ RestorePauses(r) \/ RestoreSucceeds(r) \/ RestoreForgets(r)
      BY DEF RestoreStep
<1>2. r \in Restores /\ restores \subseteq Restores /\ session \in Nat /\ lane \in Seq(Calls)
      BY DEF TypeInv, TaskTypes, LifecycleTypes, StorageTypes
<1>3. RestoreRest
      BY <1>1 DEF RestoreFails, RestorePauses, RestoreSucceeds, RestoreForgets
<1>4. /\ UNCHANGED <<lifecycle, held, oauthCancel, prepared, account, serving, after, fired,
                     typed, dismissed, session>>
      /\ UNCHANGED <<checks, signIns, erasures, syncs, persisters, bgCancelled, keyring, issued,
                     faults, gone>>
      BY <1>3 DEF RestoreRest, history, background, lifecycle, environment
<1>5. BackgroundTypes'
      BY <1>4, AsBefore
<1>6. \/ \E m \in Message : RestoreEnds(r, m) /\ m.kind \in Events /\ m.s = 0
      \/ RestoreForgets(r)
  <2>1. \/ RestoreEnds(r, Event("RestoreFailed", 0, 0)) \/ RestoreEnds(r, Event("RestorePaused", 0, 0))
        \/ RestoreEnds(r, Carrying("Restored", 0, r.cred, NoSession)) \/ RestoreForgets(r)
        BY <1>1 DEF RestoreFails, RestorePauses, RestoreSucceeds
  <2>2. {"RestoreFailed", "RestorePaused", "Restored"} \subseteq Events
        BY DEF Events
  <2>3. r.cred \in Credentials
        BY <1>2 DEF Restores
  <2> QED BY <2>1, <2>2, <2>3, MessageFacts, NoSessionTypes
<1>7. \/ UNCHANGED inbox
      \/ \E m \in Message : Send(m) /\ m.kind \in Events /\ m.s <= session
      BY <1>2, <1>6 DEF RestoreEnds, RestoreForgets
<1>8. [r EXCEPT !.stage = "forgetting"] \in Restores
      BY <1>2 DEF Restores
<1>9. restores' \subseteq Restores
      BY <1>2, <1>6, <1>8 DEF RestoreEnds, RestoreForgets
<1>10. lane' \in Seq(Calls)
      BY <1>2, <1>6, LaneTypes, CallFacts, NoSessionTypes DEF RestoreEnds, RestoreForgets
<1>11. TaskTypes' /\ StorageTypes'
      BY <1>4, <1>9, <1>10 DEF TypeInv, TaskTypes, StorageTypes
<1> QED BY <1>4, <1>5, <1>7, <1>11, OwnStepTypes

\* A persister's records.
LEMMA PersisterRecords ==
    ASSUME NEW p \in Persisters
    PROVE  /\ p.session \in Nat /\ p.latest \in Credentials /\ p.dirty \in Credentials
           /\ \A k \in Nat : [p EXCEPT !.latest.token = k, !.fresh = TRUE] \in Persisters
           /\ [p EXCEPT !.fresh = FALSE, !.dirty = p.latest, !.stage = "saving"] \in Persisters
           /\ \A stage \in {"idle", "saving", "retry", "flushing", "flushed"} :
                 [p EXCEPT !.stage = stage] \in Persisters
           /\ [p EXCEPT !.listening = FALSE] \in Persisters
           /\ [p EXCEPT !.stage = "idle", !.dirty = NoSession] \in Persisters
<1>1. p.session \in Nat /\ p.latest \in Credentials /\ p.dirty \in Credentials
      BY DEF Persisters
<1>2. \A k \in Nat : [p EXCEPT !.latest.token = k, !.fresh = TRUE] \in Persisters
  <2> TAKE k \in Nat
  <2>1. [p.latest EXCEPT !.token = k] \in Credentials
        BY <1>1 DEF Credentials
  <2>2. [p EXCEPT !.latest.token = k, !.fresh = TRUE]
            = [p EXCEPT !.latest = [p.latest EXCEPT !.token = k], !.fresh = TRUE]
        BY DEF Persisters
  <2>3. \A cred \in Credentials : [p EXCEPT !.latest = cred, !.fresh = TRUE] \in Persisters
        BY DEF Persisters
  <2> QED BY <2>1, <2>2, <2>3
<1>3. [p EXCEPT !.fresh = FALSE, !.dirty = p.latest, !.stage = "saving"] \in Persisters
      BY DEF Persisters
<1>4. \A stage \in {"idle", "saving", "retry", "flushing", "flushed"} :
                 [p EXCEPT !.stage = stage] \in Persisters
      BY DEF Persisters
<1>5. [p EXCEPT !.listening = FALSE] \in Persisters
      BY DEF Persisters
<1>6. [p EXCEPT !.stage = "idle", !.dirty = NoSession] \in Persisters
      BY NoSessionTypes DEF Persisters
<1> QED BY <1>1, <1>2, <1>3, <1>4, <1>5, <1>6

\* What the tasks of a session change, and that it is of its types.
LEMMA BackgroundStepTypes ==
    ASSUME TypeInv, BackgroundRest,
           \/ UNCHANGED inbox
           \/ \E m \in Message : Send(m) /\ m.kind \in Events /\ m.s <= session,
           checks' \subseteq checks, syncs' \subseteq syncs,
           \/ persisters' \subseteq persisters
           \/ \E p, next \in Persisters : PersisterBecomes(p, next),
           \/ UNCHANGED lane
           \/ \E call \in Calls : Enqueue(call),
           issued' \in {issued, issued + 1}
    PROVE  TypeInv'
<1>1. /\ UNCHANGED <<lifecycle, held, oauthCancel, prepared, account, serving, after, fired,
                     typed, dismissed, session>>
      /\ UNCHANGED <<signIns, restores, erasures, bgCancelled, keyring, faults, gone>>
      BY DEF BackgroundRest, operations, history, lifecycle
<1>2. TaskTypes'
      BY <1>1, AsBefore
<1>3. BackgroundTypes'
      BY <1>1 DEF TypeInv, BackgroundTypes, PersisterBecomes
<1>4. StorageTypes'
  <2>1. lane' \in Seq(Calls)
        BY LaneTypes DEF TypeInv, StorageTypes
  <2>2. issued' \in Nat
        BY DEF TypeInv, StorageTypes
  <2> QED BY <1>1, <2>1, <2>2 DEF TypeInv, StorageTypes
<1> QED BY <1>1, <1>2, <1>3, <1>4, OwnStepTypes

\* The tasks of a session go on of their types.
LEMMA BackgroundTaskTypes ==
    ASSUME TypeInv, SyncStep \/ Refresh \/ PersisterStep \/ LogoutRisksRead
    PROVE  TypeInv'
<1>1. /\ session \in Nat /\ issued \in Nat /\ syncs \subseteq 1..session
      /\ persisters \subseteq Persisters /\ checks \subseteq [request: Nat, session: Nat]
      /\ \A c \in checks : c.session <= session
      BY DEF TypeInv, LifecycleTypes, BackgroundTypes, StorageTypes, AccountTypes
<1>2. Losses \cup {"LogoutSafe", "LogoutRisky"} \subseteq Events
      BY DEF Events
<1>3. CASE SyncStep
  <2>1. PICK s \in syncs : SyncEnds(s) \/ \E loss \in Losses : SessionLost(s, loss)
        BY <1>3 DEF SyncStep
  <2>2. s \in Nat /\ s <= session
        BY <1>1
  <2>3. \/ UNCHANGED inbox
        \/ \E m \in Message : Send(m) /\ m.kind \in Events /\ m.s <= session
    <3>1. \A loss \in Losses :
              Event(loss, 0, s) \in Message /\ Event(loss, 0, s).kind = loss /\ Event(loss, 0, s).s = s
          BY <1>2, <2>2, MessageFacts
    <3> QED BY <1>2, <2>1, <2>2, <3>1 DEF SyncEnds, SessionLost
  <2>4. BackgroundRest /\ checks' = checks /\ syncs' \subseteq syncs /\ persisters' = persisters
        /\ UNCHANGED <<lane, issued>>
        BY <2>1 DEF SyncEnds, SessionLost
  <2> QED BY <2>3, <2>4, BackgroundStepTypes
<1>4. CASE Refresh
  <2>1. PICK p \in persisters : TokensRefreshed(p)
        BY <1>4 DEF Refresh
  <2>2. p \in Persisters /\ [p EXCEPT !.latest.token = issued', !.fresh = TRUE] \in Persisters
    <3>1. issued' \in Nat
          BY <1>1, <2>1 DEF TokensRefreshed
    <3> QED BY <1>1, <3>1, PersisterRecords
  <2>3. /\ BackgroundRest /\ UNCHANGED <<inbox, syncs, checks, lane>> /\ issued' = issued + 1
        /\ \E q, next \in Persisters : PersisterBecomes(q, next)
        BY <2>1, <2>2 DEF TokensRefreshed
  <2> QED BY <2>3, BackgroundStepTypes
<1>5. CASE PersisterStep
  <2>1. PICK p \in persisters :
            \/ PersisterStores(p) \/ PersisterRetries(p)
            \/ ListenerEnds(p) \/ PersisterFlushes(p) \/ PersisterEnds(p)
        BY <1>5 DEF PersisterStep
  <2>2. p \in Persisters
        BY <1>1
  <2>3. BackgroundRest /\ UNCHANGED <<inbox, syncs, checks, issued>>
        BY <2>1 DEF PersisterStores, PersisterRetries, ListenerEnds, PersisterFlushes, PersisterEnds
  <2>4. \/ persisters' \subseteq persisters
        \/ \E q, next \in Persisters : PersisterBecomes(q, next)
        BY <2>1, <2>2, PersisterRecords
           DEF PersisterStores, PersisterRetries, ListenerEnds, PersisterFlushes, PersisterEnds
  <2>5. UNCHANGED lane \/ \E call \in Calls : Enqueue(call)
        BY <2>1, <2>2, PersisterRecords, CallFacts
           DEF PersisterStores, PersisterRetries, ListenerEnds, PersisterFlushes, PersisterEnds
  <2> QED BY <2>3, <2>4, <2>5, BackgroundStepTypes
<1>6. CASE LogoutRisksRead
  <2>1. PICK c \in checks, kind \in {"LogoutSafe", "LogoutRisky"} :
            checks' = checks \ {c} /\ Send(Event(kind, c.request, c.session))
        BY <1>6 DEF LogoutRisksRead
  <2>2. BackgroundRest /\ UNCHANGED <<syncs, persisters, lane, issued>>
        BY <1>6 DEF LogoutRisksRead
  <2>3. /\ Event(kind, c.request, c.session) \in Message
        /\ Event(kind, c.request, c.session).kind \in Events
        /\ Event(kind, c.request, c.session).s <= session
        BY <1>1, <1>2, MessageFacts
  <2> QED BY <2>1, <2>2, <2>3, BackgroundStepTypes
<1> QED BY <1>3, <1>4, <1>5, <1>6


\* An erasure goes on of its types.
LEMMA ErasureStepTypes ==
    ASSUME TypeInv, ErasureStep
    PROVE  TypeInv'
<1>1. PICK e \in erasures : ErasureBegins(e) \/ ErasureEnds(e)
      BY DEF ErasureStep
<1>2. /\ e \in Erasures /\ erasures \subseteq Erasures /\ session \in Nat /\ lane \in Seq(Calls)
      /\ e.session \in Nat
      BY DEF TypeInv, TaskTypes, LifecycleTypes, StorageTypes, Erasures
<1>3. ErasureRest
      BY <1>1 DEF ErasureBegins, ErasureEnds
<1>4. /\ UNCHANGED <<lifecycle, held, oauthCancel, prepared, account, serving, after, fired,
                     typed, dismissed, session>>
      /\ UNCHANGED <<checks, signIns, restores, syncs, persisters, bgCancelled, keyring, issued,
                     faults, gone>>
      BY <1>3 DEF ErasureRest, history, background, lifecycle, environment
<1>5. BackgroundTypes'
      BY <1>4, AsBefore
<1>6. \E m \in Message : Send(m) /\ m.kind \in Events /\ m.s <= session
  <2>1. \A kind \in {"ErasingLocalState", "LocalStateCleared"} :
            /\ Event(kind, e.session, 0) \in Message /\ Event(kind, e.session, 0).s = 0
            /\ Event(kind, e.session, 0).kind \in Events
    <3>1. {"ErasingLocalState", "LocalStateCleared"} \subseteq Events
          BY DEF Events
    <3> QED BY <1>2, <3>1, MessageFacts
  <2> QED BY <1>1, <1>2, <2>1 DEF ErasureBegins, ErasureEnds
<1>7. [e EXCEPT !.stage = "clearing"] \in Erasures
      BY <1>2 DEF Erasures
<1>8. erasures' \subseteq Erasures
      BY <1>1, <1>2, <1>7 DEF ErasureBegins, ErasureEnds
<1>9. lane' \in Seq(Calls)
      BY <1>1, <1>2, LaneTypes, CallFacts, NoSessionTypes DEF ErasureBegins, ErasureEnds
<1>10. TaskTypes' /\ StorageTypes'
      BY <1>4, <1>8, <1>9 DEF TypeInv, TaskTypes, StorageTypes
<1> QED BY <1>4, <1>5, <1>6, <1>10, OwnStepTypes

\* What a task becomes when the lane answers its call.
LEMMA HeardTypes ==
    ASSUME keyring \in Credentials, NEW ok \in BOOLEAN
    PROVE  /\ \A t \in SignIns : SignInHeard(t, ok) \in SignIns
           /\ \A r \in Restores : RestoreHeard(r, ok) \in Restores
           /\ \A p \in Persisters : PersisterHeard(p, ok) \in Persisters
           /\ \A e \in Erasures : [e EXCEPT !.stage = "cleared"] \in Erasures
<1>1. ASSUME NEW t \in SignIns PROVE SignInHeard(t, ok) \in SignIns
  <2>1. \A stage \in SignInStages :
            /\ [t EXCEPT !.stage = stage] \in SignIns
            /\ [t EXCEPT !.stage = stage, !.was = keyring] \in SignIns
        BY DEF SignIns
  <2>2. {"saved", "unsaved", "undone", "stuck"} \subseteq SignInStages
        BY DEF SignInStages
  <2>3. CASE ok
        BY <2>1, <2>2, <2>3 DEF SignInHeard
  <2>4. CASE ~ok
        BY <2>1, <2>2, <2>4 DEF SignInHeard
  <2> QED BY <2>3, <2>4
<1>2. ASSUME NEW r \in Restores PROVE RestoreHeard(r, ok) \in Restores
  <2>1. /\ [r EXCEPT !.stage = "unreadable"] \in Restores /\ [r EXCEPT !.stage = "absent"] \in Restores
        /\ [stage |-> "loaded", cred |-> keyring] \in Restores
        BY DEF Restores
  <2> QED BY <2>1 DEF RestoreHeard
<1>3. ASSUME NEW p \in Persisters PROVE PersisterHeard(p, ok) \in Persisters
      BY PersisterRecords DEF PersisterHeard
<1>4. \A e \in Erasures : [e EXCEPT !.stage = "cleared"] \in Erasures
      BY DEF Erasures
<1> QED BY <1>1, <1>2, <1>3, <1>4

\* The devices a call takes away are devices.
LEMMA GoneTypes ==
    ASSUME TypeInv, NEW call \in Calls
    PROVE  GoneAfter(call) \subseteq Nat
<1>1. \A e \in erasures : e.device \in Nat
      BY DEF TypeInv, TaskTypes, Erasures
<1>2. \A t \in signIns : t.cred.device \in Nat
      BY DEF TypeInv, TaskTypes, SignIns, Credentials
<1>3. call.n \in Nat
      BY DEF Calls
<1>4. CASE call.who = "erasure"
      BY <1>1, <1>4 DEF GoneAfter
<1>5. CASE call.who = "service"
      BY <1>3, <1>5 DEF GoneAfter
<1>6. CASE call.who = "signIn"
      BY <1>2, <1>6 DEF GoneAfter
<1>7. CASE call.who \notin {"erasure", "service", "signIn"}
      BY <1>7 DEF GoneAfter
<1> QED BY <1>4, <1>5, <1>6, <1>7

\* The lane runs a call, and what hears of it is of its types.
LEMMA RunCallTypes ==
    ASSUME TypeInv, RunCall
    PROVE  TypeInv'
<1>1. /\ lane # <<>> /\ lane' = OtherCalls
      /\ UNCHANGED <<lifecycle, held, oauthCancel, prepared, account, inbox, after, fired,
                     syncs, bgCancelled, checks, issued, typed, dismissed>>
      BY DEF RunCall
<1>2. /\ lane \in Seq(Calls) /\ keyring \in Credentials /\ gone \subseteq Nat /\ faults \in 0..MaxFaults
      /\ issued \in Nat
      /\ signIns \subseteq SignIns /\ restores \subseteq Restores /\ erasures \subseteq Erasures
      /\ persisters \subseteq Persisters /\ syncs \subseteq 1..session /\ bgCancelled \in BOOLEAN
      BY DEF TypeInv, StorageTypes, TaskTypes, BackgroundTypes
<1>3. NextCall \in Calls /\ lane' \in Seq(Calls)
      BY <1>1, <1>2, LaneFacts
<1>4. PICK ok \in BOOLEAN : Answer(NextCall, ok)
      BY DEF RunCall
<1>5. TaskTypes' /\ persisters' \subseteq Persisters
  <2>1. /\ \A t \in SignIns : SignInHeard(t, ok) \in SignIns
        /\ \A r \in Restores : RestoreHeard(r, ok) \in Restores
        /\ \A p \in Persisters : PersisterHeard(p, ok) \in Persisters
        /\ \A e \in Erasures : [e EXCEPT !.stage = "cleared"] \in Erasures
        BY <1>2, HeardTypes
  <2>2. signIns' \subseteq SignIns
        BY <1>2, <1>4, <2>1 DEF Answer
  <2>3. restores' \subseteq Restores
        BY <1>2, <1>4, <2>1 DEF Answer
  <2>4. erasures' \subseteq Erasures
        BY <1>2, <1>4, <2>1 DEF Answer
  <2>5. persisters' \subseteq Persisters
        BY <1>2, <1>4, <2>1 DEF Answer
  <2> QED BY <2>2, <2>3, <2>4, <2>5 DEF TaskTypes
<1>6. BackgroundTypes'
  <2>1. UNCHANGED <<session, syncs, bgCancelled>>
        BY <1>1 DEF lifecycle
  <2> QED BY <1>2, <1>5, <2>1 DEF BackgroundTypes
<1>7. StorageTypes'
  <2>1. keyring' \in Credentials
    <3>1. NextCall.cred \in Credentials
          BY <1>3 DEF Calls
    <3> QED BY <1>2, <3>1 DEF RunCall
  <2>2. gone' \subseteq Nat
        BY <1>2, <1>3, GoneTypes DEF RunCall
  <2>3. faults' \in 0..MaxFaults
    <3>1. faults' = faults \/ (faults < MaxFaults /\ faults' = faults + 1)
          BY DEF RunCall
    <3> QED BY <1>2, <3>1, BoundsAssumption
  <2>4. issued' \in Nat
        BY <1>1, <1>2
  <2> QED BY <1>3, <2>1, <2>2, <2>3, <2>4 DEF StorageTypes
<1>8. serving' \in ServingTypes
  <2>1. serving' \in {serving, "undone", "stuck"}
        BY <1>4 DEF Answer
  <2> QED BY <2>1, AsBefore DEF ServingTypes
<1>9. UNCHANGED <<attempt, session, phase, request, logoutCheck, logoutWarning>>
      BY <1>1 DEF lifecycle, account
<1> QED BY <1>1, <1>5, <1>6, <1>7, <1>8, <1>9, AsBefore, TaskStepTypes

\* A command of the user is in the inbox, counted.
LEMMA UserTypes ==
    ASSUME TypeInv, UserSends
    PROVE  TypeInv'
<1>1. PICK command \in Commands : Send(Event(command, 0, 0))
      BY DEF UserSends
<1>2. /\ typed < MaxTyped /\ typed' = typed + 1
      /\ UNCHANGED <<lifecycle, held, oauthCancel, prepared, account, serving, after,
                     operations, background, checks, storage, issued, faults, history>>
      BY DEF UserSends
<1>3. UNCHANGED <<attempt, session, phase, request, logoutCheck, logoutWarning, fired, dismissed,
                  signIns, restores, erasures, syncs, persisters, bgCancelled, lane, keyring, gone>>
      BY <1>2 DEF lifecycle, account, operations, background, storage, history
<1>4. inbox \in Seq(Message) /\ session \in Nat /\ \A m \in Waiting : m.s <= session
      BY DEF TypeInv, LoopTypes, LifecycleTypes
<1>5. Event(command, 0, 0) \in Message /\ Event(command, 0, 0).kind = command
      /\ Event(command, 0, 0).s = 0
      BY MessageFacts
<1>6. /\ inbox' \in Seq(Message) /\ Waiting' = Waiting \cup {Event(command, 0, 0)}
      /\ Pending(Commands) \in Nat
      /\ Pending(Commands)' = Pending(Commands) + 1
      BY <1>1, <1>4, <1>5, SendFacts
<1>7. AttemptInv'
  <2>1. attempt \in Nat
        BY DEF TypeInv, LifecycleTypes
  <2> QED BY <1>2, <1>3, <1>6, <2>1, BoundsAssumption DEF TypeInv, AttemptInv
<1>8. LoopTypes'
      BY <1>2, <1>3, <1>4, <1>5, <1>6 DEF TypeInv, LoopTypes
<1>9. LifecycleTypes' /\ AccountTypes'
      BY <1>2, <1>3 DEF TypeInv, LifecycleTypes, AccountTypes
<1>10. TaskTypes' /\ BackgroundTypes'
      BY <1>3, AsBefore
<1>11. StorageTypes'
      BY <1>2, <1>3, AsBefore
<1> QED BY <1>7, <1>8, <1>9, <1>10, <1>11 DEF TypeInv

\* Every step leaves everything of its types.
LEMMA StepTypes == TypeInv /\ [Next]_vars => TypeInv'
<1> SUFFICES ASSUME TypeInv, [Next]_vars PROVE TypeInv'
    OBVIOUS
<1>1. CASE Next
      BY <1>1, CommandTypes, EventTypes, ResumeTypes, AbortTypes, SignInStepTypes, RestoreStepTypes,
         BackgroundTaskTypes, ErasureStepTypes, RunCallTypes, UserTypes DEF Next
<1>2. CASE UNCHANGED vars
  <2>1. UNCHANGED <<lifecycle, held, oauthCancel, prepared, account, serving, after, fired,
                    typed, dismissed, inbox, checks>>
        BY <1>2 DEF vars, loop, operations, environment, history
  <2>2. UNCHANGED <<signIns, restores, erasures, session, syncs, persisters, bgCancelled,
                    lane, keyring, issued, faults, gone>>
        BY <1>2 DEF vars, lifecycle, loop, operations, background, storage, environment, history
  <2>3. TaskTypes' /\ BackgroundTypes' /\ StorageTypes'
        BY <2>2, AsBefore
  <2> QED BY <2>1, <2>3, OwnStepTypes
<1> QED BY <1>1, <1>2

\* TypeOK always: every variable is of its declared kind, an attempt, a dialog
\* and a cancel token are never of the future, and no more attempts are begun
\* than the user sent commands.
THEOREM TypeCorrect == Spec => []TypeOK
<1>1. Spec => []TypeInv
      BY InitTypeInv, StepTypes, PTL DEF Spec
<1> QED BY <1>1, TypesOfTypeInv, PTL


-----------------------------------------------------------------------------
(* The phases: what the loop waits for, what it holds, and what is left of    *)
(* sign-ins, restores and erasures in each of them                            *)

FirstAuth == {"Authenticating", "CancellingAuth"}
ReAuth == {"Reauthenticating", "CancellingReauth"}
SoftPhases == {"SoftLoggedOut"} \cup ReAuth
Steady == serving \notin {"winding", "stopped"}

ServingInv ==
    /\ Quitting => serving \in {"winding", "stopped"}
    /\ serving = "stopped" => Quitting
    /\ Undoing => after.then = "undo" /\ phase \in FirstAuth /\ after.n = attempt
    /\ serving = "winding" =>
          \/ Quitting
          \/ after.then = "erase" /\ phase = "LoggingOut"
          \/ after.then = "suspend" /\ phase = "SoftLoggedOut"

WindsDown == serving = "winding" /\ after.then \in {"erase", "suspend"}
HeldInv ==
    /\ Steady => /\ held.kind = "Running" <=> phase = "Syncing"
                 /\ held.kind = "Suspended" <=> phase \in SoftPhases
    /\ phase = "Syncing" \/ WindsDown \/ (syncs = {} /\ persisters = {} /\ checks = {})
    /\ syncs \subseteq {session}
    /\ persisters = {} \/ \E p \in persisters : persisters = {p} /\ p.session = session

\* The calls of sign-ins in the lane, and of the undoing of a login.
ServiceCalls == {c \in Calls : c.who = "service"}
CallsInv ==
    /\ Count(lane, ServiceCalls) = IF serving = "undoing" THEN 1 ELSE 0
    /\ \A c \in Elements(lane) : c.who = "signIn" =>
          c.n <= attempt /\ \A t \in signIns : t.attempt = c.n => t.method # "check"

PhasesOf(method) ==
    IF method \in {"check", "password", "browser"} THEN FirstAuth ELSE ReAuth
VerdictPhases(kind) ==
    CASE kind \in {"ServerDiscovered", "LoggedIn", "LoginUnresolved"} -> FirstAuth
      [] kind = "Resumed" -> ReAuth
      [] OTHER -> AuthPhases
AuthInv ==
    /\ \A t \in signIns : /\ t.attempt = attempt /\ phase \in PhasesOf(t.method)
                          /\ t.method = "check" => t.stage = "asking"
    /\ \A m \in Waiting : m.kind \in Verdicts =>
          /\ m.kind # "LoginUnresolved" => m.n = attempt
          /\ phase \in VerdictPhases(m.kind)
OneAuth ==
    /\ signIns = {} \/ \E t \in signIns : signIns = {t}
    /\ \/ Quitting
       \/ phase \notin AuthPhases /\ signIns = {} /\ Pending(Verdicts) = 0 /\ ~Undoing
       \/ /\ phase \in AuthPhases
          /\ \/ signIns # {} /\ Pending(Verdicts) = 0 /\ ~Undoing
             \/ signIns = {} /\ Pending(Verdicts) = 1 /\ ~Undoing
             \/ signIns = {} /\ Pending(Verdicts) = 0 /\ Undoing

RestoreEvents == {"Restored", "RestoreFailed", "RestorePaused"}
RestoreInv ==
    /\ phase # "Restoring" => restores = {} /\ Pending(RestoreEvents) = 0
    /\ \/ restores = {} /\ Pending(RestoreEvents) \in {0, 1}
       \/ (\E r \in restores : restores = {r}) /\ Pending(RestoreEvents) = 0

Cleared == {"LocalStateCleared"}
WindsToErase == serving = "winding" /\ after.then = "erase"
ErasureInv ==
    /\ phase \notin EndPhases => erasures = {} /\ Pending(Cleared) = 0
    /\ \/ erasures = {} /\ Pending(Cleared) = 0
       \/ erasures = {} /\ Pending(Cleared) = 1 /\ ~WindsToErase
       \/ (\E e \in erasures : erasures = {e}) /\ Pending(Cleared) = 0 /\ ~WindsToErase
    /\ \A e \in erasures : e.session = session

PhaseInv ==
    /\ ServingInv /\ HeldInv /\ CallsInv /\ AuthInv /\ OneAuth /\ RestoreInv /\ ErasureInv

\* The phases hold at first.
LEMMA InitPhaseInv == Init => PhaseInv
<1> SUFFICES ASSUME Init PROVE PhaseInv
    OBVIOUS
<1>1. /\ inbox = <<>> /\ lane = <<>> /\ phase \in {"Starting", "Blocked"}
      /\ signIns = {} /\ restores = {} /\ erasures = {} /\ syncs = {} /\ persisters = {}
      /\ checks = {} /\ serving = "next" /\ after = [then |-> "finish", n |-> 0]
      /\ held = [kind |-> "None", device |-> 0]
      BY DEF Init
<1>2. /\ Waiting = {} /\ Elements(lane) = {} /\ Count(lane, ServiceCalls) = 0
      /\ \A kinds : Pending(kinds) = 0
      BY <1>1, EmptyQueue DEF Waiting, Pending
<1>3. ServingInv
      BY <1>1 DEF ServingInv, Quitting, Undoing
<1>4. HeldInv
      BY <1>1 DEF HeldInv, SoftPhases, ReAuth
<1>5. CallsInv
      BY <1>1, <1>2 DEF CallsInv
<1>6. AuthInv /\ OneAuth
      BY <1>1, <1>2 DEF AuthInv, OneAuth, AuthPhases, Undoing
<1>7. RestoreInv /\ ErasureInv
      BY <1>1, <1>2 DEF RestoreInv, ErasureInv
<1> QED BY <1>3, <1>4, <1>5, <1>6, <1>7 DEF PhaseInv

\* The tasks, and the user, leave the loop and its lifecycle alone.
TaskStep ==
    SignInStep \/ RestoreStep \/ SyncStep \/ Refresh \/ PersisterStep \/ LogoutRisksRead \/ ErasureStep
\* What they leave as it is.
LEMMA TaskFrame ==
    ASSUME TaskStep \/ UserSends
    PROVE  /\ UNCHANGED <<phase, attempt, session, held, serving, after, oauthCancel, dismissed>>
           /\ UNCHANGED <<logoutCheck, logoutWarning, request, fired, keyring, gone>>
           /\ ~SignInStep => UNCHANGED signIns
           /\ ~RestoreStep => UNCHANGED restores
           /\ ~ErasureStep => UNCHANGED erasures
           /\ ~(SyncStep \/ Refresh \/ PersisterStep \/ LogoutRisksRead)
                 => UNCHANGED <<syncs, persisters, checks>>
<1> USE DEF lifecycle, account, operations, background, storage, environment, history
<1>1. CASE SignInStep
  <2>1. SignInRest
        BY <1>1 DEF SignInStep, SignInCancelled, SignInRefused, ServerChecked, SignInGranted,
                    LoginEstablished, LoginRollsBack, LoginRolledBack, LoginStuck, SessionResumed
  <2> QED BY <1>1, <2>1 DEF SignInRest
<1>2. CASE RestoreStep
  <2>1. RestoreRest
        BY <1>2 DEF RestoreStep, RestoreFails, RestorePauses, RestoreSucceeds, RestoreForgets
  <2> QED BY <1>2, <2>1 DEF RestoreRest
<1>3. CASE SyncStep
  <2>1. BackgroundRest
        BY <1>3 DEF SyncStep, SyncEnds, SessionLost
  <2> QED BY <1>3, <2>1 DEF BackgroundRest
<1>4. CASE Refresh
  <2>1. BackgroundRest
        BY <1>4 DEF Refresh, TokensRefreshed
  <2> QED BY <1>4, <2>1 DEF BackgroundRest
<1>5. CASE PersisterStep
  <2>1. BackgroundRest
        BY <1>5 DEF PersisterStep, PersisterStores, PersisterRetries, ListenerEnds,
                    PersisterFlushes, PersisterEnds
  <2> QED BY <1>5, <2>1 DEF BackgroundRest
<1>6. CASE LogoutRisksRead
      BY <1>6 DEF LogoutRisksRead, BackgroundRest
<1>7. CASE ErasureStep
  <2>1. ErasureRest
        BY <1>7 DEF ErasureStep, ErasureBegins, ErasureEnds
  <2> QED BY <1>7, <2>1 DEF ErasureRest
<1>8. CASE UserSends
      BY <1>8 DEF UserSends
<1> QED BY <1>1, <1>2, <1>3, <1>4, <1>5, <1>6, <1>7, <1>8 DEF TaskStep

\* An input is of one of these kinds, and it is handled between two others.
LEMMA HandlerFrame ==
    ASSUME HandleCommand \/ HandleEvent
    PROVE  /\ \E kind \in Commands \cup Events : Take(kind)
           /\ UNCHANGED <<keyring, syncs, persisters>> \/ phase' = "Syncing"
<1> USE DEF operations, background, storage
<1>1. CASE HandleCommand
  <2>1. \E kind \in Commands : Take(kind)
        BY <1>1 DEF HandleCommand, RefuseCommand, RestoreSession, Authenticate, Reauthenticate, CancelOAuth,
                    CheckLogout, LogoutUnchecked, ConfirmLogout, CancelLogout, Quit, Command, Commands
  <2>2. UNCHANGED <<keyring, syncs, persisters>>
        BY <1>1 DEF HandleCommand, RefuseCommand, RestoreSession, Authenticate, Reauthenticate, CancelOAuth,
                    CheckLogout, LogoutUnchecked, ConfirmLogout, CancelLogout, Quit, EndSession, WindDown
  <2> QED BY <2>1, <2>2
<1>2. CASE HandleEvent
  <2>1. \E kind \in Events : Take(kind)
        BY <1>2 DEF HandleEvent, SettleRestore, SettleRestoreFailure, SettleDiscovery, SettleAuthFailure,
                    SettleLogin, UndoSupersededLogin, SettleUnresolved, SettleResume, SuspendSession,
                    ExpireSession, LogoutChecked, SettleErasure, Events, Verdicts, Losses
  <2>2. UNCHANGED <<keyring, syncs, persisters>> \/ phase' = "Syncing"
        BY <1>2 DEF HandleEvent, SettleRestore, SettleRestoreFailure, SettleDiscovery, SettleAuthFailure,
                    SettleLogin, UndoSupersededLogin, SettleUnresolved, SettleResume, SuspendSession,
                    ExpireSession, LogoutChecked, SettleErasure, Activate, EndSession, WindDown, Rest
  <2> QED BY <2>1, <2>2
<1> QED BY <1>1, <1>2


\* What the loop knows of an input it takes. A verdict, the end of a restore and
\* the end of an erasure are the last of what they are about.
LEMMA InputFacts ==
    ASSUME TypeInv, PhaseInv, NEW kind, Take(kind)
    PROVE  /\ serving = "next" /\ Steady /\ ~Undoing /\ ~Quitting /\ after.then # "quit"
           /\ Input \in Waiting /\ Input \in Message /\ Input.kind = kind
           /\ Waiting' \subseteq Waiting
           /\ \A kinds : /\ Pending(kinds)' \in Nat
                         /\ kind \notin kinds => Pending(kinds)' = Pending(kinds)
           /\ kind \in Verdicts =>
                 /\ signIns = {} /\ Pending(Verdicts)' = 0 /\ phase \in AuthPhases
                 /\ phase \in VerdictPhases(kind)
                 /\ kind # "LoginUnresolved" => Input.n = attempt
           /\ kind \in RestoreEvents =>
                 phase = "Restoring" /\ restores = {} /\ Pending(RestoreEvents)' = 0
           /\ kind \in Cleared =>
                 phase \in EndPhases /\ erasures = {} /\ Pending(Cleared)' = 0
<1>1. inbox \in Seq(Message)
      BY DEF TypeInv, LoopTypes
<1>2. /\ serving = "next" /\ Input \in Message /\ Input.kind = kind
      /\ Waiting = Waiting' \cup {Input}
      /\ \A kinds : /\ Pending(kinds)' \in Nat
                    /\ Pending(kinds) = Pending(kinds)' + (IF kind \in kinds THEN 1 ELSE 0)
      BY <1>1, TakeFacts
<1>3. Steady /\ ~Undoing /\ ~Quitting
      BY <1>2 DEF Steady, Undoing, PhaseInv, ServingInv
<1>4. \A kinds : kind \notin kinds => Pending(kinds)' = Pending(kinds)
      BY <1>2
<1>5. ASSUME kind \in Verdicts
      PROVE  /\ signIns = {} /\ Pending(Verdicts)' = 0 /\ phase \in AuthPhases
             /\ phase \in VerdictPhases(kind)
             /\ kind # "LoginUnresolved" => Input.n = attempt
  <2>1. Pending(Verdicts) = Pending(Verdicts)' + 1 /\ Pending(Verdicts)' \in Nat
        BY <1>2, <1>5
  <2>2. signIns = {} /\ Pending(Verdicts) = 1 /\ phase \in AuthPhases
        BY <1>3, <2>1 DEF PhaseInv, OneAuth
  <2>3. phase \in VerdictPhases(kind) /\ (kind # "LoginUnresolved" => Input.n = attempt)
        BY <1>2, <1>5 DEF PhaseInv, AuthInv
  <2> QED BY <2>1, <2>2, <2>3
<1>6. ASSUME kind \in RestoreEvents
      PROVE  phase = "Restoring" /\ restores = {} /\ Pending(RestoreEvents)' = 0
  <2>1. Pending(RestoreEvents) = Pending(RestoreEvents)' + 1 /\ Pending(RestoreEvents)' \in Nat
        BY <1>2, <1>6
  <2> QED BY <2>1 DEF PhaseInv, RestoreInv
<1>7. ASSUME kind \in Cleared
      PROVE  phase \in EndPhases /\ erasures = {} /\ Pending(Cleared)' = 0
  <2>1. Pending(Cleared) = Pending(Cleared)' + 1 /\ Pending(Cleared)' \in Nat
        BY <1>2, <1>7
  <2> QED BY <2>1 DEF PhaseInv, ErasureInv
<1> QED BY <1>2, <1>3, <1>4, <1>5, <1>6, <1>7 DEF Quitting

\* A message that is sent, and what it adds.
LEMMA SentFacts ==
    ASSUME TypeInv, NEW m \in Message, Send(m)
    PROVE  /\ Waiting' = Waiting \cup {m}
           /\ \A kinds : /\ Pending(kinds) \in Nat /\ Pending(kinds)' \in Nat
                         /\ m.kind \notin kinds => Pending(kinds)' = Pending(kinds)
                         /\ m.kind \in kinds => Pending(kinds)' = Pending(kinds) + 1
<1>1. inbox \in Seq(Message)
      BY DEF TypeInv, LoopTypes
<1> QED BY <1>1, SendFacts

\* When nothing is left of an authentication, its invariants are about nothing.
LEMMA NoAuth ==
    ASSUME TypeInv', signIns' = {}, Pending(Verdicts)' = 0
    PROVE  AuthInv'
<1>1. inbox' \in Seq(Message)
      BY DEF TypeInv, LoopTypes
<1>2. \A m \in Waiting' : m.kind \notin Verdicts
  <2>1. Count(inbox', OfKind(Verdicts)) = 0
        BY DEF Pending
  <2>2. \A m \in Elements(inbox') : m \notin OfKind(Verdicts)
        BY <1>1, <2>1, CountType
  <2>3. \A m \in Elements(inbox') : m \in Message
        BY <1>1, ElementOfSeq, LenProperties DEF Elements
  <2> QED BY <2>2, <2>3 DEF Waiting, OfKind
<1> QED BY <1>2 DEF AuthInv

\* Verdicts, ends of restores and of erasures, commands, losses: no event is two of them.
LEMMA KindFacts ==
    /\ \A kind \in Commands : kind \notin Verdicts /\ kind \notin RestoreEvents /\ kind \notin Cleared
    /\ \A kind \in Verdicts : kind \notin RestoreEvents /\ kind \notin Cleared
    /\ \A kind \in RestoreEvents : kind \notin Verdicts /\ kind \notin Cleared
    /\ \A kind \in Cleared : kind \notin Verdicts /\ kind \notin RestoreEvents
    /\ \A kind \in Losses \cup {"LogoutSafe", "LogoutRisky", "ErasingLocalState"} :
          kind \notin Verdicts /\ kind \notin RestoreEvents /\ kind \notin Cleared
BY DEF Commands, Verdicts, RestoreEvents, Cleared, Losses

\* The phases of the groups.
LEMMA PhaseFacts ==
    /\ AuthPhases = FirstAuth \cup ReAuth /\ FirstAuth \cap ReAuth = {}
    /\ \A p \in FirstAuth : p \notin SoftPhases /\ p # "Restoring" /\ p \notin EndPhases /\ p # "Syncing"
    /\ \A p \in ReAuth : p \in SoftPhases /\ p # "Restoring" /\ p \notin EndPhases /\ p # "Syncing"
    /\ \A p \in EndPhases : p \notin AuthPhases /\ p # "Restoring" /\ p \notin SoftPhases /\ p # "Syncing"
    /\ \A kind : VerdictPhases(kind) \subseteq AuthPhases
    /\ \A method : PhasesOf(method) \in {FirstAuth, ReAuth}
    /\ \A kind : VerdictPhases(kind) \in {FirstAuth, ReAuth, AuthPhases}
BY DEF AuthPhases, FirstAuth, ReAuth, SoftPhases, EndPhases, VerdictPhases, PhasesOf

\* A handler that leaves the session and the tasks alone, and goes on to a phase
\* of the same kind or, with the answer it waited for, to an idle one.
LEMMA SettlesPhase ==
    ASSUME TypeInv, TypeInv', PhaseInv, NEW kind, Take(kind),
           UNCHANGED <<attempt, session, held, serving, after, lane, signIns, restores, erasures,
                       syncs, persisters>>,
           UNCHANGED checks \/ phase = "Syncing",
           phase' = "Syncing" <=> phase = "Syncing",
           phase' \in SoftPhases <=> phase \in SoftPhases,
           phase' \in FirstAuth => phase \in FirstAuth,
           phase' \in ReAuth => phase \in ReAuth,
           phase \in AuthPhases => (phase' \notin AuthPhases <=> kind \in Verdicts),
           phase' = "Restoring" => phase = "Restoring",
           phase = "Restoring" => phase' = "Restoring" \/ kind \in RestoreEvents,
           phase' \in EndPhases => phase \in EndPhases,
           phase \in EndPhases => phase' \in EndPhases \/ kind \in Cleared
    PROVE  PhaseInv'
<1>1. /\ serving = "next" /\ Steady /\ ~Undoing /\ ~Quitting /\ after.then # "quit"
      /\ Input \in Waiting /\ Input \in Message /\ Input.kind = kind
      /\ Waiting' \subseteq Waiting
      /\ \A kinds : /\ Pending(kinds)' \in Nat
                    /\ kind \notin kinds => Pending(kinds)' = Pending(kinds)
      BY InputFacts
<1>2. kind \in Verdicts => signIns = {} /\ Pending(Verdicts)' = 0 /\ phase \in AuthPhases
      BY InputFacts
<1>3. kind \in RestoreEvents => phase = "Restoring" /\ restores = {} /\ Pending(RestoreEvents)' = 0
      BY InputFacts
<1>4. kind \in Cleared => phase \in EndPhases /\ erasures = {} /\ Pending(Cleared)' = 0
      BY InputFacts
<1>5. ServingInv'
      BY <1>1 DEF ServingInv, Quitting, Undoing
<1>6. HeldInv'
  <2>1. Steady'
        BY <1>1 DEF Steady
  <2>2. /\ held.kind = "Running" <=> phase = "Syncing"
        /\ held.kind = "Suspended" <=> phase \in SoftPhases
        BY <1>1 DEF PhaseInv, HeldInv
  <2>3. phase = "Syncing" \/ (syncs = {} /\ persisters = {} /\ checks = {})
        BY <1>1 DEF PhaseInv, HeldInv, WindsDown
  <2>4. /\ syncs' \subseteq {session'}
        /\ persisters' = {} \/ \E p \in persisters' : persisters' = {p} /\ p.session = session'
        BY DEF PhaseInv, HeldInv
  <2> QED BY <2>1, <2>2, <2>3, <2>4 DEF HeldInv
<1>7. CallsInv'
      BY DEF PhaseInv, CallsInv
<1>8. AuthInv' /\ OneAuth'
  <2>1. CASE phase \in AuthPhases /\ phase' \in AuthPhases
    <3>1. kind \notin Verdicts /\ Pending(Verdicts)' = Pending(Verdicts)
          BY <1>1, <2>1
    <3>2. OneAuth'
          BY <1>1, <2>1, <3>1 DEF PhaseInv, OneAuth, Undoing, Quitting
    <3>3. \A method : phase \in PhasesOf(method) => phase' \in PhasesOf(method)
          BY <2>1, PhaseFacts
    <3>4. \A k : phase \in VerdictPhases(k) => phase' \in VerdictPhases(k)
          BY <2>1, PhaseFacts
    <3>5. AuthInv'
          BY <1>1, <3>3, <3>4 DEF PhaseInv, AuthInv
    <3> QED BY <3>2, <3>5
  <2>2. CASE phase' \notin AuthPhases
    <3>1. signIns' = {} /\ Pending(Verdicts)' = 0 /\ ~(Undoing')
          BY <1>1, <1>2, <2>2 DEF PhaseInv, OneAuth, Undoing
    <3>2. OneAuth'
          BY <2>2, <3>1 DEF OneAuth
    <3> QED BY <3>1, <3>2, NoAuth
  <2> QED BY <2>1, <2>2, PhaseFacts
<1>9. RestoreInv'
      BY <1>1, <1>3 DEF PhaseInv, RestoreInv
<1>10. ErasureInv'
  <2>1. CASE kind \in Cleared
    <3>1. erasures' = {} /\ Pending(Cleared)' = 0
          BY <1>4, <2>1
    <3> QED BY <3>1 DEF ErasureInv
  <2>2. CASE kind \notin Cleared
    <3>1. Pending(Cleared)' = Pending(Cleared) /\ ~(WindsToErase')
          BY <1>1, <2>2 DEF WindsToErase
    <3> QED BY <2>2, <3>1 DEF PhaseInv, ErasureInv
  <2> QED BY <2>1, <2>2
<1> QED BY <1>5, <1>6, <1>7, <1>8, <1>9, <1>10 DEF PhaseInv


\* What follows the start of a session, by a restore or by an authentication.
LEMMA StartsPhase ==
    ASSUME TypeInv, TypeInv', PhaseInv, NEW kind, Take(kind),
           kind \in {"Restored", "LoggedIn", "Resumed"}, NEW cred, Activate(cred),
           UNCHANGED <<attempt, serving, after, lane, signIns, restores, erasures, checks>>
    PROVE  PhaseInv'
<1>1. /\ serving = "next" /\ Steady /\ ~Undoing /\ ~Quitting /\ after.then # "quit"
      /\ \A kinds : kind \notin kinds => Pending(kinds)' = Pending(kinds)
      BY InputFacts
<1>2. /\ kind \in Verdicts => signIns = {} /\ Pending(Verdicts)' = 0 /\ phase \in AuthPhases
      /\ kind \in RestoreEvents => phase = "Restoring" /\ restores = {} /\ Pending(RestoreEvents)' = 0
      BY InputFacts
<1>3. \/ kind \in Verdicts /\ kind \notin RestoreEvents /\ kind \notin Cleared
      \/ kind \in RestoreEvents /\ kind \notin Verdicts /\ kind \notin Cleared
      BY DEF Verdicts, RestoreEvents, Cleared
<1>4. /\ phase' = "Syncing" /\ session' = session + 1
      /\ held' = [kind |-> "Running", device |-> cred.device] /\ syncs' = {session'}
      /\ persisters' = {[session |-> session', latest |-> cred, fresh |-> TRUE,
                         dirty |-> NoSession, stage |-> "idle", listening |-> TRUE]}
      BY DEF Activate
<1>5. ServingInv'
      BY <1>1 DEF ServingInv, Quitting, Undoing
<1>6. HeldInv'
  <2>1. held'.kind = "Running" /\ phase' \notin SoftPhases
        BY <1>4 DEF SoftPhases, ReAuth
  <2>2. \E p \in persisters' : persisters' = {p} /\ p.session = session'
        BY <1>4
  <2>3. syncs' \subseteq {session'}
        BY <1>4
  <2> QED BY <1>4, <2>1, <2>2, <2>3 DEF HeldInv
<1>7. CallsInv'
      BY DEF PhaseInv, CallsInv
<1>8. signIns' = {} /\ Pending(Verdicts)' = 0 /\ phase' \notin AuthPhases /\ ~(Undoing')
  <2>1. kind \in RestoreEvents => Pending(Verdicts)' = Pending(Verdicts)
        BY <1>1, <1>3
  <2> QED BY <1>1, <1>2, <1>3, <1>4, <2>1, PhaseFacts DEF PhaseInv, OneAuth, Undoing, AuthPhases
<1>9. AuthInv' /\ OneAuth'
      BY <1>8, NoAuth DEF OneAuth
<1>10. RestoreInv'
  <2>1. restores = {} /\ Pending(RestoreEvents)' = 0
        BY <1>1, <1>2, <1>3, PhaseFacts DEF PhaseInv, RestoreInv
  <2> QED BY <2>1 DEF RestoreInv
<1>11. ErasureInv'
  <2>1. phase \notin EndPhases
        BY <1>2, <1>3, PhaseFacts
  <2>2. erasures = {} /\ Pending(Cleared)' = 0
        BY <1>1, <1>3, <2>1 DEF PhaseInv, ErasureInv
  <2> QED BY <2>2 DEF ErasureInv
<1> QED BY <1>5, <1>6, <1>7, <1>9, <1>10, <1>11 DEF PhaseInv

\* The ways to wind a session down, or the program.
Winds(then) ==
    /\ serving' = "winding" /\ after'.then = then /\ after'.n \in Nat
    /\ UNCHANGED <<attempt, session, held, lane, signIns, restores, erasures, syncs, persisters, checks>>
    /\ \/ then = "quit" /\ phase' = phase
       \/ then = "erase" /\ phase' = "LoggingOut" /\ phase \in {"Syncing", "SoftLoggedOut"}
       \/ then = "suspend" /\ phase' = "SoftLoggedOut" /\ phase = "Syncing"

\* What follows an input that winds a session down.
LEMMA WindsPhase ==
    ASSUME TypeInv, TypeInv', PhaseInv, NEW kind, Take(kind),
           kind \notin Verdicts, kind \notin RestoreEvents, kind \notin Cleared,
           NEW then, Winds(then)
    PROVE  PhaseInv'
<1>1. /\ serving = "next" /\ Steady /\ ~Undoing /\ ~Quitting /\ after.then # "quit"
      /\ Waiting' \subseteq Waiting
      /\ \A kinds : kind \notin kinds => Pending(kinds)' = Pending(kinds)
      BY InputFacts
<1>2. /\ Pending(Verdicts)' = Pending(Verdicts) /\ Pending(RestoreEvents)' = Pending(RestoreEvents)
      /\ Pending(Cleared)' = Pending(Cleared)
      BY <1>1
<1>3. /\ serving' = "winding" /\ after'.then = then
      /\ UNCHANGED <<attempt, session, held, lane, signIns, restores, erasures, syncs, persisters, checks>>
      /\ \/ then = "quit" /\ phase' = phase
         \/ then = "erase" /\ phase' = "LoggingOut" /\ phase \in {"Syncing", "SoftLoggedOut"}
         \/ then = "suspend" /\ phase' = "SoftLoggedOut" /\ phase = "Syncing"
      BY DEF Winds
<1>4. ServingInv'
      BY <1>3 DEF ServingInv, Quitting, Undoing
<1>5. HeldInv'
  <2>1. ~(Steady')
        BY <1>3 DEF Steady
  <2>2. phase = "Syncing" \/ (syncs = {} /\ persisters = {} /\ checks = {})
        BY <1>1 DEF PhaseInv, HeldInv, WindsDown
  <2>3. phase' = phase \/ WindsDown'
        BY <1>3 DEF WindsDown
  <2>4. /\ syncs' \subseteq {session'}
        /\ persisters' = {} \/ \E p \in persisters' : persisters' = {p} /\ p.session = session'
        BY <1>3 DEF PhaseInv, HeldInv
  <2> QED BY <1>3, <2>1, <2>2, <2>3, <2>4 DEF HeldInv
<1>6. CallsInv'
      BY <1>1, <1>3 DEF PhaseInv, CallsInv
<1>7. AuthInv'
  <2>1. CASE phase' = phase
        BY <1>1, <1>3, <2>1 DEF PhaseInv, AuthInv
  <2>2. CASE phase \in {"Syncing", "SoftLoggedOut"}
    <3>1. phase \notin AuthPhases
          BY <2>2 DEF AuthPhases
    <3>2. signIns' = {} /\ Pending(Verdicts)' = 0
          BY <1>1, <1>2, <1>3, <3>1 DEF PhaseInv, OneAuth
    <3> QED BY <3>2, NoAuth
  <2> QED BY <1>3, <2>1, <2>2
<1>8. OneAuth'
  <2>1. ~(Undoing')
        BY <1>3 DEF Undoing
  <2>2. CASE then = "quit"
        BY <1>3, <2>2 DEF PhaseInv, OneAuth, Quitting
  <2>3. CASE then # "quit"
    <3>1. phase \notin AuthPhases /\ phase' \notin AuthPhases
          BY <1>3, <2>3 DEF AuthPhases
    <3> QED BY <1>1, <1>2, <1>3, <2>1, <3>1 DEF PhaseInv, OneAuth
  <2> QED BY <2>2, <2>3
<1>9. RestoreInv'
      BY <1>2, <1>3 DEF PhaseInv, RestoreInv
<1>10. ErasureInv'
  <2>1. CASE then = "quit"
        BY <1>2, <1>3, <2>1 DEF PhaseInv, ErasureInv, WindsToErase
  <2>2. CASE then # "quit"
    <3>1. phase \notin EndPhases
          BY <1>3, <2>2 DEF EndPhases
    <3>2. erasures' = {} /\ Pending(Cleared)' = 0
          BY <1>2, <1>3, <3>1 DEF PhaseInv, ErasureInv
    <3> QED BY <3>2 DEF ErasureInv
  <2> QED BY <2>1, <2>2
<1> QED BY <1>4, <1>5, <1>6, <1>7, <1>8, <1>9, <1>10 DEF PhaseInv

\* end_session has a session to end, whenever it is called.
LEMMA EndSessionWinds ==
    ASSUME TypeInv, PhaseInv, serving = "next", MayLogOut, EndSession,
           UNCHANGED <<attempt, session, held, lane, signIns, restores, erasures, checks>>
    PROVE  Winds("erase") /\ after'.n = held.device /\ bgCancelled' = TRUE
<1>1. held.kind # "None"
      BY DEF PhaseInv, HeldInv, Steady, MayLogOut, SoftPhases
<1>2. /\ phase' = "LoggingOut" /\ serving' = "winding" /\ UNCHANGED <<syncs, persisters>>
      /\ after' = [then |-> "erase", n |-> held.device] /\ bgCancelled' = TRUE
      BY <1>1 DEF EndSession, WindDown
<1>3. held.device \in Nat
      BY DEF TypeInv, LifecycleTypes
<1> QED BY <1>2, <1>3 DEF Winds, MayLogOut

\* What follows a command that begins an authentication.
LEMMA BeginsPhase ==
    ASSUME TypeInv, TypeInv', PhaseInv, NEW kind \in Commands, Take(kind), NEW t,
           t.attempt = attempt + 1, t.stage = "asking", signIns' = signIns \cup {t},
           attempt' = attempt + 1, phase' \in PhasesOf(t.method),
           \/ phase = "LoggedOut" /\ phase' \in FirstAuth
           \/ phase = "SoftLoggedOut" /\ phase' \in ReAuth,
           UNCHANGED <<session, held, serving, after, lane, restores, erasures, syncs, persisters,
                       checks>>
    PROVE  PhaseInv'
<1>1. /\ serving = "next" /\ Steady /\ ~Undoing /\ ~Quitting /\ after.then # "quit"
      /\ Waiting' \subseteq Waiting
      /\ \A kinds : kind \notin kinds => Pending(kinds)' = Pending(kinds)
      BY InputFacts
<1>2. /\ Pending(Verdicts)' = Pending(Verdicts) /\ Pending(RestoreEvents)' = Pending(RestoreEvents)
      /\ Pending(Cleared)' = Pending(Cleared)
      BY <1>1, KindFacts
<1>3. phase \notin AuthPhases /\ phase' \in AuthPhases
      BY PhaseFacts DEF AuthPhases
<1>4. signIns = {} /\ Pending(Verdicts) = 0
      BY <1>1, <1>3 DEF PhaseInv, OneAuth
<1>5. signIns' = {t}
      BY <1>4
<1>6. ServingInv'
      BY <1>1 DEF ServingInv, Quitting, Undoing
<1>7. HeldInv'
  <2>1. /\ held.kind = "Running" <=> phase = "Syncing"
        /\ held.kind = "Suspended" <=> phase \in SoftPhases
        /\ phase = "Syncing" \/ (syncs = {} /\ persisters = {} /\ checks = {})
        BY <1>1 DEF PhaseInv, HeldInv, WindsDown
  <2>2. phase # "Syncing" /\ phase' # "Syncing" /\ (phase \in SoftPhases <=> phase' \in SoftPhases)
        BY PhaseFacts DEF SoftPhases, ReAuth
  <2> QED BY <2>1, <2>2 DEF HeldInv, PhaseInv
<1>8. CallsInv'
  <2>1. /\ Count(lane, ServiceCalls) = IF serving = "undoing" THEN 1 ELSE 0
        /\ \A c \in Elements(lane) : c.who = "signIn" => c.n <= attempt
        BY DEF PhaseInv, CallsInv
  <2>2. \A c \in Elements(lane) : c.n \in Nat
    <3>1. \A c \in Elements(lane) : c \in Calls
          BY ElementOfSeq, LenProperties DEF Elements, TypeInv, StorageTypes
    <3> QED BY <3>1 DEF Calls
  <2>3. attempt \in Nat
        BY DEF TypeInv, LifecycleTypes
  <2>4. \A c \in Elements(lane) : c.who = "signIn" => c.n <= attempt' /\ c.n # t.attempt
        BY <2>1, <2>2, <2>3
  <2> QED BY <1>5, <2>1, <2>4 DEF CallsInv
<1>9. AuthInv'
  <2>1. \A m \in Waiting' : m.kind \notin Verdicts
    <3>1. \A m \in Waiting : m.kind \notin Verdicts
          BY <1>4, NonePending DEF TypeInv, LoopTypes
    <3> QED BY <1>1, <3>1
  <2> QED BY <1>5, <2>1 DEF AuthInv
<1>10. OneAuth'
      BY <1>1, <1>2, <1>3, <1>4, <1>5 DEF OneAuth, Undoing
<1>11. RestoreInv'
      BY <1>2, <1>3, PhaseFacts DEF PhaseInv, RestoreInv
<1>12. ErasureInv'
  <2>1. erasures' = {} /\ Pending(Cleared)' = 0
        BY <1>2, PhaseFacts DEF PhaseInv, ErasureInv, EndPhases
  <2> QED BY <2>1 DEF ErasureInv
<1> QED BY <1>6, <1>7, <1>8, <1>9, <1>10, <1>11, <1>12 DEF PhaseInv


\* A call behind the others in the lane, as the sign-ins and the service see it.
LEMMA QueuedCalls ==
    ASSUME TypeInv, NEW c \in Calls, Enqueue(c)
    PROVE  /\ Elements(lane') = Elements(lane) \cup {c}
           /\ c.who # "service" => Count(lane', ServiceCalls) = Count(lane, ServiceCalls)
           /\ c.who = "service" => Count(lane', ServiceCalls) = Count(lane, ServiceCalls) + 1
<1>1. lane \in Seq(Calls) /\ lane' = Append(lane, c)
      BY DEF TypeInv, StorageTypes, Enqueue
<1>2. /\ Elements(Append(lane, c)) = Elements(lane) \cup {c}
      /\ Count(Append(lane, c), ServiceCalls)
            = Count(lane, ServiceCalls) + (IF c \in ServiceCalls THEN 1 ELSE 0)
      BY <1>1, QueueAppend
<1>3. Count(lane, ServiceCalls) \in Nat
      BY <1>1, CountType
<1>4. c \in ServiceCalls <=> c.who = "service"
      BY DEF ServiceCalls
<1> QED BY <1>1, <1>2, <1>3, <1>4

\* The commands keep the phases.
LEMMA CommandPhase ==
    ASSUME TypeInv, TypeInv', PhaseInv, HandleCommand
    PROVE  PhaseInv'
<1> USE DEF lifecycle, account, operations, background, storage, environment, history
<1>1. CASE RefuseCommand
  <2>1. PICK command \in Commands : Take(command)
        BY <1>1 DEF RefuseCommand
  <2>2. UNCHANGED <<phase, attempt, session, held, serving, after, lane, signIns, restores, erasures,
                    syncs, persisters, checks>>
        BY <1>1 DEF RefuseCommand
  <2> QED BY <2>1, <2>2, SettlesPhase, KindFacts
<1>2. CASE RestoreSession
  <2>1. /\ Take("RestoreSession") /\ phase \in {"Starting", "RestorePaused"} /\ phase' = "Restoring"
        /\ restores' = restores \cup {[stage |-> "loading", cred |-> NoSession]}
        /\ Enqueue(Read("restore"))
        /\ UNCHANGED <<attempt, session, held, serving, after, signIns, erasures, syncs, persisters,
                       checks>>
        BY <1>2 DEF RestoreSession, Command, Allowed
  <2>2. /\ serving = "next" /\ Steady /\ ~Undoing /\ ~Quitting /\ after.then # "quit"
        /\ Waiting' \subseteq Waiting
        /\ Pending(Verdicts)' = Pending(Verdicts) /\ Pending(RestoreEvents)' = Pending(RestoreEvents)
        /\ Pending(Cleared)' = Pending(Cleared)
    <3> HIDE DEF lifecycle, account, operations, background, storage, environment, history
    <3>1. "RestoreSession" \in Commands
          BY DEF Commands
    <3>2. /\ serving = "next" /\ Steady /\ ~Undoing /\ ~Quitting /\ after.then # "quit"
          /\ Waiting' \subseteq Waiting
          /\ \A kinds : "RestoreSession" \notin kinds => Pending(kinds)' = Pending(kinds)
          BY <2>1, InputFacts
    <3> QED BY <3>1, <3>2, KindFacts
  <2>3. phase \notin AuthPhases /\ phase' \notin AuthPhases /\ phase \notin EndPhases
        /\ phase \notin SoftPhases /\ phase' \notin SoftPhases /\ phase # "Syncing" /\ phase # "Restoring"
        BY <2>1 DEF AuthPhases, EndPhases, SoftPhases, ReAuth
  <2>4. ServingInv'
        BY <2>1, <2>2 DEF ServingInv, Quitting, Undoing
  <2>5. HeldInv'
    <3>1. /\ held.kind = "Running" <=> phase = "Syncing"
          /\ held.kind = "Suspended" <=> phase \in SoftPhases
          /\ syncs = {} /\ persisters = {} /\ checks = {}
          BY <2>2, <2>3 DEF PhaseInv, HeldInv, WindsDown
    <3> QED BY <2>1, <2>3, <3>1 DEF HeldInv
  <2>6. CallsInv'
    <3>1. Read("restore") \in Calls /\ Read("restore").who = "restore"
          BY CallFacts DEF Read
    <3>2. Elements(lane') = Elements(lane) \cup {Read("restore")}
          /\ Count(lane', ServiceCalls) = Count(lane, ServiceCalls)
          BY <2>1, <3>1, QueuedCalls
    <3> QED BY <2>1, <2>2, <3>1, <3>2 DEF PhaseInv, CallsInv
  <2>7. signIns' = {} /\ Pending(Verdicts)' = 0
        BY <2>1, <2>2, <2>3 DEF PhaseInv, OneAuth
  <2>8. AuthInv' /\ OneAuth'
        BY <2>1, <2>2, <2>3, <2>7, NoAuth DEF OneAuth, Undoing
  <2>9. RestoreInv'
    <3>1. restores = {} /\ Pending(RestoreEvents)' = 0
          BY <2>2, <2>3 DEF PhaseInv, RestoreInv
    <3>2. restores' = {[stage |-> "loading", cred |-> NoSession]}
          BY <2>1, <3>1
    <3> QED BY <2>1, <3>1, <3>2 DEF RestoreInv
  <2>10. ErasureInv'
    <3>1. erasures' = {} /\ Pending(Cleared)' = 0
          BY <2>1, <2>2, <2>3 DEF PhaseInv, ErasureInv
    <3> QED BY <3>1 DEF ErasureInv
  <2> QED BY <2>4, <2>5, <2>6, <2>8, <2>9, <2>10 DEF PhaseInv
<1>3. CASE Authenticate
  <2>1. PICK command \in {"CheckServer", "LoginPassword", "LoginOAuth"} :
            /\ Take(command) /\ Allowed(phase, command)
            /\ signIns' = signIns \cup {SignIn(MethodOf[command], prepared, 0)}
    <3> HIDE DEF lifecycle, account, operations, background, storage, environment, history
    <3> QED BY <1>3, Zenon DEF Authenticate, Command
  <2>2. /\ UNCHANGED <<session, held, serving, after, lane, restores, erasures, syncs, persisters, checks>>
        /\ attempt' = attempt + 1 /\ phase' = "Authenticating"
        BY <1>3 DEF Authenticate, NextAttempt
  <2>3. phase = "LoggedOut" /\ command \in Commands
        BY <2>1 DEF Allowed, Commands
  <2> DEFINE t == SignIn(MethodOf[command], prepared, 0)
  <2>4. MethodOf[command] \in {"check", "password", "browser"}
        BY DEF MethodOf
  <2>5. t.attempt = attempt + 1 /\ t.stage = "asking" /\ t.method = MethodOf[command]
        BY DEF SignIn
  <2>6. phase' \in PhasesOf(t.method) /\ phase' \in FirstAuth
        BY <2>2, <2>4, <2>5 DEF PhasesOf, FirstAuth
  <2> HIDE DEF t
  <2>7. signIns' = signIns \cup {t}
        BY <2>1 DEF t
  <2> QED BY <2>1, <2>2, <2>3, <2>5, <2>6, <2>7, BeginsPhase
<1>4. CASE Reauthenticate
  <2>1. PICK command \in {"ReauthPassword", "ReauthOAuth"} :
            /\ Take(command) /\ Allowed(phase, command)
            /\ \/ UNCHANGED <<attempt, phase, signIns>>
               \/ /\ attempt' = NextAttempt /\ phase' = "Reauthenticating"
                  /\ signIns' = signIns \cup {SignIn(MethodOf[command], TRUE, held.device)}
            /\ UNCHANGED <<session, held, prepared, account, serving, after, fired, restores,
                           erasures, background, checks, storage, environment, history>>
        BY <1>4 DEF Reauthenticate, Command
  <2>2. UNCHANGED <<session, held, serving, after, lane, restores, erasures, syncs, persisters, checks>>
        BY <2>1
  <2>3. phase = "SoftLoggedOut" /\ command \in Commands
        BY <2>1 DEF Allowed, Commands
  <2>4. CASE UNCHANGED <<attempt, phase, signIns>>
    <3>1. phase \notin AuthPhases /\ phase \notin EndPhases
          BY <2>3 DEF AuthPhases, EndPhases
    <3> QED BY <2>1, <2>2, <2>3, <2>4, <3>1, SettlesPhase, KindFacts
  <2>5. CASE /\ attempt' = NextAttempt /\ phase' = "Reauthenticating"
             /\ signIns' = signIns \cup {SignIn(MethodOf[command], TRUE, held.device)}
    <3> DEFINE t == SignIn(MethodOf[command], TRUE, held.device)
    <3>1. MethodOf[command] \in {"rePassword", "reBrowser"}
          BY DEF MethodOf
    <3>2. t.attempt = attempt + 1 /\ t.stage = "asking" /\ t.method = MethodOf[command]
          BY DEF SignIn
    <3>3. phase' \in PhasesOf(t.method) /\ phase' \in ReAuth
          BY <2>5, <3>1, <3>2 DEF PhasesOf, ReAuth
    <3> HIDE DEF t
    <3>4. signIns' = signIns \cup {t} /\ attempt' = attempt + 1
          BY <2>5 DEF t, NextAttempt
    <3> QED BY <2>1, <2>2, <2>3, <3>2, <3>3, <3>4, BeginsPhase
  <2> QED BY <2>1, <2>4, <2>5
<1>5. CASE CancelOAuth
  <2>1. /\ Take("CancelOAuth") /\ phase \in {"Authenticating", "Reauthenticating"}
        /\ phase' = CancelledPhase(phase)
        /\ UNCHANGED <<attempt, session, held, serving, after, lane, signIns, restores, erasures,
                       syncs, persisters, checks>>
        BY <1>5 DEF CancelOAuth, Command, Allowed
  <2>2. \/ phase = "Authenticating" /\ phase' = "CancellingAuth"
        \/ phase = "Reauthenticating" /\ phase' = "CancellingReauth"
        BY <2>1 DEF CancelledPhase
  <2>3. "CancelOAuth" \in Commands
        BY DEF Commands
  <2>4. /\ phase' \in FirstAuth <=> phase \in FirstAuth
        /\ phase' \in ReAuth <=> phase \in ReAuth
        /\ phase' \in SoftPhases <=> phase \in SoftPhases
        /\ phase \in AuthPhases /\ phase' \in AuthPhases
        BY <2>2 DEF FirstAuth, ReAuth, SoftPhases, AuthPhases
  <2>5. phase \notin EndPhases /\ phase' \notin EndPhases /\ phase # "Restoring" /\ phase' # "Restoring"
        /\ phase # "Syncing" /\ phase' # "Syncing"
        BY <2>2 DEF EndPhases
  <2> QED BY <2>1, <2>3, <2>4, <2>5, SettlesPhase, KindFacts
<1>6. CASE CheckLogout
  <2>1. /\ Take("Logout") /\ held.kind = "Running" /\ serving = "next"
        /\ UNCHANGED <<phase, attempt, session, held, serving, after, lane, signIns, restores, erasures,
                       syncs, persisters>>
        BY <1>6 DEF CheckLogout, Command, Take
  <2>2. phase = "Syncing" /\ "Logout" \in Commands
        BY <2>1 DEF PhaseInv, HeldInv, Steady, Commands
  <2>3. phase \notin AuthPhases /\ phase \notin EndPhases
        BY <2>2 DEF AuthPhases, EndPhases
  <2> QED BY <2>1, <2>2, <2>3, SettlesPhase, KindFacts
<1>7. CASE LogoutUnchecked
  <2>1. /\ Take("Logout") /\ serving = "next" /\ MayLogOut /\ EndSession
        /\ UNCHANGED <<attempt, session, held, lane, signIns, restores, erasures, checks>>
        BY <1>7 DEF LogoutUnchecked, Command, Allowed, MayLogOut, Take
  <2>2. Winds("erase") /\ "Logout" \in Commands
        BY <2>1, EndSessionWinds DEF Commands
  <2> QED BY <2>1, <2>2, WindsPhase, KindFacts
<1>8. CASE ConfirmLogout
  <2>1. /\ Take("ConfirmLogout") /\ serving = "next" /\ MayLogOut /\ phase = "Syncing"
        /\ UNCHANGED <<attempt, session, held, lane, signIns, restores, erasures, checks>>
        /\ EndSession \/ UNCHANGED <<phase, serving, after, syncs, persisters>>
        /\ "ConfirmLogout" \in Commands
        BY <1>8 DEF ConfirmLogout, Command, Allowed, MayLogOut, Take, Commands
  <2>2. CASE EndSession
        BY <2>1, <2>2, EndSessionWinds, WindsPhase, KindFacts
  <2>3. CASE UNCHANGED <<phase, serving, after, syncs, persisters>>
    <3>1. phase \notin AuthPhases /\ phase \notin EndPhases
          BY <2>1 DEF AuthPhases, EndPhases
    <3> QED BY <2>1, <2>3, <3>1, SettlesPhase, KindFacts
  <2> QED BY <2>1, <2>2, <2>3
<1>9. CASE CancelLogout
  <2>1. /\ Take("CancelLogout") /\ "CancelLogout" \in Commands
        /\ UNCHANGED <<phase, attempt, session, held, serving, after, lane, signIns, restores, erasures,
                       syncs, persisters, checks>>
        BY <1>9 DEF CancelLogout, Command, Commands
  <2> QED BY <2>1, SettlesPhase, KindFacts
<1>10. CASE Quit
  <2>1. Take("Quit") /\ "Quit" \in Commands
        BY <1>10 DEF Quit, Command, Commands
  <2>2. Winds("quit")
        BY <1>10 DEF Quit, WindDown, Winds
  <2> QED BY <2>1, <2>2, WindsPhase, KindFacts
<1> QED BY <1>1, <1>2, <1>3, <1>4, <1>5, <1>6, <1>7, <1>8, <1>9, <1>10 DEF HandleCommand


\* An answer to the attempt at hand ends it.
LEMMA AnswerSettles ==
    ASSUME phase \in AuthPhases, NEW n, n = attempt, SettleAuth(n)
    PROVE  /\ phase' = IF phase \in FirstAuth THEN "LoggedOut" ELSE "SoftLoggedOut"
           /\ phase' # "Syncing" /\ phase # "Syncing"
           /\ phase' \in SoftPhases <=> phase \in SoftPhases
           /\ phase' \notin AuthPhases /\ phase' # "Restoring" /\ phase # "Restoring"
           /\ phase' \notin EndPhases /\ phase \notin EndPhases
BY DEF SettleAuth, Settled, IdleAfterAuth, AuthPhases, FirstAuth, ReAuth, SoftPhases, EndPhases

\* The events of the tasks keep the phases.
LEMMA EventPhase ==
    ASSUME TypeInv, TypeInv', PhaseInv, HandleEvent
    PROVE  PhaseInv'
<1>0. /\ {"ServerDiscovered", "AuthRejected", "AuthCancelled", "LoggedIn", "LoginUnresolved", "Resumed"}
             \subseteq Verdicts
      /\ {"Restored", "RestoreFailed", "RestorePaused"} \subseteq RestoreEvents
      /\ {"Suspended", "Expired"} \subseteq Losses
      BY DEF Verdicts, RestoreEvents, Losses
<1> USE DEF operations, background, storage
<1>1. CASE SettleRestore
  <2>1. /\ Take("Restored")
        /\ UNCHANGED <<attempt, serving, after, lane, signIns, restores, erasures, checks>>
        /\ \/ phase = "Restoring" /\ Activate(Input.cred)
           \/ UNCHANGED <<phase, session, held, syncs, persisters>>
        BY <1>1 DEF SettleRestore
  <2>2. CASE Activate(Input.cred)
        BY <2>1, <2>2, StartsPhase
  <2>3. CASE UNCHANGED <<phase, session, held, syncs, persisters>>
    <3>1. phase = "Restoring"
          BY <1>0, <2>1, InputFacts
    <3>2. phase \notin AuthPhases /\ phase \notin EndPhases
          BY <3>1 DEF AuthPhases, EndPhases
    <3> QED BY <2>1, <2>3, <3>2, SettlesPhase
  <2> QED BY <2>1, <2>2, <2>3
<1>2. CASE SettleRestoreFailure
  <2>1. PICK kind \in {"RestoreFailed", "RestorePaused"} :
            /\ Take(kind)
            /\ phase' \in {"LoggedOut", "RestorePaused", phase}
        BY <1>2 DEF SettleRestoreFailure
  <2>2. UNCHANGED <<attempt, session, held, serving, after, lane, signIns, restores, erasures,
                    syncs, persisters, checks>>
        BY <1>2 DEF SettleRestoreFailure, Rest
  <2>3. phase = "Restoring" /\ kind \in RestoreEvents
        BY <1>0, <2>1, InputFacts
  <2>4. /\ phase \notin AuthPhases /\ phase \notin EndPhases /\ phase \notin SoftPhases
        /\ phase' \notin AuthPhases /\ phase' \notin EndPhases /\ phase' \notin SoftPhases
        /\ phase' # "Syncing"
        BY <2>1, <2>3 DEF AuthPhases, EndPhases, SoftPhases, ReAuth
  <2> QED BY <2>1, <2>2, <2>3, <2>4, PhaseFacts, SettlesPhase
<1>3. CASE SettleDiscovery
  <2>1. /\ Take("ServerDiscovered") /\ SettleAuth(Input.n)
        /\ UNCHANGED <<attempt, session, held, serving, after, lane, signIns, restores, erasures,
                       syncs, persisters, checks>>
        BY <1>3 DEF SettleDiscovery, Rest
  <2>2. phase \in AuthPhases /\ Input.n = attempt
        BY <1>0, <2>1, InputFacts
  <2>3. /\ phase' # "Syncing" /\ phase # "Syncing"
        /\ phase' \in SoftPhases <=> phase \in SoftPhases
        /\ phase' \notin AuthPhases /\ phase' # "Restoring" /\ phase # "Restoring"
        /\ phase' \notin EndPhases /\ phase \notin EndPhases
        BY <2>1, <2>2, AnswerSettles
  <2> QED BY <1>0, <2>1, <2>3, PhaseFacts, SettlesPhase
<1>4. CASE SettleAuthFailure
  <2>1. PICK kind \in {"AuthRejected", "AuthCancelled"} : Take(kind)
        BY <1>4 DEF SettleAuthFailure
  <2>2. /\ SettleAuth(Input.n)
        /\ UNCHANGED <<attempt, session, held, serving, after, lane, signIns, restores, erasures,
                       syncs, persisters, checks>>
        BY <1>4 DEF SettleAuthFailure, Rest
  <2>3. phase \in AuthPhases /\ Input.n = attempt /\ kind \in Verdicts
        BY <1>0, <2>1, InputFacts
  <2>4. /\ phase' # "Syncing" /\ phase # "Syncing"
        /\ phase' \in SoftPhases <=> phase \in SoftPhases
        /\ phase' \notin AuthPhases /\ phase' # "Restoring" /\ phase # "Restoring"
        /\ phase' \notin EndPhases /\ phase \notin EndPhases
        BY <2>2, <2>3, AnswerSettles
  <2> QED BY <2>1, <2>2, <2>3, <2>4, PhaseFacts, SettlesPhase
<1>5. CASE SettleLogin
  <2>1. /\ Take("LoggedIn") /\ Activate(Input.cred)
        /\ UNCHANGED <<attempt, serving, after, lane, signIns, restores, erasures, checks>>
        BY <1>5 DEF SettleLogin
  <2> QED BY <2>1, StartsPhase
<1>6. CASE UndoSupersededLogin
  <2>1. /\ Take("LoggedIn")
        /\ UNCHANGED <<attempt, session, held, signIns, restores, erasures, syncs, persisters, checks>>
        /\ \/ /\ serving' = "undoing" /\ after' = [then |-> "undo", n |-> Input.n]
              /\ Enqueue(Write("service", Input.cred.device, Input.was)) /\ UNCHANGED phase
           \/ phase' = "Blocked" /\ UNCHANGED <<serving, after, lane>>
        BY <1>6 DEF UndoSupersededLogin
  <2>2. /\ serving = "next" /\ Steady /\ ~Undoing /\ ~Quitting /\ after.then # "quit"
        /\ Input \in Message /\ Waiting' \subseteq Waiting
        /\ \A kinds : "LoggedIn" \notin kinds => Pending(kinds)' = Pending(kinds)
        BY <2>1, InputFacts
  <2>3. /\ signIns = {} /\ Pending(Verdicts)' = 0 /\ phase \in AuthPhases
        /\ phase \in VerdictPhases("LoggedIn") /\ Input.n = attempt
        BY <1>0, <2>1, InputFacts
  <2>4. phase \in FirstAuth
        BY <2>3 DEF VerdictPhases
  <2>5. CASE phase' = "Blocked" /\ UNCHANGED <<serving, after, lane>>
    <3>1. /\ "Blocked" \notin AuthPhases /\ "Blocked" \notin SoftPhases /\ "Blocked" \notin EndPhases
          BY DEF AuthPhases, SoftPhases, ReAuth, EndPhases
    <3> QED BY <1>0, <2>1, <2>4, <2>5, <3>1, PhaseFacts, SettlesPhase
  <2>6. CASE /\ serving' = "undoing" /\ after' = [then |-> "undo", n |-> Input.n]
             /\ Enqueue(Write("service", Input.cred.device, Input.was)) /\ UNCHANGED phase
    <3>1. /\ phase \notin EndPhases /\ phase # "Restoring" /\ phase # "Syncing" /\ phase \notin SoftPhases
          BY <2>4, PhaseFacts
    <3>2. ServingInv'
          BY <2>1, <2>3, <2>4, <2>6 DEF ServingInv, Quitting, Undoing
    <3>3. HeldInv'
      <4>1. /\ held.kind = "Running" <=> phase = "Syncing"
            /\ held.kind = "Suspended" <=> phase \in SoftPhases
            /\ syncs = {} /\ persisters = {} /\ checks = {}
            BY <2>2, <3>1 DEF PhaseInv, HeldInv, WindsDown
      <4> QED BY <2>1, <2>6, <3>1, <4>1 DEF HeldInv
    <3>4. CallsInv'
      <4>1. Write("service", Input.cred.device, Input.was) \in Calls
            /\ Write("service", Input.cred.device, Input.was).who = "service"
        <5>1. Input.cred.device \in Nat /\ Input.was \in Credentials
              BY <2>2 DEF Message, Credentials
        <5> QED BY <5>1, CallFacts
      <4>2. /\ Elements(lane') = Elements(lane) \cup {Write("service", Input.cred.device, Input.was)}
            /\ Count(lane', ServiceCalls) = Count(lane, ServiceCalls) + 1
            BY <2>6, <4>1, QueuedCalls
      <4>3. Count(lane, ServiceCalls) = 0
            BY <2>2 DEF PhaseInv, CallsInv
      <4> QED BY <2>1, <2>6, <4>1, <4>2, <4>3 DEF PhaseInv, CallsInv
    <3>5. AuthInv' /\ OneAuth'
      <4>1. signIns' = {} /\ Pending(Verdicts)' = 0 /\ Undoing' /\ phase' \in AuthPhases
            BY <2>1, <2>3, <2>6 DEF Undoing
      <4> QED BY <4>1, NoAuth DEF OneAuth
    <3>6. RestoreInv' /\ ErasureInv'
      <4>1. /\ Pending(RestoreEvents)' = Pending(RestoreEvents)
            /\ Pending(Cleared)' = Pending(Cleared)
            BY <1>0, <2>2, KindFacts
      <4>2. restores' = {} /\ Pending(RestoreEvents)' = 0 /\ erasures' = {} /\ Pending(Cleared)' = 0
            BY <2>1, <3>1, <4>1 DEF PhaseInv, RestoreInv, ErasureInv
      <4> QED BY <4>2 DEF RestoreInv, ErasureInv
    <3> QED BY <3>2, <3>3, <3>4, <3>5, <3>6 DEF PhaseInv
  <2> QED BY <2>1, <2>5, <2>6
<1>7. CASE SettleUnresolved
  <2>1. /\ Take("LoginUnresolved") /\ phase' = "Blocked"
        /\ UNCHANGED <<attempt, session, held, serving, after, lane, signIns, restores, erasures,
                       syncs, persisters, checks>>
        BY <1>7 DEF SettleUnresolved, Rest
  <2>2. phase \in FirstAuth
        BY <1>0, <2>1, InputFacts DEF VerdictPhases
  <2>3. /\ "Blocked" \notin AuthPhases /\ "Blocked" \notin SoftPhases /\ "Blocked" \notin EndPhases
        BY DEF AuthPhases, SoftPhases, ReAuth, EndPhases
  <2> QED BY <1>0, <2>1, <2>2, <2>3, PhaseFacts, SettlesPhase
<1>8. CASE SettleResume
  <2>1. /\ Take("Resumed")
        /\ UNCHANGED <<attempt, serving, after, lane, signIns, restores, erasures, checks>>
        BY <1>8 DEF SettleResume
  <2>2. \/ Activate(Input.cred)
        \/ SettleAuth(Input.n) /\ UNCHANGED <<session, held, syncs, persisters>>
    <3>1. IF Resumes(Input.n) THEN Activate(Input.cred)
          ELSE SettleAuth(Input.n) /\ UNCHANGED <<session, held, background>>
          BY <1>8 DEF SettleResume
    <3>2. CASE Resumes(Input.n)
          BY <3>1, <3>2
    <3>3. CASE ~Resumes(Input.n)
          BY <3>1, <3>3
    <3> QED BY <3>2, <3>3
  <2>3. CASE Activate(Input.cred)
        BY <2>1, <2>3, StartsPhase
  <2>4. CASE SettleAuth(Input.n) /\ UNCHANGED <<session, held, syncs, persisters>>
    <3>1. phase \in AuthPhases /\ Input.n = attempt
          BY <1>0, <2>1, InputFacts
    <3>2. /\ phase' # "Syncing" /\ phase # "Syncing"
          /\ phase' \in SoftPhases <=> phase \in SoftPhases
          /\ phase' \notin AuthPhases /\ phase' # "Restoring" /\ phase # "Restoring"
          /\ phase' \notin EndPhases /\ phase \notin EndPhases
          BY <2>4, <3>1, AnswerSettles
    <3> QED BY <1>0, <2>1, <2>4, <3>2, PhaseFacts, SettlesPhase
  <2> QED BY <2>2, <2>3, <2>4
<1>9. CASE SuspendSession
  <2>1. /\ Take("Suspended")
        /\ UNCHANGED <<attempt, session, held, lane, signIns, restores, erasures, checks>>
        /\ \/ phase = "Syncing" /\ phase' = "SoftLoggedOut" /\ WindDown("suspend", held.device)
           \/ UNCHANGED <<phase, serving, after, syncs, persisters>>
        BY <1>9 DEF SuspendSession
  <2>2. CASE phase = "Syncing" /\ phase' = "SoftLoggedOut" /\ WindDown("suspend", held.device)
    <3>1. held.device \in Nat
          BY DEF TypeInv, LifecycleTypes
    <3>2. Winds("suspend")
          BY <2>1, <2>2, <3>1 DEF Winds, WindDown
    <3> QED BY <1>0, <2>1, <3>2, WindsPhase, KindFacts
  <2>3. CASE UNCHANGED <<phase, serving, after, syncs, persisters>>
    <3>1. "Suspended" \notin Verdicts /\ "Suspended" \notin RestoreEvents /\ "Suspended" \notin Cleared
          BY <1>0, KindFacts
    <3> QED BY <2>1, <2>3, <3>1, PhaseFacts, SettlesPhase
  <2> QED BY <2>1, <2>2, <2>3
<1>10. CASE ExpireSession
  <2>1. /\ Take("Expired") /\ serving = "next"
        /\ UNCHANGED <<attempt, session, held, lane, signIns, restores, erasures, checks>>
        /\ \/ MayLogOut /\ EndSession
           \/ UNCHANGED <<phase, serving, after, syncs, persisters>>
        BY <1>10 DEF ExpireSession, Take
  <2>2. "Expired" \notin Verdicts /\ "Expired" \notin RestoreEvents /\ "Expired" \notin Cleared
        BY <1>0, KindFacts
  <2>3. CASE MayLogOut /\ EndSession
        BY <2>1, <2>2, <2>3, EndSessionWinds, WindsPhase
  <2>4. CASE UNCHANGED <<phase, serving, after, syncs, persisters>>
        BY <2>1, <2>2, <2>4, PhaseFacts, SettlesPhase
  <2> QED BY <2>1, <2>3, <2>4
<1>11. CASE LogoutChecked
  <2>1. PICK kind \in {"LogoutSafe", "LogoutRisky"} : Take(kind)
        BY <1>11 DEF LogoutChecked
  <2>2. /\ serving = "next"
        /\ UNCHANGED <<attempt, session, held, lane, signIns, restores, erasures, checks>>
        /\ \/ MayLogOut /\ EndSession
           \/ UNCHANGED <<phase, serving, after, syncs, persisters>>
        BY <1>11 DEF LogoutChecked, Take
  <2>3. kind \notin Verdicts /\ kind \notin RestoreEvents /\ kind \notin Cleared
        BY <2>1, KindFacts
  <2>4. CASE MayLogOut /\ EndSession
        BY <2>1, <2>2, <2>3, <2>4, EndSessionWinds, WindsPhase
  <2>5. CASE UNCHANGED <<phase, serving, after, syncs, persisters>>
        BY <2>1, <2>2, <2>3, <2>5, PhaseFacts, SettlesPhase
  <2> QED BY <2>2, <2>4, <2>5
<1>12. CASE SettleErasure
  <2>1. PICK kind \in {"ErasingLocalState", "LocalStateCleared"} :
            /\ Take(kind)
            /\ \/ phase' = phase
               \/ kind = "ErasingLocalState" /\ phase = "LoggingOut" /\ phase' = "CleaningUp"
               \/ kind = "LocalStateCleared" /\ phase \in EndPhases /\ phase' = "LoggedOut"
    <3>1. \/ Take("ErasingLocalState") /\ (phase' = phase \/ (phase = "LoggingOut" /\ phase' = "CleaningUp"))
          \/ Take("LocalStateCleared") /\ (phase' = phase \/ (phase \in EndPhases /\ phase' = "LoggedOut"))
          BY <1>12 DEF SettleErasure, MayFinishLogout
    <3> QED BY <3>1
  <2>2. UNCHANGED <<attempt, session, held, serving, after, lane, signIns, restores, erasures,
                    syncs, persisters, checks>>
        BY <1>12 DEF SettleErasure, Rest
  <2>3. kind \notin Verdicts /\ kind \notin RestoreEvents
        /\ (kind = "LocalStateCleared" <=> kind \in Cleared)
    <3>1. kind \notin Verdicts /\ kind \notin RestoreEvents
          BY <2>1 DEF Verdicts, RestoreEvents
    <3>2. kind = "LocalStateCleared" <=> kind \in Cleared
          BY DEF Cleared
    <3> QED BY <3>1, <3>2
  <2>4. CASE phase' = phase
        BY <2>1, <2>2, <2>3, <2>4, PhaseFacts, SettlesPhase
  <2>5. CASE phase = "LoggingOut" /\ phase' = "CleaningUp"
    <3>1. phase \in EndPhases /\ phase' \in EndPhases
          BY <2>5 DEF EndPhases
    <3> QED BY <2>1, <2>2, <2>3, <3>1, PhaseFacts, SettlesPhase
  <2>6. CASE kind = "LocalStateCleared" /\ phase \in EndPhases /\ phase' = "LoggedOut"
    <3>1. phase' \notin AuthPhases /\ phase' \notin SoftPhases /\ phase' \notin EndPhases
          /\ phase' # "Syncing" /\ phase' # "Restoring"
          BY <2>6 DEF AuthPhases, SoftPhases, ReAuth, EndPhases
    <3> QED BY <2>1, <2>2, <2>3, <2>6, <3>1, PhaseFacts, SettlesPhase
  <2> QED BY <2>1, <2>4, <2>5, <2>6
<1> QED BY <1>1, <1>2, <1>3, <1>4, <1>5, <1>6, <1>7, <1>8, <1>9, <1>10, <1>11, <1>12 DEF HandleEvent


\* The rest of a handler that waited keeps the phases.
LEMMA ResumePhase ==
    ASSUME TypeInv, TypeInv', PhaseInv, Resume
    PROVE  PhaseInv'
<1> USE DEF operations, background, storage
<1>1. CASE LoginUndone
  <2>1. /\ serving \in {"undone", "stuck"} /\ serving' = "next"
        /\ SettleAuth(after.n) \/ phase' = "Blocked"
        /\ UNCHANGED <<attempt, session, held, inbox, after, lane, signIns, restores, erasures,
                       syncs, persisters, checks>>
        BY <1>1 DEF LoginUndone
  <2>2. Undoing /\ ~Quitting /\ Steady
        BY <2>1 DEF Undoing, Steady, PhaseInv, ServingInv
  <2>3. phase \in FirstAuth /\ after.n = attempt /\ after.then = "undo"
        BY <2>2 DEF PhaseInv, ServingInv
  <2>4. phase \in AuthPhases
        BY <2>3, PhaseFacts
  <2>5. phase' \in {"LoggedOut", "Blocked"}
        BY <2>1, <2>3, <2>4, AnswerSettles
  <2>6. /\ phase' \notin AuthPhases /\ phase' \notin SoftPhases /\ phase' \notin EndPhases
        /\ phase' # "Syncing" /\ phase' # "Restoring"
        BY <2>5 DEF AuthPhases, SoftPhases, ReAuth, EndPhases
  <2>7. Waiting' = Waiting /\ \A kinds : Pending(kinds)' = Pending(kinds)
        BY <2>1, InboxStays
  <2>8. signIns = {} /\ Pending(Verdicts) = 0
        BY <2>2, <2>4 DEF PhaseInv, OneAuth
  <2>9. ServingInv'
        BY <2>1, <2>3 DEF ServingInv, Quitting, Undoing
  <2>10. HeldInv'
    <3>1. /\ held.kind = "Running" <=> phase = "Syncing"
          /\ held.kind = "Suspended" <=> phase \in SoftPhases
          BY <2>2 DEF PhaseInv, HeldInv
    <3>2. syncs = {} /\ persisters = {} /\ checks = {}
          BY <2>1, <2>3, PhaseFacts DEF PhaseInv, HeldInv, WindsDown
    <3> QED BY <2>1, <2>3, <2>6, <3>1, <3>2, PhaseFacts DEF HeldInv
  <2>11. CallsInv'
        BY <2>1 DEF PhaseInv, CallsInv
  <2>12. Pending(Verdicts)' = 0 /\ signIns' = {}
        BY <2>1, <2>7, <2>8
  <2>13. AuthInv' /\ OneAuth'
        BY <2>1, <2>6, <2>12, NoAuth DEF OneAuth, Undoing
  <2>14. RestoreInv' /\ ErasureInv'
    <3>1. restores' = {} /\ Pending(RestoreEvents)' = 0 /\ erasures' = {} /\ Pending(Cleared)' = 0
          BY <2>1, <2>3, <2>7, PhaseFacts DEF PhaseInv, RestoreInv, ErasureInv
    <3> QED BY <3>1 DEF RestoreInv, ErasureInv
  <2> QED BY <2>9, <2>10, <2>11, <2>13, <2>14 DEF PhaseInv
<1>2. CASE WoundDown
  <2>1. /\ serving = "winding" /\ Drained
        /\ UNCHANGED <<attempt, session, inbox, after, signIns, restores, syncs, persisters, checks, lane>>
        BY <1>2 DEF WoundDown
  <2>2. Waiting' = Waiting /\ \A kinds : Pending(kinds)' = Pending(kinds)
        BY <2>1, InboxStays
  <2>3. /\ syncs' = {} /\ persisters' = {} /\ checks' = {} /\ signIns' = {} /\ restores' = {}
        /\ signIns = {} /\ restores = {} /\ erasures = {}
        BY <2>1 DEF Drained
  <2>4. CallsInv'
    <3>1. serving' # "undoing" /\ serving # "undoing"
          BY <1>2, <2>1 DEF WoundDown
    <3> QED BY <2>1, <2>3, <3>1 DEF PhaseInv, CallsInv
  <2>5. RestoreInv'
    <3>1. Pending(RestoreEvents) \in {0, 1} /\ (phase # "Restoring" => Pending(RestoreEvents) = 0)
          BY <2>3 DEF PhaseInv, RestoreInv
    <3>2. Pending(RestoreEvents)' = Pending(RestoreEvents)
          BY <2>2
    <3>3. phase' = phase \/ after.then = "finish"
          BY <1>2 DEF WoundDown
    <3>4. phase' = phase
          BY <2>1, <3>3 DEF PhaseInv, ServingInv, Quitting
    <3> QED BY <2>3, <3>1, <3>2, <3>4 DEF RestoreInv
  <2>6. CASE after.then = "quit"
    <3>1. serving' = "stopped" /\ UNCHANGED <<phase, held, erasures>>
          BY <1>2, <2>6 DEF WoundDown
    <3>2. ServingInv'
          BY <2>1, <2>6, <3>1 DEF ServingInv, Quitting, Undoing
    <3>3. HeldInv'
          BY <2>3, <3>1 DEF HeldInv, Steady
    <3>4. OneAuth'
          BY <2>1, <2>3, <2>6 DEF OneAuth, Quitting
    <3>5. AuthInv'
          BY <2>1, <2>2, <2>3, <3>1 DEF PhaseInv, AuthInv
    <3>6. ErasureInv'
      <4>1. Pending(Cleared)' = Pending(Cleared) /\ ~(WindsToErase')
            BY <2>2, <3>1 DEF WindsToErase
      <4> QED BY <2>3, <3>1, <4>1 DEF PhaseInv, ErasureInv
    <3> QED BY <2>4, <2>5, <3>2, <3>3, <3>4, <3>5, <3>6 DEF PhaseInv
  <2>7. CASE after.then # "quit"
    <3>1. \/ after.then = "erase" /\ phase = "LoggingOut"
          \/ after.then = "suspend" /\ phase = "SoftLoggedOut"
          BY <2>1, <2>7 DEF PhaseInv, ServingInv, Quitting
    <3>2. /\ serving' = "next" /\ held' = WhatIsHeldAfter(after) /\ phase' = phase
          /\ erasures' = IF after.then = "erase" THEN {Erasure(session, after.n)} ELSE erasures
          BY <1>2, <2>7, <3>1 DEF WoundDown
    <3>3. phase \notin AuthPhases /\ phase # "Syncing"
          /\ (phase = "LoggingOut" => phase \notin SoftPhases /\ phase \in EndPhases)
          /\ (phase = "SoftLoggedOut" => phase \in SoftPhases /\ phase \notin EndPhases)
          BY <3>1 DEF AuthPhases, SoftPhases, ReAuth, EndPhases
    <3>4. ServingInv'
          BY <2>1, <2>7, <3>2 DEF ServingInv, Quitting, Undoing
    <3>5. HeldInv'
      <4>1. /\ after.then = "erase" => held'.kind = "None"
            /\ after.then = "suspend" => held'.kind = "Suspended"
            BY <3>2 DEF WhatIsHeldAfter
      <4>2. /\ held'.kind = "Running" <=> phase' = "Syncing"
            /\ held'.kind = "Suspended" <=> phase' \in SoftPhases
            BY <3>1, <3>2, <3>3, <4>1
      <4> QED BY <2>3, <4>2 DEF HeldInv
    <3>6. AuthInv' /\ OneAuth'
      <4>1. ~Quitting /\ Pending(Verdicts) = 0
            BY <2>7, <3>3 DEF Quitting, PhaseInv, OneAuth
      <4>2. Pending(Verdicts)' = 0 /\ ~(Undoing')
            BY <2>2, <3>2, <4>1 DEF Undoing
      <4> QED BY <2>3, <3>2, <3>3, <4>2, NoAuth DEF OneAuth
    <3>7. ErasureInv'
      <4>1. Pending(Cleared)' = Pending(Cleared) /\ ~(WindsToErase')
            BY <2>2, <3>2 DEF WindsToErase
      <4>2. CASE after.then = "erase"
        <5>1. Pending(Cleared) = 0
              BY <2>1, <2>3, <4>2 DEF PhaseInv, ErasureInv, WindsToErase
        <5>2. erasures' = {Erasure(session, after.n)} /\ Erasure(session, after.n).session = session'
              BY <2>1, <3>2, <4>2 DEF Erasure
        <5> QED BY <3>1, <3>2, <3>3, <4>1, <4>2, <5>1, <5>2 DEF ErasureInv
      <4>3. CASE after.then = "suspend"
        <5>1. erasures' = {} /\ Pending(Cleared)' = 0
              BY <2>3, <3>1, <3>2, <3>3, <4>1, <4>3 DEF PhaseInv, ErasureInv
        <5> QED BY <5>1 DEF ErasureInv
      <4> QED BY <3>1, <4>2, <4>3
    <3> QED BY <2>4, <2>5, <3>4, <3>5, <3>6, <3>7 DEF PhaseInv
  <2> QED BY <2>6, <2>7
<1> QED BY <1>1, <1>2 DEF Resume

\* Tasks that are aborted keep the phases.
LEMMA AbortPhase ==
    ASSUME TypeInv, TypeInv', PhaseInv, AbortStragglers
    PROVE  PhaseInv'
<1>1. /\ serving = "winding"
      /\ UNCHANGED <<phase, attempt, session, held, inbox, serving, after, lane>>
      BY DEF AbortStragglers, lifecycle, loop, storage
<1>2. /\ checks' \in {{}, checks} /\ syncs' \in {{}, syncs} /\ persisters' \in {{}, persisters}
      /\ signIns' \in {{}, signIns} /\ restores' \in {{}, restores} /\ erasures' \in {{}, erasures}
      BY DEF AbortStragglers
<1>3. Waiting' = Waiting /\ \A kinds : Pending(kinds)' = Pending(kinds)
      BY <1>1, InboxStays
<1>4. ServingInv'
      BY <1>1 DEF PhaseInv, ServingInv, Quitting, Undoing
<1>5. HeldInv'
  <2>1. ~(Steady') /\ (WindsDown <=> WindsDown')
        BY <1>1 DEF Steady, WindsDown
  <2>2. phase' = "Syncing" \/ WindsDown' \/ (syncs' = {} /\ persisters' = {} /\ checks' = {})
        BY <1>1, <1>2, <2>1 DEF PhaseInv, HeldInv
  <2>3. syncs' \subseteq {session'}
        BY <1>1, <1>2 DEF PhaseInv, HeldInv
  <2>4. persisters' = {} \/ \E p \in persisters' : persisters' = {p} /\ p.session = session'
        BY <1>1, <1>2 DEF PhaseInv, HeldInv
  <2> QED BY <2>1, <2>2, <2>3, <2>4 DEF HeldInv
<1>6. CallsInv'
      BY <1>1, <1>2 DEF PhaseInv, CallsInv
<1>7. AuthInv'
      BY <1>1, <1>2, <1>3 DEF PhaseInv, AuthInv
<1>8. OneAuth'
  <2>1. CASE after.then = "quit"
        BY <1>1, <1>2, <2>1 DEF PhaseInv, OneAuth, Quitting
  <2>2. CASE after.then # "quit"
    <3>1. phase \notin AuthPhases
          BY <1>1, <2>2 DEF PhaseInv, ServingInv, Quitting, AuthPhases
    <3> QED BY <1>1, <1>2, <1>3, <2>2, <3>1 DEF PhaseInv, OneAuth, Quitting, Undoing
  <2> QED BY <2>1, <2>2
<1>9. RestoreInv'
      BY <1>1, <1>2, <1>3 DEF PhaseInv, RestoreInv
<1>10. ErasureInv'
  <2>1. Pending(Cleared)' = Pending(Cleared) /\ (WindsToErase' <=> WindsToErase)
        BY <1>1, <1>3 DEF WindsToErase
  <2> QED BY <1>1, <1>2, <2>1 DEF PhaseInv, ErasureInv
<1> QED BY <1>4, <1>5, <1>6, <1>7, <1>8, <1>9, <1>10 DEF PhaseInv


\* The call the lane runs, and what is left of the lane.
LEMMA RanCall ==
    ASSUME TypeInv, RunCall
    PROVE  /\ NextCall \in Calls /\ lane # <<>> /\ lane' = Tail(lane) /\ NextCall = Head(lane)
           /\ Elements(lane) = Elements(lane') \cup {NextCall}
           /\ Count(lane', ServiceCalls) \in Nat
           /\ Count(lane, ServiceCalls) =
                 Count(lane', ServiceCalls) + (IF NextCall.who = "service" THEN 1 ELSE 0)
<1>1. lane \in Seq(Calls) /\ lane # <<>> /\ lane' = OtherCalls
      BY DEF TypeInv, StorageTypes, RunCall
<1>2. NextCall \in Calls /\ NextCall = Head(lane) /\ OtherCalls = Tail(lane)
      BY <1>1, LaneFacts
<1>3. /\ Elements(lane) = Elements(Tail(lane)) \cup {Head(lane)}
      /\ Count(lane, ServiceCalls) =
            Count(Tail(lane), ServiceCalls) + (IF Head(lane) \in ServiceCalls THEN 1 ELSE 0)
      /\ Count(Tail(lane), ServiceCalls) \in Nat
      BY <1>1, QueueTail
<1>4. NextCall \in ServiceCalls <=> NextCall.who = "service"
      BY <1>2 DEF ServiceCalls
<1> QED BY <1>1, <1>2, <1>3, <1>4

\* A sign-in that hears of its call is the same one.
LEMMA HeardSignIn ==
    ASSUME NEW t \in SignIns, NEW ok
    PROVE  SignInHeard(t, ok).attempt = t.attempt /\ SignInHeard(t, ok).method = t.method
           /\ SignInHeard(t, ok).device = t.device /\ SignInHeard(t, ok).cred = t.cred
BY DEF SignInHeard, SignIns

\* A persister and an erasure that hear of their call are the same ones.
LEMMA HeardPersister ==
    ASSUME NEW p \in Persisters, NEW ok
    PROVE  PersisterHeard(p, ok).session = p.session /\ PersisterHeard(p, ok).latest = p.latest
BY DEF PersisterHeard, Persisters

\* An erasure that hears of its call is the same one.
LEMMA HeardErasure ==
    \A e \in Erasures : [e EXCEPT !.stage = "cleared"].session = e.session
                        /\ [e EXCEPT !.stage = "cleared"].device = e.device
BY DEF Erasures

\* A call that was run keeps the phases.
LEMMA RunCallPhase ==
    ASSUME TypeInv, TypeInv', PhaseInv, RunCall
    PROVE  PhaseInv'
<1>1. UNCHANGED <<phase, attempt, session, held, inbox, after, syncs, checks>>
      BY DEF RunCall, lifecycle
<1>2. /\ NextCall \in Calls /\ Elements(lane) = Elements(lane') \cup {NextCall}
      /\ Count(lane', ServiceCalls) \in Nat
      /\ Count(lane, ServiceCalls) =
            Count(lane', ServiceCalls) + (IF NextCall.who = "service" THEN 1 ELSE 0)
      BY RanCall
<1>3. PICK ok \in BOOLEAN : Answer(NextCall, ok)
      BY DEF RunCall
<1>4. /\ signIns' = {IF NextCall.who = "signIn" /\ t.attempt = NextCall.n
                     THEN SignInHeard(t, ok) ELSE t : t \in signIns}
      /\ restores' = {IF NextCall.who = "restore" THEN RestoreHeard(r, ok) ELSE r : r \in restores}
      /\ persisters' = {IF NextCall.who = "persister" /\ p.session = NextCall.n
                        THEN PersisterHeard(p, ok) ELSE p : p \in persisters}
      /\ erasures' = {IF NextCall.who = "erasure" /\ e.session = NextCall.n
                      THEN [e EXCEPT !.stage = "cleared"] ELSE e : e \in erasures}
      /\ serving' = IF NextCall.who # "service" THEN serving ELSE IF ok THEN "undone" ELSE "stuck"
      BY <1>3 DEF Answer
<1>5. signIns \subseteq SignIns /\ persisters \subseteq Persisters /\ erasures \subseteq Erasures
      BY DEF TypeInv, TaskTypes, BackgroundTypes
<1>6. Waiting' = Waiting /\ \A kinds : Pending(kinds)' = Pending(kinds)
      BY <1>1, InboxStays
<1>7. NextCall.who = "service" => serving = "undoing"
      BY <1>2 DEF PhaseInv, CallsInv
<1>8. /\ Undoing' <=> Undoing
      /\ Steady' <=> Steady
      /\ serving' \in {"winding", "stopped"} => serving' = serving
      /\ serving = "winding" => serving' = serving
      /\ Quitting => serving' = serving
      BY <1>1, <1>4, <1>7 DEF Undoing, Steady, PhaseInv, ServingInv
<1>9. ServingInv'
      BY <1>1, <1>8 DEF PhaseInv, ServingInv, Quitting
<1>10. HeldInv'
  <2>1. WindsDown => WindsDown'
        BY <1>1, <1>8 DEF WindsDown
  <2>2. persisters' = {} \/ \E p \in persisters' : persisters' = {p} /\ p.session = session'
    <3>1. CASE persisters = {}
          BY <1>4, <3>1
    <3>2. CASE persisters # {}
      <4>1. PICK p \in persisters : persisters = {p} /\ p.session = session
            BY <3>2 DEF PhaseInv, HeldInv
      <4> DEFINE q == IF NextCall.who = "persister" /\ p.session = NextCall.n
                      THEN PersisterHeard(p, ok) ELSE p
      <4>2. q.session = p.session
            BY <1>5, HeardPersister
      <4>3. persisters' = {q}
            BY <1>4, <4>1
      <4> HIDE DEF q
      <4> QED BY <1>1, <4>1, <4>2, <4>3
    <3> QED BY <3>1, <3>2
  <2>3. persisters = {} => persisters' = {}
        BY <1>4
  <2> QED BY <1>1, <1>8, <2>1, <2>2, <2>3 DEF PhaseInv, HeldInv
<1>11. \A u \in signIns' : \E t \in signIns :
           /\ u.attempt = t.attempt /\ u.method = t.method
           /\ u = t \/ (NextCall.who = "signIn" /\ t.attempt = NextCall.n)
  <2> TAKE u \in signIns'
  <2>1. PICK t \in signIns : u = IF NextCall.who = "signIn" /\ t.attempt = NextCall.n
                                 THEN SignInHeard(t, ok) ELSE t
        BY <1>4
  <2> QED BY <1>5, <2>1, HeardSignIn
<1>12. CallsInv'
  <2>1. Count(lane', ServiceCalls) = IF serving' = "undoing" THEN 1 ELSE 0
        BY <1>2, <1>4 DEF PhaseInv, CallsInv
  <2>2. \A c \in Elements(lane') : c.who = "signIn" =>
            c.n <= attempt /\ \A t \in signIns : t.attempt = c.n => t.method # "check"
        BY <1>2 DEF PhaseInv, CallsInv
  <2> QED BY <1>1, <1>11, <2>1, <2>2 DEF CallsInv
<1>13. AuthInv'
  <2>1. \A t \in signIns : NextCall.who = "signIn" /\ t.attempt = NextCall.n => t.method # "check"
        BY <1>2 DEF PhaseInv, CallsInv
  <2>2. \A t \in signIns : /\ t.attempt = attempt /\ phase \in PhasesOf(t.method)
                           /\ t.method = "check" => t.stage = "asking"
        BY DEF PhaseInv, AuthInv
  <2>3. \A u \in signIns' : /\ u.attempt = attempt' /\ phase' \in PhasesOf(u.method)
                            /\ u.method = "check" => u.stage = "asking"
        BY <1>1, <1>11, <2>1, <2>2
  <2>4. \A m \in Waiting' : m.kind \in Verdicts =>
          /\ m.kind # "LoginUnresolved" => m.n = attempt'
          /\ phase' \in VerdictPhases(m.kind)
        BY <1>1, <1>6 DEF PhaseInv, AuthInv
  <2> QED BY <2>3, <2>4 DEF AuthInv
<1>14. OneAuth'
  <2>1. signIns' = {} <=> signIns = {}
        BY <1>4
  <2>2. signIns' = {} \/ \E t \in signIns' : signIns' = {t}
    <3>1. CASE signIns = {}
          BY <2>1, <3>1
    <3>2. CASE signIns # {}
      <4>1. PICK t \in signIns : signIns = {t}
            BY <3>2 DEF PhaseInv, OneAuth
      <4> DEFINE u == IF NextCall.who = "signIn" /\ t.attempt = NextCall.n
                      THEN SignInHeard(t, ok) ELSE t
      <4>2. signIns' = {u}
            BY <1>4, <4>1
      <4> HIDE DEF u
      <4> QED BY <4>2
    <3> QED BY <3>1, <3>2
  <2>3. Pending(Verdicts)' = Pending(Verdicts) /\ (Quitting' <=> Quitting)
        BY <1>1, <1>6 DEF Quitting
  <2> QED BY <1>1, <1>8, <2>1, <2>2, <2>3 DEF PhaseInv, OneAuth
<1>15. RestoreInv'
  <2>1. restores = {} => restores' = {}
        BY <1>4
  <2>2. (\E r \in restores : restores = {r}) => \E r \in restores' : restores' = {r}
    <3> SUFFICES ASSUME NEW r \in restores, restores = {r}
                 PROVE  \E q \in restores' : restores' = {q}
        OBVIOUS
    <3> DEFINE q == IF NextCall.who = "restore" THEN RestoreHeard(r, ok) ELSE r
    <3>1. restores' = {q}
          BY <1>4
    <3> HIDE DEF q
    <3> QED BY <3>1
  <2> QED BY <1>1, <1>6, <2>1, <2>2 DEF PhaseInv, RestoreInv
<1>16. ErasureInv'
  <2>1. erasures = {} => erasures' = {}
        BY <1>4
  <2>2. (\E e \in erasures : erasures = {e}) => \E e \in erasures' : erasures' = {e}
    <3> SUFFICES ASSUME NEW e \in erasures, erasures = {e}
                 PROVE  \E q \in erasures' : erasures' = {q}
        OBVIOUS
    <3> DEFINE q == IF NextCall.who = "erasure" /\ e.session = NextCall.n
                    THEN [e EXCEPT !.stage = "cleared"] ELSE e
    <3>1. erasures' = {q}
          BY <1>4
    <3> HIDE DEF q
    <3> QED BY <3>1
  <2>3. \A e \in erasures' : e.session = session'
    <3>1. \A e \in erasures : e \in Erasures /\ e.session = session
          BY <1>5 DEF PhaseInv, ErasureInv
    <3> QED BY <1>1, <1>4, <3>1, HeardErasure
  <2>4. WindsToErase' => WindsToErase
        BY <1>1, <1>8 DEF WindsToErase
  <2>5. Pending(Cleared)' = Pending(Cleared)
        BY <1>6
  <2> QED BY <1>1, <2>1, <2>2, <2>3, <2>4, <2>5 DEF PhaseInv, ErasureInv
<1> QED BY <1>9, <1>10, <1>12, <1>13, <1>14, <1>15, <1>16 DEF PhaseInv


\* A sign-in ends with a verdict on its attempt, or goes on with a call.
EndsWithVerdict(t, m) ==
    /\ Reports(t, m) /\ UNCHANGED lane
    /\ m \in Message /\ m.kind \in Verdicts /\ phase \in VerdictPhases(m.kind)
    /\ m.kind # "LoginUnresolved" => m.n = t.attempt
GoesOnWithCall(t, next, call) ==
    /\ Becomes(t, next) /\ Enqueue(call) /\ UNCHANGED inbox
    /\ next.attempt = t.attempt /\ next.method = t.method /\ t.method # "check"
    /\ call.who = "signIn" /\ call.n = t.attempt
\* Every step of a sign-in is of these two shapes.
LEMMA SignInShapes ==
    ASSUME TypeInv, PhaseInv, SignInStep
    PROVE  \E t \in signIns :
              \/ \E m \in Message : EndsWithVerdict(t, m)
              \/ \E next \in SignIns, call \in Calls : GoesOnWithCall(t, next, call)
<1>1. PICK t \in signIns :
          \/ SignInCancelled(t) \/ SignInRefused(t) \/ ServerChecked(t) \/ SignInGranted(t)
          \/ LoginEstablished(t) \/ LoginRollsBack(t) \/ LoginRolledBack(t) \/ LoginStuck(t)
          \/ SessionResumed(t)
      BY DEF SignInStep
<1>2. t \in SignIns /\ issued \in Nat
      BY DEF TypeInv, TaskTypes, StorageTypes
<1>3. /\ phase \in PhasesOf(t.method) /\ phase \in AuthPhases
      /\ t.method = "check" => t.stage = "asking"
      BY PhaseFacts DEF PhaseInv, AuthInv
<1>4. /\ t.attempt \in Nat /\ t.cred \in Credentials /\ t.was \in Credentials /\ t.device \in Nat
      /\ t.method \in {"check", "password", "browser", "rePassword", "reBrowser"}
      BY <1>2 DEF SignIns
<1>5. CASE SignInCancelled(t) \/ SignInRefused(t) \/ LoginRolledBack(t)
  <2>1. PICK kind \in {"AuthCancelled", "AuthRejected"} :
            Reports(t, Event(kind, t.attempt, 0)) /\ UNCHANGED lane
        BY <1>5 DEF SignInCancelled, SignInRefused, LoginRolledBack
  <2>2. /\ Event(kind, t.attempt, 0) \in Message /\ Event(kind, t.attempt, 0).kind = kind
        /\ Event(kind, t.attempt, 0).n = t.attempt
    <3>1. kind \in Commands \cup Events /\ 0 \in Nat
          BY DEF Events, Verdicts
    <3> QED BY <1>4, <3>1, MessageFacts
  <2>3. kind \in Verdicts /\ VerdictPhases(kind) = AuthPhases
        BY DEF Verdicts, VerdictPhases
  <2> QED BY <1>3, <2>1, <2>2, <2>3 DEF EndsWithVerdict
<1>6. CASE ServerChecked(t)
  <2>1. Reports(t, Event("ServerDiscovered", t.attempt, 0)) /\ UNCHANGED lane /\ t.method = "check"
        BY <1>6 DEF ServerChecked
  <2>2. /\ Event("ServerDiscovered", t.attempt, 0) \in Message
        /\ Event("ServerDiscovered", t.attempt, 0).kind = "ServerDiscovered"
        /\ Event("ServerDiscovered", t.attempt, 0).n = t.attempt
    <3>1. "ServerDiscovered" \in Commands \cup Events /\ 0 \in Nat
          BY DEF Events, Verdicts
    <3> QED BY <1>4, <3>1, MessageFacts
  <2>3. "ServerDiscovered" \in Verdicts /\ phase \in VerdictPhases("ServerDiscovered")
        BY <1>3, <2>1 DEF Verdicts, VerdictPhases, PhasesOf
  <2> QED BY <2>1, <2>2, <2>3 DEF EndsWithVerdict
<1>7. CASE LoginEstablished(t)
  <2>1. /\ Reports(t, Carrying("LoggedIn", t.attempt, t.cred, t.was)) /\ UNCHANGED lane
        /\ t.method \in LoginMethods
        BY <1>7 DEF LoginEstablished
  <2>2. /\ Carrying("LoggedIn", t.attempt, t.cred, t.was) \in Message
        /\ Carrying("LoggedIn", t.attempt, t.cred, t.was).kind = "LoggedIn"
        /\ Carrying("LoggedIn", t.attempt, t.cred, t.was).n = t.attempt
        BY <1>4, MessageFacts DEF Events, Verdicts
  <2>3. "LoggedIn" \in Verdicts /\ phase \in VerdictPhases("LoggedIn")
        BY <1>3, <2>1 DEF Verdicts, VerdictPhases, PhasesOf, LoginMethods
  <2> QED BY <2>1, <2>2, <2>3 DEF EndsWithVerdict
<1>8. CASE LoginStuck(t)
  <2>1. /\ Reports(t, Event("LoginUnresolved", 0, 0)) /\ UNCHANGED lane
        /\ t.method \in LoginMethods
        BY <1>8 DEF LoginStuck
  <2>2. /\ Event("LoginUnresolved", 0, 0) \in Message
        /\ Event("LoginUnresolved", 0, 0).kind = "LoginUnresolved"
        BY MessageFacts DEF Events, Verdicts
  <2>3. "LoginUnresolved" \in Verdicts /\ phase \in VerdictPhases("LoginUnresolved")
        BY <1>3, <2>1 DEF Verdicts, VerdictPhases, PhasesOf, LoginMethods
  <2> QED BY <2>1, <2>2, <2>3 DEF EndsWithVerdict
<1>9. CASE SessionResumed(t)
  <2>1. /\ Reports(t, Carrying("Resumed", t.attempt, t.cred, NoSession)) /\ UNCHANGED lane
        /\ t.method \notin LoginMethods /\ t.stage \in {"saved", "unsaved"}
        BY <1>9 DEF SessionResumed
  <2>2. /\ Carrying("Resumed", t.attempt, t.cred, NoSession) \in Message
        /\ Carrying("Resumed", t.attempt, t.cred, NoSession).kind = "Resumed"
        /\ Carrying("Resumed", t.attempt, t.cred, NoSession).n = t.attempt
        BY <1>4, MessageFacts, NoSessionTypes DEF Events, Verdicts
  <2>3. "Resumed" \in Verdicts /\ phase \in VerdictPhases("Resumed")
        BY <1>3, <1>4, <2>1 DEF Verdicts, VerdictPhases, PhasesOf, LoginMethods
  <2> QED BY <2>1, <2>2, <2>3 DEF EndsWithVerdict
<1>10. CASE SignInGranted(t)
  <2> DEFINE cred == [device |-> IF t.method \in LoginMethods THEN issued' ELSE t.device,
                      token |-> issued']
             next == [t EXCEPT !.stage = "saving", !.cred = cred]
  <2>1. /\ issued' = issued + 1 /\ UNCHANGED inbox /\ t.method # "check"
        /\ Becomes(t, next) /\ Enqueue(Write("signIn", t.attempt, cred))
        BY <1>10 DEF SignInGranted
  <2>2. cred \in Credentials
    <3>1. issued' \in Nat
      <4>1. issued' = issued + 1
            BY <1>10 DEF SignInGranted
      <4> QED BY <1>2, <4>1
    <3> QED BY <1>4, <3>1 DEF Credentials
  <2> HIDE DEF cred
  <2>3. next \in SignIns /\ next.attempt = t.attempt /\ next.method = t.method
        BY <1>2, <2>2, SignInRecords DEF SignIns
  <2>4. /\ Write("signIn", t.attempt, cred) \in Calls
        /\ Write("signIn", t.attempt, cred).who = "signIn" /\ Write("signIn", t.attempt, cred).n = t.attempt
        BY <1>4, <2>2, CallFacts
  <2> HIDE DEF next
  <2> QED BY <2>1, <2>3, <2>4 DEF GoesOnWithCall
<1>11. CASE LoginRollsBack(t)
  <2> DEFINE next == [t EXCEPT !.stage = "puttingBack"]
  <2>1. /\ UNCHANGED inbox /\ t.method \in LoginMethods
        /\ Becomes(t, next) /\ Enqueue(Write("signIn", t.attempt, t.was))
        BY <1>11 DEF LoginRollsBack
  <2>2. next \in SignIns /\ next.attempt = t.attempt /\ next.method = t.method
        BY <1>2, SignInRecords DEF SignIns
  <2>3. /\ Write("signIn", t.attempt, t.was) \in Calls
        /\ Write("signIn", t.attempt, t.was).who = "signIn" /\ Write("signIn", t.attempt, t.was).n = t.attempt
        BY <1>4, CallFacts
  <2>4. t.method # "check"
        BY <2>1 DEF LoginMethods
  <2> HIDE DEF next
  <2> QED BY <2>1, <2>2, <2>3, <2>4 DEF GoesOnWithCall
<1> QED BY <1>1, <1>5, <1>6, <1>7, <1>8, <1>9, <1>10, <1>11


\* What a task that is about something else leaves as it is.
OtherMessage(kinds) == UNCHANGED inbox \/ \E m \in Message : Send(m) /\ m.kind \notin kinds

\* A message of another kind leaves what is pending of a kind.
LEMMA OtherMessages ==
    ASSUME TypeInv, NEW kinds, OtherMessage(kinds)
    PROVE  /\ Pending(kinds)' = Pending(kinds)
           /\ \A m \in Waiting' : m \in Waiting \/ m.kind \notin kinds
<1>1. CASE UNCHANGED inbox
      BY <1>1, InboxStays
<1>2. CASE \E m \in Message : Send(m) /\ m.kind \notin kinds
      BY <1>2, SentFacts
<1> QED BY <1>1, <1>2 DEF OtherMessage

\* A step that is not about authentications keeps what is known of them.
LEMMA AuthKept ==
    ASSUME TypeInv, PhaseInv, UNCHANGED <<phase, attempt, serving, after, signIns>>,
           OtherMessage(Verdicts)
    PROVE  AuthInv' /\ OneAuth'
<1>1. /\ Pending(Verdicts)' = Pending(Verdicts)
      /\ \A m \in Waiting' : m \in Waiting \/ m.kind \notin Verdicts
      BY OtherMessages
<1>2. AuthInv'
      BY <1>1 DEF PhaseInv, AuthInv
<1>3. OneAuth'
      BY <1>1 DEF PhaseInv, OneAuth, Quitting, Undoing
<1> QED BY <1>2, <1>3

\* A step that is not about a restore keeps what is known of it.
LEMMA RestoreKept ==
    ASSUME TypeInv, PhaseInv, UNCHANGED <<phase, restores>>, OtherMessage(RestoreEvents)
    PROVE  RestoreInv'
<1>1. Pending(RestoreEvents)' = Pending(RestoreEvents)
      BY OtherMessages
<1> QED BY <1>1 DEF PhaseInv, RestoreInv

\* A step that is not about an erasure keeps what is known of it.
LEMMA ErasureKept ==
    ASSUME TypeInv, PhaseInv, UNCHANGED <<phase, session, serving, after, erasures>>,
           OtherMessage(Cleared)
    PROVE  ErasureInv'
<1>1. Pending(Cleared)' = Pending(Cleared)
      BY OtherMessages
<1> QED BY <1>1 DEF PhaseInv, ErasureInv, WindsToErase

\* A step that only ends tasks of the session, or changes its persister, keeps
\* what is known of the loop and of what it holds.
LEMMA HeldKept ==
    ASSUME PhaseInv, UNCHANGED <<phase, attempt, session, held, serving, after>>,
           syncs' \subseteq syncs, checks' \subseteq checks,
           \/ persisters' = persisters
           \/ persisters' = {}
           \/ \E p \in persisters : \E q : persisters' = (persisters \ {p}) \cup {q} /\ q.session = p.session
    PROVE  HeldInv' /\ ServingInv'
<1>1. ServingInv'
      BY DEF PhaseInv, ServingInv, Quitting, Undoing
<1>2. persisters' = {} \/ \E p \in persisters' : persisters' = {p} /\ p.session = session'
  <2>1. CASE \E p \in persisters : \E q : persisters' = (persisters \ {p}) \cup {q} /\ q.session = p.session
    <3>1. PICK p \in persisters : \E q : persisters' = (persisters \ {p}) \cup {q} /\ q.session = p.session
          BY <2>1
    <3>2. PICK q : persisters' = (persisters \ {p}) \cup {q} /\ q.session = p.session
          BY <3>1
    <3>3. persisters = {p} /\ p.session = session
          BY DEF PhaseInv, HeldInv
    <3>4. persisters' = {q}
          BY <3>2, <3>3
    <3> QED BY <3>2, <3>3, <3>4
  <2>2. CASE persisters' \in {persisters, {}}
        BY <2>2 DEF PhaseInv, HeldInv
  <2> QED BY <2>1, <2>2
<1>3. /\ persisters = {} => persisters' = {}
      /\ Steady' = Steady /\ WindsDown' = WindsDown
      BY DEF Steady, WindsDown
<1>4. HeldInv'
      BY <1>2, <1>3 DEF PhaseInv, HeldInv
<1> QED BY <1>1, <1>4

\* A call that is not of a sign-in or of the loop keeps what is known of those.
LEMMA CallsKept ==
    ASSUME TypeInv, PhaseInv, UNCHANGED <<serving, attempt>>, signIns' \subseteq signIns,
           \/ UNCHANGED lane
           \/ \E c \in Calls : Enqueue(c) /\ c.who \notin {"service", "signIn"}
    PROVE  CallsInv'
<1>1. CASE UNCHANGED lane
      BY <1>1 DEF PhaseInv, CallsInv
<1>2. CASE \E c \in Calls : Enqueue(c) /\ c.who \notin {"service", "signIn"}
  <2>1. PICK c \in Calls : Enqueue(c) /\ c.who \notin {"service", "signIn"}
        BY <1>2
  <2>2. Elements(lane') = Elements(lane) \cup {c} /\ Count(lane', ServiceCalls) = Count(lane, ServiceCalls)
        BY <2>1, QueuedCalls
  <2> QED BY <2>1, <2>2 DEF PhaseInv, CallsInv
<1> QED BY <1>1, <1>2

\* A sign-in's step keeps the phases.
LEMMA SignInStepPhase ==
    ASSUME TypeInv, TypeInv', PhaseInv, SignInStep
    PROVE  PhaseInv'
<1>1. PICK t \in signIns :
          \/ \E m \in Message : EndsWithVerdict(t, m)
          \/ \E next \in SignIns, call \in Calls : GoesOnWithCall(t, next, call)
      BY SignInShapes
<1>2. /\ UNCHANGED <<phase, attempt, session, held, serving, after, restores, erasures, syncs,
                     persisters, checks>>
  <2>1. SignInRest
        BY DEF SignInStep, SignInCancelled, SignInRefused, ServerChecked, SignInGranted,
                    LoginEstablished, LoginRollsBack, LoginRolledBack, LoginStuck, SessionResumed
  <2> QED BY <2>1 DEF SignInRest, lifecycle, background
<1>3. /\ signIns = {t} /\ t.attempt = attempt /\ phase \in PhasesOf(t.method)
      /\ Quitting \/ (phase \in AuthPhases /\ Pending(Verdicts) = 0 /\ ~Undoing)
      BY DEF PhaseInv, OneAuth, AuthInv
<1>4. HeldInv' /\ ServingInv'
      BY <1>2, HeldKept
<1>5. CASE \E m \in Message : EndsWithVerdict(t, m)
  <2>1. PICK m \in Message : EndsWithVerdict(t, m)
        BY <1>5
  <2>2. /\ signIns' = {} /\ Send(m) /\ UNCHANGED lane /\ m.kind \in Verdicts
        /\ phase \in VerdictPhases(m.kind) /\ (m.kind # "LoginUnresolved" => m.n = attempt)
        BY <1>3, <2>1 DEF EndsWithVerdict, Reports
  <2>3. /\ Waiting' = Waiting \cup {m}
        /\ Pending(Verdicts)' = Pending(Verdicts) + 1
        BY <2>2, SentFacts
  <2>4. AuthInv'
        BY <1>2, <2>2, <2>3 DEF PhaseInv, AuthInv
  <2>5. OneAuth'
        BY <1>2, <1>3, <2>2, <2>3 DEF OneAuth, Quitting, Undoing
  <2>6. CallsInv'
        BY <1>2, <2>2, CallsKept
  <2>7. OtherMessage(RestoreEvents) /\ OtherMessage(Cleared)
        BY <2>2, KindFacts DEF OtherMessage
  <2> QED BY <1>2, <1>4, <2>4, <2>5, <2>6, <2>7, RestoreKept, ErasureKept DEF PhaseInv
<1>6. CASE \E next \in SignIns, call \in Calls : GoesOnWithCall(t, next, call)
  <2>1. PICK next \in SignIns, call \in Calls : GoesOnWithCall(t, next, call)
        BY <1>6
  <2>2. /\ signIns' = {next} /\ Enqueue(call) /\ UNCHANGED inbox
        /\ next.attempt = attempt /\ next.method = t.method /\ next.method # "check"
        /\ call.who = "signIn" /\ call.n = attempt
        BY <1>3, <2>1 DEF GoesOnWithCall, Becomes
  <2>3. Waiting' = Waiting /\ \A kinds : Pending(kinds)' = Pending(kinds)
        BY <2>2, InboxStays
  <2>4. AuthInv'
        BY <1>2, <1>3, <2>2, <2>3 DEF PhaseInv, AuthInv
  <2>5. OneAuth'
        BY <1>2, <1>3, <2>2, <2>3 DEF OneAuth, Quitting, Undoing
  <2>6. CallsInv'
    <3>1. Elements(lane') = Elements(lane) \cup {call} /\ Count(lane', ServiceCalls) = Count(lane, ServiceCalls)
          BY <2>2, QueuedCalls
    <3>2. attempt \in Nat
          BY DEF TypeInv, LifecycleTypes
    <3> QED BY <1>2, <2>2, <3>1, <3>2 DEF PhaseInv, CallsInv
  <2>7. OtherMessage(RestoreEvents) /\ OtherMessage(Cleared)
        BY <2>2 DEF OtherMessage
  <2> QED BY <1>2, <1>4, <2>4, <2>5, <2>6, <2>7, RestoreKept, ErasureKept DEF PhaseInv
<1> QED BY <1>1, <1>5, <1>6

\* A restore's step keeps the phases.
LEMMA RestoreStepPhase ==
    ASSUME TypeInv, TypeInv', PhaseInv, RestoreStep
    PROVE  PhaseInv'
<1>1. PICK r \in restores :
          RestoreFails(r) \/ RestorePauses(r) \/ RestoreSucceeds(r) \/ RestoreForgets(r)
      BY DEF RestoreStep
<1>2. UNCHANGED <<phase, attempt, session, held, serving, after, signIns, erasures, syncs,
                     persisters, checks>>
  <2>1. RestoreRest
        BY <1>1 DEF RestoreFails, RestorePauses, RestoreSucceeds, RestoreForgets
  <2> QED BY <2>1 DEF RestoreRest, lifecycle, background
<1>3. r \in Restores /\ restores = {r} /\ Pending(RestoreEvents) = 0 /\ phase = "Restoring"
      BY DEF TypeInv, TaskTypes, PhaseInv, RestoreInv
<1>4. HeldInv' /\ ServingInv'
      BY <1>2, HeldKept
<1>5. CASE RestoreFails(r) \/ RestorePauses(r) \/ RestoreSucceeds(r)
  <2>1. PICK m \in {Event("RestoreFailed", 0, 0), Event("RestorePaused", 0, 0),
                    Carrying("Restored", 0, r.cred, NoSession)} : RestoreEnds(r, m)
        BY <1>5 DEF RestoreFails, RestorePauses, RestoreSucceeds
  <2>2. m \in Message /\ m.kind \in RestoreEvents
    <3>1. {"RestoreFailed", "RestorePaused", "Restored"} \subseteq Events
          BY DEF Events
    <3>2. r.cred \in Credentials
          BY <1>3 DEF Restores
    <3>3. {"RestoreFailed", "RestorePaused", "Restored"} \subseteq RestoreEvents
          BY DEF RestoreEvents
    <3> QED BY <3>1, <3>2, <3>3, MessageFacts, NoSessionTypes
  <2>3. restores' = {} /\ Send(m) /\ UNCHANGED lane
        BY <1>3, <2>1 DEF RestoreEnds
  <2>4. Pending(RestoreEvents)' = 1
        BY <1>3, <2>2, <2>3, SentFacts
  <2>5. RestoreInv'
        BY <1>2, <1>3, <2>3, <2>4 DEF RestoreInv
  <2>6. OtherMessage(Verdicts) /\ OtherMessage(Cleared)
        BY <2>2, <2>3, KindFacts DEF OtherMessage
  <2>7. CallsInv'
        BY <1>2, <2>3, CallsKept
  <2> QED BY <1>2, <1>4, <2>5, <2>6, <2>7, AuthKept, ErasureKept DEF PhaseInv
<1>6. CASE RestoreForgets(r)
  <2>1. /\ restores' = {[r EXCEPT !.stage = "forgetting"]} /\ UNCHANGED inbox
        /\ Enqueue(Write("restore", 0, NoSession))
        BY <1>3, <1>6 DEF RestoreForgets
  <2>2. RestoreInv'
    <3>1. Pending(RestoreEvents)' = Pending(RestoreEvents)
          BY <2>1, InboxStays
    <3> QED BY <1>2, <1>3, <2>1, <3>1 DEF RestoreInv
  <2>3. CallsInv'
    <3>1. Write("restore", 0, NoSession) \in Calls /\ Write("restore", 0, NoSession).who = "restore"
          BY CallFacts, NoSessionTypes
    <3> QED BY <1>2, <2>1, <3>1, CallsKept
  <2>4. OtherMessage(Verdicts) /\ OtherMessage(Cleared)
        BY <2>1 DEF OtherMessage
  <2> QED BY <1>2, <1>4, <2>2, <2>3, <2>4, AuthKept, ErasureKept DEF PhaseInv
<1> QED BY <1>1, <1>5, <1>6


\* What the step of a persister does to the persisters and to the lane.
LEMMA PersisterShapes ==
    ASSUME TypeInv, Refresh \/ PersisterStep
    PROVE  /\ \/ persisters' = persisters
              \/ persisters' = {}
              \/ \E p \in persisters : \E q :
                    persisters' = (persisters \ {p}) \cup {q} /\ q.session = p.session
              \/ \E p \in persisters : persisters' = persisters \ {p}
           /\ \/ UNCHANGED lane
              \/ \E c \in Calls : Enqueue(c) /\ c.who = "persister"
           /\ UNCHANGED <<inbox, syncs, checks>>
<1>1. persisters \subseteq Persisters
      BY DEF TypeInv, BackgroundTypes
<1>2. CASE Refresh
  <2>1. PICK p \in persisters : TokensRefreshed(p)
        BY <1>2 DEF Refresh
  <2>2. [p EXCEPT !.latest.token = issued', !.fresh = TRUE].session = p.session
        BY <1>1 DEF Persisters
  <2> QED BY <2>1, <2>2 DEF TokensRefreshed, PersisterBecomes
<1>3. CASE PersisterStep
  <2>1. PICK p \in persisters :
            \/ PersisterStores(p) \/ PersisterRetries(p)
            \/ ListenerEnds(p) \/ PersisterFlushes(p) \/ PersisterEnds(p)
        BY <1>3 DEF PersisterStep
  <2>2. /\ p.session \in Nat /\ p.latest \in Credentials /\ p.dirty \in Credentials
        /\ p \in Persisters
        BY <1>1, PersisterRecords
  <2>3. /\ [p EXCEPT !.fresh = FALSE, !.dirty = p.latest, !.stage = "saving"].session = p.session
        /\ [p EXCEPT !.stage = "saving"].session = p.session
        /\ [p EXCEPT !.stage = "flushing"].session = p.session
        /\ [p EXCEPT !.listening = FALSE].session = p.session
        BY <2>2 DEF Persisters
  <2>4. \A cred \in Credentials :
            Write("persister", p.session, cred) \in Calls /\ Write("persister", p.session, cred).who = "persister"
        BY <2>2, CallFacts
  <2>5. CASE PersisterStores(p)
        BY <2>2, <2>3, <2>4, <2>5 DEF PersisterStores, PersisterBecomes
  <2>6. CASE PersisterRetries(p)
        BY <2>2, <2>3, <2>4, <2>6 DEF PersisterRetries, PersisterBecomes
  <2>7. CASE ListenerEnds(p)
        BY <2>2, <2>3, <2>7 DEF ListenerEnds, PersisterBecomes
  <2>8. CASE PersisterFlushes(p)
        BY <2>2, <2>3, <2>4, <2>8 DEF PersisterFlushes, PersisterBecomes
  <2>9. CASE PersisterEnds(p)
        BY <2>9 DEF PersisterEnds
  <2> QED BY <2>1, <2>5, <2>6, <2>7, <2>8, <2>9
<1> QED BY <1>2, <1>3

\* The steps of a session's tasks keep the phases.
LEMMA BackgroundStepPhase ==
    ASSUME TypeInv, TypeInv', PhaseInv, SyncStep \/ Refresh \/ PersisterStep \/ LogoutRisksRead
    PROVE  PhaseInv'
<1>1. BackgroundRest
      BY DEF SyncStep, SyncEnds, SessionLost, Refresh, TokensRefreshed, PersisterStep, PersisterStores,
             PersisterRetries, ListenerEnds, PersisterFlushes, PersisterEnds, LogoutRisksRead
<1>2. UNCHANGED <<phase, attempt, session, held, serving, after, signIns, restores, erasures>>
      BY <1>1 DEF BackgroundRest, lifecycle, operations
<1>3. /\ syncs' \subseteq syncs /\ checks' \subseteq checks
      /\ \/ persisters' = persisters
         \/ persisters' = {}
         \/ \E p \in persisters : \E q :
               persisters' = (persisters \ {p}) \cup {q} /\ q.session = p.session
      /\ \/ UNCHANGED lane
         \/ \E c \in Calls : Enqueue(c) /\ c.who = "persister"
  <2>1. CASE Refresh \/ PersisterStep
    <3>1. (\E p \in persisters : persisters' = persisters \ {p}) => persisters' = {}
          BY DEF PhaseInv, HeldInv
    <3> QED BY <2>1, <3>1, PersisterShapes
  <2>2. CASE SyncStep \/ LogoutRisksRead
        BY <2>2 DEF SyncStep, SyncEnds, SessionLost, LogoutRisksRead
  <2> QED BY <2>1, <2>2
<1>4. HeldInv' /\ ServingInv'
      BY <1>2, <1>3, HeldKept
<1>5. CallsInv'
      BY <1>2, <1>3, CallsKept
<1>6. \/ UNCHANGED inbox
      \/ \E m \in Message : Send(m) /\ m.kind \in Losses \cup {"LogoutSafe", "LogoutRisky"}
  <2>1. CASE Refresh \/ PersisterStep
        BY <2>1, PersisterShapes
  <2>2. CASE SyncStep
    <3>1. PICK s \in syncs : SyncEnds(s) \/ \E loss \in Losses : SessionLost(s, loss)
          BY <2>2 DEF SyncStep
    <3>2. s \in Nat
          BY DEF TypeInv, BackgroundTypes, LifecycleTypes
    <3>3. CASE SyncEnds(s)
          BY <3>3 DEF SyncEnds
    <3>4. CASE \E loss \in Losses : SessionLost(s, loss)
      <4>1. PICK loss \in Losses : Send(Event(loss, 0, s))
            BY <3>4 DEF SessionLost
      <4>2. loss \in Commands \cup Events
            BY DEF Events
      <4> QED BY <3>2, <4>1, <4>2, MessageFacts
    <3> QED BY <3>1, <3>3, <3>4
  <2>3. CASE LogoutRisksRead
    <3>1. PICK c \in checks, kind \in {"LogoutSafe", "LogoutRisky"} : Send(Event(kind, c.request, c.session))
          BY <2>3 DEF LogoutRisksRead
    <3>2. c.request \in Nat /\ c.session \in Nat /\ kind \in Commands \cup Events
          BY DEF TypeInv, AccountTypes, Events
    <3> QED BY <3>1, <3>2, MessageFacts
  <2> QED BY <2>1, <2>2, <2>3
<1>7. OtherMessage(Verdicts) /\ OtherMessage(RestoreEvents) /\ OtherMessage(Cleared)
      BY <1>6, KindFacts DEF OtherMessage
<1> QED BY <1>2, <1>4, <1>5, <1>7, AuthKept, RestoreKept, ErasureKept DEF PhaseInv

\* The steps of an erasure keep the phases.
LEMMA ErasureStepPhase ==
    ASSUME TypeInv, TypeInv', PhaseInv, ErasureStep
    PROVE  PhaseInv'
<1>1. PICK e \in erasures : ErasureBegins(e) \/ ErasureEnds(e)
      BY DEF ErasureStep
<1>2. UNCHANGED <<phase, attempt, session, held, serving, after, signIns, restores, syncs,
                     persisters, checks>>
  <2>1. ErasureRest
        BY <1>1 DEF ErasureBegins, ErasureEnds
  <2> QED BY <2>1 DEF ErasureRest, lifecycle, background
<1>3. /\ e \in Erasures /\ erasures = {e} /\ Pending(Cleared) = 0 /\ ~WindsToErase
      /\ phase \in EndPhases /\ e.session = session /\ e.session \in Nat
  <2>1. e \in Erasures
        BY DEF TypeInv, TaskTypes
  <2> QED BY <2>1 DEF PhaseInv, ErasureInv, Erasures
<1>4. HeldInv' /\ ServingInv'
      BY <1>2, HeldKept
<1>5. \A kind \in {"ErasingLocalState", "LocalStateCleared"} :
          Event(kind, e.session, 0) \in Message /\ Event(kind, e.session, 0).kind = kind
  <2>1. {"ErasingLocalState", "LocalStateCleared"} \subseteq Commands \cup Events
        BY DEF Events
  <2> QED BY <1>3, <2>1, MessageFacts
<1>6. CASE ErasureBegins(e)
  <2>1. /\ erasures' = {[e EXCEPT !.stage = "clearing"]}
        /\ Send(Event("ErasingLocalState", e.session, 0))
        /\ Enqueue(Write("erasure", e.session, NoSession))
        BY <1>3, <1>6 DEF ErasureBegins
  <2>2. OtherMessage(Verdicts) /\ OtherMessage(RestoreEvents) /\ OtherMessage(Cleared)
        BY <1>5, <2>1, KindFacts DEF OtherMessage
  <2>3. CallsInv'
    <3>1. Write("erasure", e.session, NoSession) \in Calls /\ Write("erasure", e.session, NoSession).who = "erasure"
          BY <1>3, CallFacts, NoSessionTypes
    <3> QED BY <1>2, <2>1, <3>1, CallsKept
  <2>4. ErasureInv'
    <3>1. Pending(Cleared)' = Pending(Cleared) /\ ~(WindsToErase')
          BY <1>2, <1>3, <2>2, OtherMessages DEF WindsToErase
    <3>2. [e EXCEPT !.stage = "clearing"].session = e.session
          BY <1>3 DEF Erasures
    <3> QED BY <1>2, <1>3, <2>1, <3>1, <3>2 DEF ErasureInv
  <2> QED BY <1>2, <1>4, <2>2, <2>3, <2>4, AuthKept, RestoreKept DEF PhaseInv
<1>7. CASE ErasureEnds(e)
  <2>1. /\ erasures' = {} /\ UNCHANGED lane
        /\ Send(Event("LocalStateCleared", e.session, 0))
        BY <1>3, <1>7 DEF ErasureEnds
  <2>2. "LocalStateCleared" \in Cleared
        BY DEF Cleared
  <2>3. OtherMessage(Verdicts) /\ OtherMessage(RestoreEvents)
        BY <1>5, <2>1, <2>2, KindFacts DEF OtherMessage
  <2>4. CallsInv'
        BY <1>2, <2>1, CallsKept
  <2>5. ErasureInv'
    <3>1. Pending(Cleared)' = 1 /\ ~(WindsToErase')
          BY <1>2, <1>3, <1>5, <2>1, <2>2, SentFacts DEF WindsToErase
    <3> QED BY <1>2, <1>3, <2>1, <3>1 DEF ErasureInv
  <2> QED BY <1>2, <1>4, <2>3, <2>4, <2>5, AuthKept, RestoreKept DEF PhaseInv
<1> QED BY <1>1, <1>6, <1>7

\* A command of the user keeps the phases.
LEMMA UserPhase ==
    ASSUME TypeInv, PhaseInv, UserSends
    PROVE  PhaseInv'
<1>1. UNCHANGED <<phase, attempt, session, held, serving, after, signIns, restores, erasures, syncs,
                     persisters, checks, lane>>
      BY DEF UserSends, lifecycle, operations, background, storage
<1>2. PICK command \in Commands : Send(Event(command, 0, 0))
      BY DEF UserSends
<1>3. Event(command, 0, 0) \in Message /\ Event(command, 0, 0).kind = command
      BY MessageFacts
<1>4. OtherMessage(Verdicts) /\ OtherMessage(RestoreEvents) /\ OtherMessage(Cleared)
      BY <1>2, <1>3, KindFacts DEF OtherMessage
<1> QED BY <1>1, <1>4, HeldKept, CallsKept, AuthKept, RestoreKept, ErasureKept DEF PhaseInv

\* Every step keeps the phases.
LEMMA StepPhase == TypeInv /\ TypeInv' /\ PhaseInv /\ [Next]_vars => PhaseInv'
<1> SUFFICES ASSUME TypeInv, TypeInv', PhaseInv, [Next]_vars PROVE PhaseInv'
    OBVIOUS
<1>1. CASE Next
      BY <1>1, CommandPhase, EventPhase, ResumePhase, AbortPhase, SignInStepPhase, RestoreStepPhase,
         BackgroundStepPhase, ErasureStepPhase, RunCallPhase, UserPhase DEF Next
<1>2. CASE UNCHANGED vars
  <2>1. UNCHANGED <<phase, attempt, session, held, serving, after, signIns, restores, erasures, syncs,
                     persisters, checks, lane, inbox>>
        BY <1>2 DEF vars, lifecycle, loop, operations, background, storage
  <2>2. OtherMessage(Verdicts) /\ OtherMessage(RestoreEvents) /\ OtherMessage(Cleared)
        BY <2>1 DEF OtherMessage
  <2> QED BY <2>1, <2>2, HeldKept, CallsKept, AuthKept, RestoreKept, ErasureKept DEF PhaseInv
<1> QED BY <1>1, <1>2

\* The phases hold always.
LEMMA PhasesAlways == Spec => [](TypeInv /\ PhaseInv)
<1>1. Spec => []TypeInv
      BY InitTypeInv, StepTypes, PTL DEF Spec
<1>2. TypeInv /\ TypeInv' /\ PhaseInv /\ [Next]_vars => PhaseInv'
      BY StepPhase
<1> QED BY <1>1, <1>2, InitPhaseInv, PTL DEF Spec

\* What the loop holds is what its phase says, between two inputs.
LEMMA HeldIsOfThePhase == PhaseInv => HeldAsThePhaseSays
<1> SUFFICES ASSUME PhaseInv, serving = "next"
             PROVE  /\ held.kind = "Running" <=> phase = "Syncing"
                    /\ held.kind = "Suspended" <=>
                        phase \in {"SoftLoggedOut", "Reauthenticating", "CancellingReauth"}
                    /\ phase # "Syncing" => syncs = {} /\ persisters = {} /\ checks = {}
                    /\ syncs \cup {p.session : p \in persisters} \subseteq {session}
    BY DEF HeldAsThePhaseSays
<1>1. HeldInv /\ Steady /\ ~WindsDown
      BY DEF PhaseInv, Steady, WindsDown
<1>2. SoftPhases = {"SoftLoggedOut", "Reauthenticating", "CancellingReauth"}
      BY DEF SoftPhases, ReAuth
<1>3. \A p \in persisters : p.session = session
      BY <1>1 DEF HeldInv
<1> QED BY <1>1, <1>2, <1>3 DEF HeldInv

\* HeldAsThePhaseSays always: no sequence of commands, losses, logouts and
\* failures leaves a session, or a task of one, behind a phase that has none.
THEOREM HeldIsAsThePhaseSays == Spec => []HeldAsThePhaseSays
BY PhasesAlways, HeldIsOfThePhase, PTL

\* At most one sign-in is under way, and it is of the attempt at hand.
LEMMA OneAuthIsOneSignIn == TypeInv /\ PhaseInv => OneSignInAtATime
<1> SUFFICES ASSUME TypeInv, PhaseInv PROVE OneSignInAtATime
    OBVIOUS
<1>1. inbox \in Seq(Message) /\ signIns \subseteq SignIns
      BY DEF TypeInv, LoopTypes, TaskTypes
<1>2. \A i \in DOMAIN inbox : inbox[i] \in Message /\ inbox[i] \in Waiting
      BY <1>1, ElementOfSeq, LenProperties DEF Waiting, Elements
<1>3. Cardinality(PendingVerdicts) = Pending(Verdicts)
  <2>1. PendingVerdicts = {i \in DOMAIN inbox : inbox[i] \in OfKind(Verdicts)}
        BY <1>2 DEF PendingVerdicts, OfKind
  <2> QED BY <2>1 DEF Pending, Count
<1>4. Cardinality(signIns) = IF signIns = {} THEN 0 ELSE 1
      BY FS_EmptySet, FS_Singleton DEF PhaseInv, OneAuth
<1>5. ~Quitting => UnderWay = IF phase \in AuthPhases THEN 1 ELSE 0
  <2> SUFFICES ASSUME ~Quitting PROVE UnderWay = IF phase \in AuthPhases THEN 1 ELSE 0
      OBVIOUS
  <2>1. \/ phase \notin AuthPhases /\ signIns = {} /\ Pending(Verdicts) = 0 /\ ~Undoing
        \/ phase \in AuthPhases /\ signIns # {} /\ Pending(Verdicts) = 0 /\ ~Undoing
        \/ phase \in AuthPhases /\ signIns = {} /\ Pending(Verdicts) = 1 /\ ~Undoing
        \/ phase \in AuthPhases /\ signIns = {} /\ Pending(Verdicts) = 0 /\ Undoing
        BY DEF PhaseInv, OneAuth
  <2> HIDE DEF Undoing, PendingVerdicts, Pending
  <2> QED BY <1>3, <1>4, <2>1 DEF UnderWay
<1>6. AttemptsUnderWay \subseteq {attempt}
  <2>1. \A t \in signIns : t.attempt = attempt
        BY DEF PhaseInv, AuthInv
  <2>2. \A i \in PendingVerdicts : inbox[i].kind # "LoginUnresolved" => inbox[i].n = attempt
        BY <1>2 DEF PendingVerdicts, PhaseInv, AuthInv
  <2>3. Undoing => after.n = attempt
        BY DEF PhaseInv, ServingInv
  <2> QED BY <2>1, <2>2, <2>3 DEF AttemptsUnderWay
<1> QED BY <1>5, <1>6 DEF OneSignInAtATime

\* OneSignInAtATime always: whatever the user cancels, retries and quits, and
\* whatever fails, the loop waits for exactly one answer while it authenticates,
\* and that answer is of the attempt at hand.
THEOREM SignInsAreOneByOne == Spec => []OneSignInAtATime
BY PhasesAlways, OneAuthIsOneSignIn, PTL

-----------------------------------------------------------------------------
(* The losses that are reported, and the dialogs of a logout                  *)

LossInv ==
    /\ Pending(Losses) \in {0, 1}
    /\ syncs = {} \/ Pending(Losses) = 0
    /\ phase \notin {"Syncing"} \cup EndPhases => Pending(Losses) = 0 /\ syncs = {}
    /\ NoneBehind(inbox, OfKind(Cleared), OfKind(Losses))
    /\ \A m \in Waiting : m.kind \in Losses => m.s = session

Checked == {"LogoutSafe", "LogoutRisky"}
AskedInv ==
    /\ phase \in {"Authenticating", "Reauthenticating"} => attempt \notin dismissed
    /\ \A m \in Waiting : m.kind = "Restored" => m.n = 0
    /\ logoutWarning \in {0, session}
    /\ Steady /\ phase # "Syncing" => logoutCheck = 0 /\ logoutWarning = 0
    /\ \A c \in checks : c.request \in 1..request /\ c.session = session
    /\ \A m \in Waiting : m.kind \in Checked =>
          m.n \in 1..request /\ (m.n = logoutCheck => m.s = session)

\* Both hold at first.
LEMMA InitLossAsked == Init => LossInv /\ AskedInv
<1> SUFFICES ASSUME Init PROVE LossInv /\ AskedInv
    OBVIOUS
<1>1. /\ inbox = <<>> /\ phase \in {"Starting", "Blocked"} /\ syncs = {} /\ checks = {}
      /\ logoutCheck = 0 /\ logoutWarning = 0
      BY DEF Init
<1>2. /\ Waiting = {} /\ \A kinds : Pending(kinds) = 0
      /\ \A first, last : NoneBehind(inbox, first, last)
      BY <1>1, EmptyQueue DEF Waiting, Pending
<1>3. LossInv
      BY <1>1, <1>2 DEF LossInv
<1>4. AskedInv
      BY <1>1, <1>2 DEF AskedInv
<1> QED BY <1>3, <1>4

\* What a task or the user sends: a loss is of a sync that ends with it, an
\* answer about a logout is to a check that ends with it, and a restore is of no
\* attempt.
Said(m) ==
    /\ m.kind \in Losses => m.s \in syncs /\ syncs' = syncs \ {m.s}
    /\ m.kind \in Checked => \E c \in checks : m.n = c.request /\ m.s = c.session
    /\ m.kind = "Restored" => m.n = 0
    /\ m.kind \in Cleared => phase \in EndPhases /\ UNCHANGED syncs
\* So it is with every step of a task or of the user.
LEMMA TaskSays ==
    ASSUME TypeInv, PhaseInv, TaskStep \/ UserSends
    PROVE  /\ syncs' \subseteq syncs /\ checks' \subseteq checks
           /\ UNCHANGED inbox \/ \E m \in Message : Send(m) /\ Said(m)
<1> USE DEF background
<1>1. CASE SignInStep
  <2>1. UNCHANGED <<syncs, checks>>
    <3>1. SignInRest
        BY <1>1 DEF SignInStep, SignInCancelled, SignInRefused, ServerChecked, SignInGranted,
                    LoginEstablished, LoginRollsBack, LoginRolledBack, LoginStuck, SessionResumed
    <3> QED BY <3>1 DEF SignInRest
  <2>2. UNCHANGED inbox \/ \E m \in Message : Send(m) /\ m.kind \in Verdicts
        BY <1>1, SignInShapes DEF EndsWithVerdict, GoesOnWithCall, Reports
  <2>3. \A kind \in Verdicts : kind \notin Losses \cup Checked \cup Cleared \cup {"Restored"}
        BY DEF Verdicts, Losses, Checked, Cleared
  <2> QED BY <2>1, <2>2, <2>3 DEF Said
<1>2. CASE RestoreStep
  <2>1. PICK r \in restores :
            RestoreFails(r) \/ RestorePauses(r) \/ RestoreSucceeds(r) \/ RestoreForgets(r)
        BY <1>2 DEF RestoreStep
  <2>2. UNCHANGED <<syncs, checks>>
    <3>1. RestoreRest
          BY <2>1 DEF RestoreFails, RestorePauses, RestoreSucceeds, RestoreForgets
    <3> QED BY <3>1 DEF RestoreRest
  <2>3. \/ UNCHANGED inbox
        \/ \E m \in {Event("RestoreFailed", 0, 0), Event("RestorePaused", 0, 0),
                     Carrying("Restored", 0, r.cred, NoSession)} : Send(m)
        BY <2>1 DEF RestoreFails, RestorePauses, RestoreSucceeds, RestoreForgets, RestoreEnds
  <2>4. \A m \in {Event("RestoreFailed", 0, 0), Event("RestorePaused", 0, 0),
                  Carrying("Restored", 0, r.cred, NoSession)} :
            m \in Message /\ m.kind \in RestoreEvents /\ m.n = 0
    <3>1. {"RestoreFailed", "RestorePaused", "Restored"} \subseteq Events
          BY DEF Events
    <3>2. r.cred \in Credentials
          BY DEF Restores, TypeInv, TaskTypes
    <3>3. {"RestoreFailed", "RestorePaused", "Restored"} \subseteq RestoreEvents
          BY DEF RestoreEvents
    <3> QED BY <3>1, <3>2, <3>3, MessageFacts, NoSessionTypes
  <2>5. \A kind \in RestoreEvents : kind \notin Losses \cup Checked \cup Cleared
        BY DEF RestoreEvents, Losses, Checked, Cleared
  <2> QED BY <2>2, <2>3, <2>4, <2>5 DEF Said
<1>3. CASE SyncStep
  <2>1. PICK s \in syncs : SyncEnds(s) \/ \E loss \in Losses : SessionLost(s, loss)
        BY <1>3 DEF SyncStep
  <2>2. s \in Nat
        BY DEF TypeInv, BackgroundTypes, LifecycleTypes
  <2>3. CASE SyncEnds(s)
        BY <2>3 DEF SyncEnds
  <2>4. CASE \E loss \in Losses : SessionLost(s, loss)
    <3>1. PICK loss \in Losses : SessionLost(s, loss)
          BY <2>4
    <3>2. loss \in Commands \cup Events /\ loss \notin Checked \cup Cleared /\ loss # "Restored"
          BY DEF Events, Losses, Checked, Cleared
    <3>3. /\ Event(loss, 0, s) \in Message /\ Event(loss, 0, s).kind = loss
          /\ Event(loss, 0, s).s = s
          BY <2>2, <3>2, MessageFacts
    <3>4. /\ syncs' = syncs \ {s} /\ Send(Event(loss, 0, s)) /\ checks' = checks
          BY <3>1 DEF SessionLost
    <3>5. Said(Event(loss, 0, s))
          BY <3>2, <3>3, <3>4 DEF Said
    <3> QED BY <3>3, <3>4, <3>5
  <2> QED BY <2>1, <2>3, <2>4
<1>4. CASE Refresh \/ PersisterStep
      BY <1>4, PersisterShapes
<1>5. CASE LogoutRisksRead
  <2>1. PICK c \in checks, kind \in Checked : Send(Event(kind, c.request, c.session)) /\ checks' = checks \ {c}
        BY <1>5 DEF LogoutRisksRead, Checked
  <2>2. UNCHANGED syncs
        BY <1>5 DEF LogoutRisksRead
  <2>3. c.request \in Nat /\ c.session \in Nat
        BY DEF TypeInv, AccountTypes
  <2>4. kind \in Commands \cup Events /\ kind \notin Losses \cup Cleared /\ kind # "Restored"
        BY DEF Events, Losses, Checked, Cleared
  <2>5. LET m == Event(kind, c.request, c.session)
        IN  m \in Message /\ m.kind = kind /\ m.n = c.request /\ m.s = c.session
        BY <2>3, <2>4, MessageFacts
  <2>6. Said(Event(kind, c.request, c.session))
        BY <2>4, <2>5 DEF Said
  <2> QED BY <2>1, <2>2, <2>5, <2>6
<1>6. CASE ErasureStep
  <2>1. PICK e \in erasures : ErasureBegins(e) \/ ErasureEnds(e)
        BY <1>6 DEF ErasureStep
  <2>2. UNCHANGED <<syncs, checks>>
    <3>1. ErasureRest
          BY <2>1 DEF ErasureBegins, ErasureEnds
    <3> QED BY <3>1 DEF ErasureRest
  <2>3. \E kind \in {"ErasingLocalState", "LocalStateCleared"} : Send(Event(kind, e.session, 0))
        BY <2>1 DEF ErasureBegins, ErasureEnds
  <2>4. e.session \in Nat /\ phase \in EndPhases
    <3>1. e \in Erasures
          BY DEF TypeInv, TaskTypes
    <3> QED BY <3>1 DEF Erasures, PhaseInv, ErasureInv
  <2>5. {"ErasingLocalState", "LocalStateCleared"} \subseteq Commands \cup Events
        BY DEF Events
  <2>6. \A kind \in {"ErasingLocalState", "LocalStateCleared"} :
            kind \notin Losses \cup Checked \cup {"Restored"}
        BY DEF Losses, Checked
  <2> QED BY <2>2, <2>3, <2>4, <2>5, <2>6, MessageFacts DEF Said
<1>7. CASE UserSends
  <2>1. UNCHANGED <<syncs, checks>>
        BY <1>7 DEF UserSends
  <2>2. PICK command \in Commands : Send(Event(command, 0, 0))
        BY <1>7 DEF UserSends
  <2>3. command \notin Losses \cup Checked \cup Cleared \cup {"Restored"}
        BY DEF Commands, Losses, Checked, Cleared
  <2>4. Event(command, 0, 0) \in Message /\ Event(command, 0, 0).kind = command
        BY MessageFacts
  <2> QED BY <2>1, <2>2, <2>3, <2>4 DEF Said
<1> QED BY <1>1, <1>2, <1>3, <1>4, <1>5, <1>6, <1>7 DEF TaskStep

\* What a handler does to the phase, the session and the dialogs: it leaves the
\* dialogs alone and goes on, or lets the session go; it starts a session; it
\* asks what a logout loses; or it decides on a logout.
Moves(kind) ==
    /\ UNCHANGED <<session, syncs, checks, logoutCheck, logoutWarning, request>>
    /\ \/ UNCHANGED <<phase, attempt, dismissed>>
       \/ /\ phase \notin {"Syncing"} \cup EndPhases /\ phase' \notin {"Syncing"} \cup EndPhases
          /\ phase' \in {"Authenticating", "Reauthenticating"} =>
                attempt' = attempt + 1 /\ UNCHANGED dismissed
       \/ /\ phase \in EndPhases /\ phase' \in EndPhases \cup {"LoggedOut"}
          /\ phase' = "LoggedOut" => kind \in Cleared
          /\ kind \notin Losses
          /\ UNCHANGED <<attempt, dismissed>>
       \/ /\ phase = "Syncing" /\ phase' = "SoftLoggedOut" /\ serving' = "winding"
          /\ kind \in Losses /\ UNCHANGED <<attempt, dismissed>>
       \/ /\ phase \in {"Syncing", "SoftLoggedOut"} /\ phase' = "LoggingOut"
          /\ serving' = "winding" /\ UNCHANGED <<attempt, dismissed>>
          /\ phase = "Syncing" => kind = "Expired"
Activates(kind) ==
    /\ phase' = "Syncing" /\ session' = session + 1 /\ syncs' = {session'}
    /\ UNCHANGED <<checks, logoutCheck, logoutWarning, request, attempt, dismissed>>
    /\ \/ kind = "Restored" /\ phase = "Restoring"
       \/ /\ kind \in {"LoggedIn", "Resumed"} /\ Input.n = attempt
          /\ phase \in {"Authenticating", "Reauthenticating"}
Asks ==
    /\ phase = "Syncing"
    /\ UNCHANGED <<phase, attempt, dismissed, session, syncs, logoutWarning>>
    /\ request' = request + 1 /\ logoutCheck' = request'
    /\ checks' = checks \cup {[request |-> request', session |-> session]}
Decides(kind) ==
    /\ UNCHANGED <<session, syncs, checks, request, attempt, dismissed>>
    /\ logoutCheck' \in {0, logoutCheck} /\ logoutWarning' \in {0, logoutWarning, session}
    /\ phase = "Syncing"
    /\ \/ UNCHANGED phase
       \/ /\ phase' = "LoggingOut" /\ serving' = "winding"
          /\ \/ kind = "LogoutSafe" /\ Input.s = session
             \/ kind = "ConfirmLogout" /\ logoutWarning = session
Handles(kind) ==
    Take(kind) /\ (Moves(kind) \/ Activates(kind) \/ Asks \/ Decides(kind))

\* The commands and the events are of these shapes.
LEMMA CommandShapes ==
    ASSUME TypeInv, PhaseInv, AskedInv, HandleCommand
    PROVE  \E kind \in Commands : Handles(kind)
<1> USE DEF account, Command, Handles
<1>1. CASE RefuseCommand
  <2>1. PICK kind \in Commands : Take(kind)
        BY <1>1 DEF RefuseCommand
  <2>2. Moves(kind)
        BY <1>1 DEF RefuseCommand, lifecycle, background, history, Moves
  <2> QED BY <2>1, <2>2
<1>2. CASE RestoreSession
  <2>1. Take("RestoreSession") /\ phase \in {"Starting", "RestorePaused"}
        BY <1>2 DEF RestoreSession, Allowed
  <2>2. Moves("RestoreSession")
        BY <1>2, <2>1 DEF RestoreSession, background, history, Moves, EndPhases
  <2> QED BY <2>1, <2>2 DEF Commands
<1>3. CASE Authenticate
  <2>1. PICK kind \in {"CheckServer", "LoginPassword", "LoginOAuth"} :
            Take(kind) /\ phase = "LoggedOut"
        BY <1>3 DEF Authenticate, Allowed
  <2>2. Moves(kind)
        BY <1>3, <2>1 DEF Authenticate, NextAttempt, background, history, Moves, EndPhases
  <2> QED BY <2>1, <2>2 DEF Commands
<1>4. CASE Reauthenticate
  <2>1. PICK kind \in {"ReauthPassword", "ReauthOAuth"} :
            /\ Take(kind) /\ phase = "SoftLoggedOut"
            /\ \/ attempt' = attempt + 1 /\ phase' = "Reauthenticating"
               \/ UNCHANGED <<attempt, phase>>
            /\ UNCHANGED <<session, account, background, checks, history>>
        BY <1>4 DEF Reauthenticate, Allowed, NextAttempt
  <2>2. Moves(kind)
        BY <2>1 DEF background, history, Moves, EndPhases
  <2> QED BY <2>1, <2>2 DEF Commands
<1>5. CASE CancelOAuth
  <2>1. Take("CancelOAuth") /\ phase \in {"Authenticating", "Reauthenticating"}
        BY <1>5 DEF CancelOAuth, Allowed
  <2>2. Moves("CancelOAuth")
        BY <1>5, <2>1 DEF CancelOAuth, CancelledPhase, background, Moves, EndPhases
  <2> QED BY <2>1, <2>2 DEF Commands
<1>6. CASE CheckLogout
  <2>1. Take("Logout") /\ held.kind = "Running"
        BY <1>6 DEF CheckLogout
  <2>2. phase = "Syncing"
        BY <2>1 DEF PhaseInv, HeldInv, Steady, Take
  <2>3. Asks \/ Moves("Logout")
        BY <1>6, <2>2 DEF CheckLogout, lifecycle, background, history, Moves, Asks
  <2> QED BY <2>1, <2>3 DEF Commands
<1>7. CASE LogoutUnchecked
  <2>1. Take("Logout") /\ phase \in {"Syncing", "SoftLoggedOut"} /\ held.kind # "Running"
        BY <1>7 DEF LogoutUnchecked, Allowed
  <2>2. phase # "Syncing"
        BY <2>1 DEF PhaseInv, HeldInv, Steady, Take
  <2>3. Moves("Logout")
        BY <1>7, <2>1, <2>2 DEF LogoutUnchecked, EndSession, WindDown, background, history, Moves
  <2> QED BY <2>1, <2>3 DEF Commands
<1>8. CASE ConfirmLogout
  <2>1. Take("ConfirmLogout") /\ phase = "Syncing"
        BY <1>8 DEF ConfirmLogout, Allowed
  <2>2. Decides("ConfirmLogout")
    <3>1. logoutWarning # 0 => logoutWarning = session
          BY DEF AskedInv
    <3>2. UNCHANGED <<session, syncs, checks, request, attempt, dismissed, logoutCheck>>
          BY <1>8 DEF ConfirmLogout, EndSession, WindDown, background, history
    <3>3. logoutWarning' = 0
          BY <1>8 DEF ConfirmLogout
    <3>4. UNCHANGED phase \/ (phase' = "LoggingOut" /\ serving' = "winding" /\ logoutWarning = session)
          BY <1>8, <3>1 DEF ConfirmLogout, EndSession, WindDown
    <3> QED BY <2>1, <3>2, <3>3, <3>4 DEF Decides
  <2> QED BY <2>1, <2>2 DEF Commands
<1>9. CASE CancelLogout
  <2>1. Take("CancelLogout") /\ phase = "Syncing"
        BY <1>9 DEF CancelLogout, Allowed
  <2>2. Decides("CancelLogout")
        BY <1>9, <2>1 DEF CancelLogout, lifecycle, background, history, Decides
  <2> QED BY <2>1, <2>2 DEF Commands
<1>10. CASE Quit
  <2>1. Take("Quit")
        BY <1>10 DEF Quit
  <2>2. Moves("Quit")
        BY <1>10 DEF Quit, WindDown, lifecycle, history, Moves
  <2> QED BY <2>1, <2>2 DEF Commands
<1> QED BY <1>1, <1>2, <1>3, <1>4, <1>5, <1>6, <1>7, <1>8, <1>9, <1>10 DEF HandleCommand

\* So are the events.
LEMMA EventShapes ==
    ASSUME TypeInv, PhaseInv, AskedInv, HandleEvent
    PROVE  \E kind \in Events : Handles(kind)
<1> USE DEF account, Handles
<1>1. CASE SettleRestore
  <2>1. Take("Restored")
        BY <1>1 DEF SettleRestore
  <2>2. Activates("Restored") \/ Moves("Restored")
        BY <1>1 DEF SettleRestore, Activate, background, history, Activates, Moves
  <2> QED BY <2>1, <2>2 DEF Events
<1>2. CASE SettleRestoreFailure
  <2>1. PICK kind \in {"RestoreFailed", "RestorePaused"} :
            Take(kind) /\ (UNCHANGED phase \/ (phase = "Restoring" /\ phase' \in {"LoggedOut", "RestorePaused"}))
        BY <1>2 DEF SettleRestoreFailure
  <2>2. Moves(kind)
        BY <1>2, <2>1 DEF SettleRestoreFailure, Rest, background, history, Moves, EndPhases
  <2> QED BY <2>1, <2>2 DEF Events
<1>3. \A n : SettleAuth(n) =>
          \/ UNCHANGED phase
          \/ /\ phase \in AuthPhases /\ phase' \in {"LoggedOut", "SoftLoggedOut"}
             /\ phase \notin {"Syncing"} \cup EndPhases
      BY DEF SettleAuth, Settled, IdleAfterAuth, AuthPhases, EndPhases
<1>4. CASE SettleDiscovery
  <2>1. Take("ServerDiscovered") /\ SettleAuth(Input.n)
        BY <1>4 DEF SettleDiscovery
  <2>2. Moves("ServerDiscovered")
        BY <1>3, <1>4, <2>1 DEF SettleDiscovery, Rest, background, history, Moves, EndPhases
  <2> QED BY <2>1, <2>2 DEF Events, Verdicts
<1>5. CASE SettleAuthFailure
  <2>1. PICK kind \in {"AuthRejected", "AuthCancelled"} : Take(kind) /\ SettleAuth(Input.n)
        BY <1>5 DEF SettleAuthFailure
  <2>2. Moves(kind)
        BY <1>3, <1>5, <2>1 DEF SettleAuthFailure, Rest, background, history, Moves, EndPhases
  <2> QED BY <2>1, <2>2 DEF Events, Verdicts
<1>6. CASE SettleLogin
  <2>1. Take("LoggedIn") /\ phase = "Authenticating" /\ Input.n = attempt
        BY <1>6 DEF SettleLogin, Promotes
  <2>2. Activates("LoggedIn")
        BY <1>6, <2>1 DEF SettleLogin, Activate, history, Activates
  <2> QED BY <2>1, <2>2 DEF Events, Verdicts
<1>7. CASE UndoSupersededLogin
  <2>1. Take("LoggedIn")
        BY <1>7 DEF UndoSupersededLogin
  <2>2. "LoggedIn" \in Verdicts
        BY DEF Verdicts
  <2>3. phase \notin {"Syncing"} \cup EndPhases
        BY <2>1, <2>2, InputFacts, PhaseFacts DEF AuthPhases, EndPhases
  <2>4. Moves("LoggedIn")
        BY <1>7, <2>3 DEF UndoSupersededLogin, background, history, Moves, EndPhases
  <2> QED BY <2>1, <2>4 DEF Events, Verdicts
<1>8. CASE SettleUnresolved
  <2>1. Take("LoginUnresolved") /\ phase' = "Blocked"
        BY <1>8 DEF SettleUnresolved
  <2>2. "LoginUnresolved" \in Verdicts
        BY DEF Verdicts
  <2>3. phase \notin {"Syncing"} \cup EndPhases
        BY <2>1, <2>2, InputFacts, PhaseFacts DEF AuthPhases, EndPhases
  <2>4. Moves("LoginUnresolved")
        BY <1>8, <2>1, <2>3 DEF SettleUnresolved, Rest, background, history, Moves, EndPhases
  <2> QED BY <2>1, <2>4 DEF Events, Verdicts
<1>9. CASE SettleResume
  <2>1. Take("Resumed")
        BY <1>9 DEF SettleResume
  <2>2. CASE Resumes(Input.n)
    <3>1. Activates("Resumed")
          BY <1>9, <2>2 DEF SettleResume, Resumes, Activate, history, Activates
    <3> QED BY <2>1, <3>1 DEF Events, Verdicts
  <2>3. CASE ~Resumes(Input.n)
    <3>1. Moves("Resumed")
          BY <1>3, <1>9, <2>3 DEF SettleResume, background, history, Moves, EndPhases
    <3> QED BY <2>1, <3>1 DEF Events, Verdicts
  <2> QED BY <2>2, <2>3
<1>10. CASE SuspendSession
  <2>1. Take("Suspended")
        BY <1>10 DEF SuspendSession
  <2>2. Moves("Suspended")
        BY <1>10 DEF SuspendSession, WindDown, background, history, Moves, Losses
  <2> QED BY <2>1, <2>2 DEF Events, Losses
<1>11. CASE ExpireSession
  <2>1. Take("Expired")
        BY <1>11 DEF ExpireSession
  <2>2. Moves("Expired")
        BY <1>11 DEF ExpireSession, EndSession, MayLogOut, WindDown, background, history, Moves
  <2> QED BY <2>1, <2>2 DEF Events, Losses
<1>12. CASE LogoutChecked
  <2>1. PICK kind \in Checked : Take(kind)
        BY <1>12 DEF LogoutChecked, Checked
  <2>2. Input.kind = kind /\ Input \in Waiting /\ Steady
        BY <2>1, InputFacts
  <2>3. UNCHANGED <<session, syncs, checks, request, attempt, dismissed>>
        BY <1>12 DEF LogoutChecked, EndSession, WindDown, background, history
  <2>4. CASE held.kind = "Running" /\ Input.n = logoutCheck
    <3>1. phase = "Syncing" /\ Input.s = session
          BY <2>1, <2>2, <2>4 DEF PhaseInv, HeldInv, AskedInv
    <3>2. logoutCheck' = 0
          BY <1>12, <2>4 DEF LogoutChecked
    <3>3. CASE Input.kind = "LogoutSafe" /\ MayLogOut
      <4>1. EndSession /\ UNCHANGED logoutWarning
            BY <1>12, <2>4, <3>3 DEF LogoutChecked
      <4>2. Decides(kind)
            BY <2>2, <2>3, <3>1, <3>2, <3>3, <4>1 DEF EndSession, WindDown, Decides
      <4> QED BY <2>1, <4>2 DEF Events, Checked
    <3>4. CASE ~(Input.kind = "LogoutSafe" /\ MayLogOut)
      <4>1. /\ logoutWarning' = IF Input.kind = "LogoutRisky" THEN Input.s ELSE logoutWarning
            /\ UNCHANGED phase
            BY <1>12, <2>4, <3>4 DEF LogoutChecked
      <4>2. Decides(kind)
            BY <2>3, <3>1, <3>2, <4>1 DEF Decides
      <4> QED BY <2>1, <4>2 DEF Events, Checked
    <3> QED BY <3>3, <3>4
  <2>5. CASE ~(held.kind = "Running" /\ Input.n = logoutCheck)
    <3>1. UNCHANGED <<phase, logoutCheck, logoutWarning>>
          BY <1>12, <2>5 DEF LogoutChecked
    <3>2. Moves(kind)
          BY <2>3, <3>1 DEF Moves
    <3> QED BY <2>1, <3>2 DEF Events, Checked
  <2> QED BY <2>4, <2>5
<1>13. CASE SettleErasure
  <2>1. PICK kind \in {"ErasingLocalState", "LocalStateCleared"} :
            /\ Take(kind)
            /\ \/ UNCHANGED phase
               \/ phase \in EndPhases /\ phase' = "CleaningUp"
               \/ kind = "LocalStateCleared" /\ phase \in EndPhases /\ phase' = "LoggedOut"
        BY <1>13 DEF SettleErasure, MayFinishLogout, EndPhases
  <2>2. kind \notin Losses
        BY DEF Losses
  <2>3. Moves(kind)
        BY <1>13, <2>1, <2>2 DEF SettleErasure, Rest, background, history, Moves, EndPhases, Cleared
  <2> QED BY <2>1, <2>3 DEF Events
<1> QED BY <1>1, <1>2, <1>4, <1>5, <1>6, <1>7, <1>8, <1>9, <1>10, <1>11, <1>12, <1>13
        DEF HandleEvent

\* What taking an input leaves of the losses.
LEMMA LossTaken ==
    ASSUME TypeInv, LossInv, NEW kind, Take(kind)
    PROVE  /\ Waiting' \subseteq Waiting /\ Input \in Waiting /\ Input.kind = kind
           /\ NoneBehind(inbox', OfKind(Cleared), OfKind(Losses))
           /\ Pending(Losses)' \in {0, 1} /\ (Pending(Losses) = 0 => Pending(Losses)' = 0)
           /\ kind \in Losses => syncs = {} /\ Pending(Losses)' = 0
           /\ kind \in Cleared => Pending(Losses)' = 0
<1>1. /\ inbox \in Seq(Message) /\ inbox # <<>> /\ inbox' = Tail(inbox)
      /\ Head(inbox).kind = kind
      BY DEF TypeInv, LoopTypes, Take
<1>2. /\ Tail(inbox) \in Seq(Message) /\ Head(inbox) \in Message
      /\ NoneBehind(inbox, OfKind(Cleared), OfKind(Losses)) =>
            /\ NoneBehind(Tail(inbox), OfKind(Cleared), OfKind(Losses))
            /\ Head(inbox) \in OfKind(Cleared) =>
                  \A x \in Elements(Tail(inbox)) : x \notin OfKind(Losses)
      BY <1>1, QueueTail
<1>3. /\ Waiting = Waiting' \cup {Input} /\ Input.kind = kind
      /\ Pending(Losses)' \in Nat
      /\ Pending(Losses) = Pending(Losses)' + (IF kind \in Losses THEN 1 ELSE 0)
      BY <1>1, TakeFacts
<1>4. NoneBehind(inbox', OfKind(Cleared), OfKind(Losses))
      BY <1>1, <1>2 DEF LossInv
<1>5. Pending(Losses) \in {0, 1} /\ (syncs = {} \/ Pending(Losses) = 0)
      BY DEF LossInv
<1>6. Pending(Losses)' \in {0, 1} /\ (Pending(Losses) = 0 => Pending(Losses)' = 0)
      BY <1>3, <1>5
<1>7. kind \in Losses => syncs = {} /\ Pending(Losses)' = 0
      BY <1>3, <1>5
<1>8. ASSUME kind \in Cleared PROVE Pending(Losses)' = 0
  <2>1. Head(inbox) \in OfKind(Cleared)
        BY <1>1, <1>2, <1>8 DEF OfKind
  <2>2. \A x \in Elements(inbox') : x \notin OfKind(Losses)
        BY <1>1, <1>2, <2>1 DEF LossInv
  <2>3. Count(inbox', OfKind(Losses)) = 0
        BY <1>1, <1>2, <2>2, CountType
  <2> QED BY <2>3 DEF Pending
<1> QED BY <1>3, <1>4, <1>6, <1>7, <1>8

\* The handlers keep it: a session ends only when no loss of it is left, or with
\* its erasure behind the loss.
LEMMA HandlerLosses ==
    ASSUME TypeInv, TypeInv', PhaseInv, LossInv, NEW kind, Handles(kind)
    PROVE  LossInv'
<1>1. /\ Take(kind)
      /\ Waiting' \subseteq Waiting
      /\ NoneBehind(inbox', OfKind(Cleared), OfKind(Losses))
      /\ Pending(Losses)' \in {0, 1} /\ (Pending(Losses) = 0 => Pending(Losses)' = 0)
      /\ kind \in Losses => syncs = {} /\ Pending(Losses)' = 0
      /\ kind \in Cleared => Pending(Losses)' = 0
      BY LossTaken DEF Handles
<1>2. CASE Activates(kind)
  <2>1. phase \notin {"Syncing"} \cup EndPhases
        BY <1>2 DEF Activates, EndPhases
  <2>2. Pending(Losses)' = 0
        BY <1>1, <2>1 DEF LossInv
  <2>3. \A m \in Waiting' : m.kind \notin Losses
    <3>1. inbox' \in Seq(Message) /\ Count(inbox', OfKind(Losses)) = 0
          BY <2>2 DEF TypeInv, LoopTypes, Pending
    <3>2. \A m \in Elements(inbox') : m \notin OfKind(Losses) /\ m \in Message
          BY <3>1, CountType, ElementOfSeq, LenProperties DEF Elements
    <3> QED BY <3>2 DEF Waiting, OfKind
  <2> QED BY <1>1, <1>2, <2>2, <2>3 DEF LossInv, Activates
<1>3. CASE Asks \/ Decides(kind)
  <2>1. UNCHANGED <<session, syncs>> /\ (UNCHANGED phase \/ phase' = "LoggingOut")
        BY <1>3 DEF Asks, Decides
  <2>2. phase' \notin {"Syncing"} \cup EndPhases => UNCHANGED phase
        BY <2>1 DEF EndPhases
  <2> QED BY <1>1, <2>1, <2>2 DEF LossInv
<1>4. CASE Moves(kind)
  <2>1. UNCHANGED <<session, syncs>>
        BY <1>4 DEF Moves
  <2>2. ASSUME phase' \notin {"Syncing"} \cup EndPhases
        PROVE  Pending(Losses)' = 0 /\ syncs' = {}
    <3>1. CASE phase \notin {"Syncing"} \cup EndPhases
          BY <1>1, <2>1, <3>1 DEF LossInv
    <3>2. CASE phase \in {"Syncing"} \cup EndPhases
      <4>1. kind \in Losses \/ (kind \in Cleared /\ phase \in EndPhases)
            BY <1>4, <2>2, <3>2 DEF Moves, EndPhases
      <4>2. kind \in Cleared /\ phase \in EndPhases => syncs = {}
        <5> SUFFICES ASSUME kind \in Cleared, phase \in EndPhases PROVE syncs = {}
            OBVIOUS
        <5>1. serving = "next"
              BY <1>1 DEF Take
        <5> QED BY <5>1, PhaseFacts DEF PhaseInv, HeldInv, WindsDown
      <4> QED BY <1>1, <2>1, <4>1, <4>2
    <3> QED BY <3>1, <3>2
  <2> QED BY <1>1, <2>1, <2>2 DEF LossInv
<1> QED BY <1>2, <1>3, <1>4 DEF Handles

\* A step that sends nothing, and leaves the session and its phase, or lets the
\* loop go on when every sync has ended.
LEMMA StillLosses ==
    ASSUME TypeInv, LossInv, UNCHANGED <<inbox, session>>, syncs' \subseteq syncs,
           phase' \in {"Syncing"} \cup EndPhases <=> phase \in {"Syncing"} \cup EndPhases
    PROVE  LossInv'
<1>1. Waiting' = Waiting /\ Pending(Losses)' = Pending(Losses)
      BY InboxStays
<1> QED BY <1>1 DEF LossInv

\* The tasks keep it.
LEMMA TaskLosses ==
    ASSUME TypeInv, PhaseInv, LossInv, TaskStep \/ UserSends
    PROVE  LossInv'
<1>1. /\ syncs' \subseteq syncs
      /\ UNCHANGED inbox \/ \E m \in Message : Send(m) /\ Said(m)
      BY TaskSays
<1>2. UNCHANGED <<phase, session>>
      BY TaskFrame
<1>3. CASE UNCHANGED inbox
      BY <1>1, <1>2, <1>3, StillLosses
<1>4. CASE \E m \in Message : Send(m) /\ Said(m)
  <2>1. PICK m \in Message : Send(m) /\ Said(m)
        BY <1>4
  <2>2. inbox \in Seq(Message) /\ inbox' = Append(inbox, m)
        BY <2>1 DEF TypeInv, LoopTypes, Send
  <2>3. /\ Waiting' = Waiting \cup {m}
        /\ Pending(Losses)' = Pending(Losses) + (IF m.kind \in Losses THEN 1 ELSE 0)
        BY <2>1, <2>2, SendFacts
  <2>4. Pending(Losses) \in {0, 1} /\ (syncs = {} \/ Pending(Losses) = 0)
        BY DEF LossInv
  <2>5. CASE m.kind \in Losses
    <3>1. m.s \in syncs /\ syncs' = syncs \ {m.s} /\ syncs \subseteq {session}
          BY <2>1, <2>5 DEF Said, PhaseInv, HeldInv
    <3>2. syncs' = {} /\ m.s = session /\ Pending(Losses) = 0 /\ Pending(Losses)' = 1
          BY <2>3, <2>4, <2>5, <3>1
    <3>3. phase \in {"Syncing"} \cup EndPhases
          BY <3>1 DEF LossInv
    <3>4. \A x \in Elements(inbox) : x \notin OfKind(Cleared)
      <4>1. Pending(Cleared) = 0
        <5>1. phase \in EndPhases => WindsDown
              BY <3>1, PhaseFacts DEF PhaseInv, HeldInv
        <5>2. phase \in EndPhases => WindsToErase
              BY <5>1 DEF WindsDown, WindsToErase, PhaseInv, ServingInv, Quitting, EndPhases
        <5>3. phase \notin EndPhases => Pending(Cleared) = 0
              BY DEF PhaseInv, ErasureInv
        <5>4. WindsToErase => Pending(Cleared) = 0
              BY DEF PhaseInv, ErasureInv
        <5> QED BY <5>2, <5>3, <5>4
      <4> QED BY <2>2, <4>1, CountType DEF Pending
    <3>5. NoneBehind(inbox', OfKind(Cleared), OfKind(Losses))
          BY <2>2, <3>4, QueueAppend DEF LossInv
    <3>6. \A w \in Waiting' : w.kind \in Losses => w.s = session'
          BY <1>2, <2>3, <3>2 DEF LossInv
    <3> QED BY <1>2, <3>2, <3>3, <3>5, <3>6 DEF LossInv
  <2>6. CASE m.kind \notin Losses
    <3>1. m \notin OfKind(Losses)
          BY <2>6 DEF OfKind
    <3>2. NoneBehind(inbox', OfKind(Cleared), OfKind(Losses))
          BY <2>2, <3>1, QueueAppend DEF LossInv
    <3>3. Pending(Losses)' = Pending(Losses)
          BY <2>3, <2>4, <2>6
    <3> QED BY <1>1, <1>2, <2>3, <2>6, <3>2, <3>3 DEF LossInv
  <2> QED BY <2>5, <2>6
<1> QED BY <1>1, <1>3, <1>4

\* The rest of a handler: a login that was undone leaves its phase for an idle
\* one, and what was wound down stays in its phase.
LEMMA ResumeMoves ==
    ASSUME TypeInv, PhaseInv, Resume
    PROVE  /\ UNCHANGED <<inbox, session, syncs, checks, attempt, dismissed, request>>
           /\ UNCHANGED phase \/ (phase \in FirstAuth /\ phase' \in {"LoggedOut", "Blocked"})
           /\ \/ Steady /\ UNCHANGED <<logoutCheck, logoutWarning>>
              \/ serving' = "stopped" /\ UNCHANGED <<logoutCheck, logoutWarning>>
              \/ logoutCheck' = 0 /\ logoutWarning' = 0
<1> USE DEF account, background, history
<1>1. CASE LoginUndone
  <2>1. serving \in {"undone", "stuck"} /\ phase \in FirstAuth
        BY <1>1 DEF LoginUndone, PhaseInv, ServingInv, Undoing
  <2>2. UNCHANGED phase \/ phase' \in {"LoggedOut", "Blocked"}
        BY <1>1, <2>1 DEF LoginUndone, SettleAuth, IdleAfterAuth, FirstAuth
  <2>3. UNCHANGED <<inbox, session, syncs, checks, attempt, dismissed, request, logoutCheck,
                    logoutWarning>>
        BY <1>1 DEF LoginUndone
  <2> QED BY <2>1, <2>2, <2>3 DEF Steady
<1>2. CASE WoundDown
  <2>1. after.then # "quit" => after.then # "finish"
        BY <1>2 DEF WoundDown, PhaseInv, ServingInv, Quitting
  <2>2. UNCHANGED phase
        BY <1>2, <2>1 DEF WoundDown
  <2>3. \/ serving' = "stopped" /\ UNCHANGED <<logoutCheck, logoutWarning>>
        \/ logoutCheck' = 0 /\ logoutWarning' = 0
        BY <1>2 DEF WoundDown, ForgetLogoutDialog
  <2>4. UNCHANGED <<inbox, session, syncs, checks, attempt, dismissed, request>>
        BY <1>2 DEF WoundDown
  <2> QED BY <2>2, <2>3, <2>4
<1> QED BY <1>1, <1>2 DEF Resume

\* The dialogs: the handlers keep what the user asked.
LEMMA HandlerAsked ==
    ASSUME TypeInv, TypeInv', PhaseInv, AskedInv, NEW kind, Handles(kind)
    PROVE  AskedInv'
<1>1. /\ Take(kind) /\ serving = "next" /\ Steady /\ Input \in Waiting
      /\ Waiting' \subseteq Waiting
      BY InputFacts DEF Handles
<1>2. /\ request \in Nat /\ logoutCheck \in 0..request /\ attempt \in Nat
      /\ dismissed \subseteq 1..attempt /\ session \in Nat
      BY DEF TypeInv, AccountTypes, LifecycleTypes
<1>3. \A m \in Waiting' : m.kind = "Restored" => m.n = 0
      BY <1>1 DEF AskedInv
<1>4. CASE Activates(kind)
  <2>1. /\ phase' = "Syncing" /\ session' = session + 1
        /\ UNCHANGED <<checks, logoutCheck, logoutWarning, request, attempt, dismissed>>
        /\ phase # "Syncing"
        BY <1>4 DEF Activates
  <2>2. logoutCheck = 0 /\ logoutWarning = 0 /\ checks = {}
    <3>1. checks = {}
          BY <1>1, <2>1 DEF PhaseInv, HeldInv, WindsDown
    <3> QED BY <1>1, <2>1, <3>1 DEF AskedInv
  <2>3. \A m \in Waiting' : m.kind \in Checked => m.n \in 1..request /\ m.n # 0
        BY <1>1, <1>2 DEF AskedInv
  <2> QED BY <1>3, <2>1, <2>2, <2>3 DEF AskedInv
<1>5. CASE Asks
  <2>1. /\ UNCHANGED <<phase, attempt, dismissed, session, logoutWarning>>
        /\ request' = request + 1 /\ logoutCheck' = request + 1
        /\ checks' = checks \cup {[request |-> request + 1, session |-> session]}
        BY <1>5 DEF Asks
  <2>2. phase' = "Syncing"
        BY <1>5 DEF Asks
  <2>3. \A c \in checks' : c.request \in 1..request' /\ c.session = session'
    <3>1. \A c \in checks : c.request \in 1..request' /\ c.session = session'
          BY <1>2, <2>1 DEF AskedInv
    <3>2. LET c == [request |-> request + 1, session |-> session]
          IN  c.request \in 1..request' /\ c.session = session'
          BY <1>2, <2>1
    <3> QED BY <2>1, <3>1, <3>2
  <2>4. \A m \in Waiting' : m.kind \in Checked => m.n \in 1..request' /\ m.n # logoutCheck'
        BY <1>1, <1>2, <2>1 DEF AskedInv
  <2> QED BY <1>1, <1>3, <2>1, <2>2, <2>3, <2>4 DEF AskedInv
<1>6. CASE Decides(kind)
  <2>1. /\ UNCHANGED <<session, checks, request, attempt, dismissed>>
        /\ logoutCheck' \in {0, logoutCheck} /\ logoutWarning' \in {0, logoutWarning, session}
        BY <1>6 DEF Decides
  <2>2. phase' = "Syncing" \/ (phase' = "LoggingOut" /\ serving' = "winding")
        BY <1>6 DEF Decides
  <2>3. \A m \in Waiting' : m.kind \in Checked =>
            m.n \in 1..request' /\ (m.n = logoutCheck' => m.s = session')
    <3>1. \A m \in Waiting' : m.kind \in Checked =>
              m.n \in 1..request /\ (m.n = logoutCheck => m.s = session)
          BY <1>1 DEF AskedInv
    <3>2. \A n \in 1..request : n # 0
          BY <1>2
    <3> QED BY <2>1, <3>1, <3>2
  <2>4. \A c \in checks' : c.request \in 1..request' /\ c.session = session'
        BY <2>1 DEF AskedInv
  <2>5. logoutWarning' \in {0, session'}
        BY <2>1 DEF AskedInv
  <2>6. ~(Steady' /\ phase' # "Syncing")
        BY <2>2 DEF Steady
  <2>7. phase' \notin {"Authenticating", "Reauthenticating"}
        BY <2>2
  <2> QED BY <1>3, <2>3, <2>4, <2>5, <2>6, <2>7 DEF AskedInv
<1>7. CASE Moves(kind)
  <2>1. UNCHANGED <<session, checks, logoutCheck, logoutWarning, request>>
        BY <1>7 DEF Moves
  <2>2. ASSUME Steady', phase' # "Syncing" PROVE logoutCheck' = 0 /\ logoutWarning' = 0
    <3>1. phase # "Syncing"
          BY <1>7, <2>2, PhaseFacts DEF Moves, Steady
    <3> QED BY <1>1, <2>1, <3>1 DEF AskedInv
  <2>3. ASSUME phase' \in {"Authenticating", "Reauthenticating"} PROVE attempt' \notin dismissed'
    <3>1. \/ UNCHANGED <<phase, attempt, dismissed>>
          \/ attempt' = attempt + 1 /\ UNCHANGED dismissed
          BY <1>7, <2>3 DEF Moves, EndPhases
    <3> QED BY <1>2, <2>3, <3>1 DEF AskedInv
  <2>4. \A m \in Waiting' : m.kind \in Checked =>
            m.n \in 1..request' /\ (m.n = logoutCheck' => m.s = session')
        BY <1>1, <2>1 DEF AskedInv
  <2>5. /\ \A c \in checks' : c.request \in 1..request' /\ c.session = session'
        /\ logoutWarning' \in {0, session'}
        BY <2>1 DEF AskedInv
  <2> QED BY <1>3, <2>2, <2>3, <2>4, <2>5 DEF AskedInv
<1> QED BY <1>4, <1>5, <1>6, <1>7 DEF Handles

\* The tasks keep it.
LEMMA TaskAsked ==
    ASSUME TypeInv, PhaseInv, AskedInv, TaskStep \/ UserSends
    PROVE  AskedInv'
<1>1. /\ checks' \subseteq checks
      /\ UNCHANGED inbox \/ \E m \in Message : Send(m) /\ Said(m)
      BY TaskSays
<1>2. UNCHANGED <<phase, attempt, session, serving, dismissed, logoutCheck, logoutWarning, request>>
      BY TaskFrame
<1>3. \A m \in Waiting' : m \in Waiting \/ Said(m)
      BY <1>1, InboxStays, SentFacts
<1>4. \A m \in Waiting' : m.kind = "Restored" => m.n = 0
      BY <1>3 DEF AskedInv, Said
<1>5. \A m \in Waiting' : m.kind \in Checked =>
          m.n \in 1..request' /\ (m.n = logoutCheck' => m.s = session')
      BY <1>2, <1>3 DEF AskedInv, Said
<1>6. \A c \in checks' : c.request \in 1..request' /\ c.session = session'
      BY <1>1, <1>2 DEF AskedInv
<1> QED BY <1>2, <1>4, <1>5, <1>6 DEF AskedInv, Steady

\* The losses and the dialogs are kept by every step.
LEMMA StepLossAsked ==
    TypeInv /\ TypeInv' /\ PhaseInv /\ LossInv /\ AskedInv /\ [Next]_vars => LossInv' /\ AskedInv'
<1> SUFFICES ASSUME TypeInv, TypeInv', PhaseInv, LossInv, AskedInv, [Next]_vars
             PROVE  LossInv' /\ AskedInv'
    OBVIOUS
<1>1. CASE HandleCommand \/ HandleEvent
  <2>1. \E kind : Handles(kind)
        BY <1>1, CommandShapes, EventShapes
  <2> QED BY <2>1, HandlerLosses, HandlerAsked
<1>2. CASE TaskStep \/ UserSends
      BY <1>2, TaskLosses, TaskAsked
<1>3. CASE Resume
  <2>1. /\ UNCHANGED <<inbox, session, syncs, checks, attempt, dismissed, request>>
        /\ UNCHANGED phase \/ (phase \in FirstAuth /\ phase' \in {"LoggedOut", "Blocked"})
        /\ \/ Steady /\ UNCHANGED <<logoutCheck, logoutWarning>>
           \/ serving' = "stopped" /\ UNCHANGED <<logoutCheck, logoutWarning>>
           \/ logoutCheck' = 0 /\ logoutWarning' = 0
        BY <1>3, ResumeMoves
  <2>2. phase' \in {"Syncing"} \cup EndPhases <=> phase \in {"Syncing"} \cup EndPhases
        BY <2>1, PhaseFacts DEF EndPhases
  <2>3. LossInv'
        BY <2>1, <2>2, StillLosses
  <2>4. Waiting' = Waiting
        BY <2>1, InboxStays
  <2>5. /\ phase' \in {"Authenticating", "Reauthenticating"} => phase' = phase
        /\ phase # "Syncing" \/ UNCHANGED phase
        BY <2>1, PhaseFacts
  <2>6. Steady' /\ phase' # "Syncing" => logoutCheck' = 0 /\ logoutWarning' = 0
        BY <2>1, <2>5 DEF AskedInv, Steady
  <2>7. logoutWarning' \in {0, session'} /\ logoutCheck' \in {0, logoutCheck}
        BY <2>1 DEF AskedInv
  <2>8. \A m \in Waiting' : m.kind \in Checked =>
            m.n \in 1..request' /\ (m.n = logoutCheck' => m.s = session')
    <3>1. \A n \in 1..request : n # 0
          BY DEF TypeInv, AccountTypes
    <3> QED BY <2>1, <2>4, <2>7, <3>1 DEF AskedInv
  <2>9. AskedInv'
        BY <2>1, <2>4, <2>5, <2>6, <2>7, <2>8 DEF AskedInv
  <2> QED BY <2>3, <2>9
<1>4. CASE AbortStragglers \/ RunCall \/ UNCHANGED vars
  <2>1. /\ UNCHANGED <<inbox, session, phase, attempt, dismissed, request, logoutCheck,
                       logoutWarning>>
        /\ syncs' \subseteq syncs /\ checks' \subseteq checks
        /\ Steady' <=> Steady
    <3>1. CASE AbortStragglers
          BY <3>1 DEF AbortStragglers, lifecycle, account, loop, history, Steady
    <3>2. CASE RunCall
      <4>1. /\ NextCall.who = "service" => serving = "undoing"
            /\ serving' = serving \/ (NextCall.who = "service" /\ serving' \in {"undone", "stuck"})
        <5>1. Elements(lane) = Elements(lane') \cup {NextCall} /\ NextCall \in Calls
              BY <3>2, RanCall
        <5>2. NextCall.who = "service" => Count(lane, ServiceCalls) # 0
              BY <3>2, RanCall
        <5>3. NextCall.who = "service" => serving = "undoing"
              BY <5>2 DEF PhaseInv, CallsInv
        <5> QED BY <3>2, <5>3 DEF RunCall, Answer
      <4>2. Steady' <=> Steady
            BY <4>1 DEF Steady
      <4> QED BY <3>2, <4>2 DEF RunCall, lifecycle, account, history
    <3>3. CASE UNCHANGED vars
          BY <3>3 DEF vars, lifecycle, account, loop, background, history, Steady
    <3> QED BY <1>4, <3>1, <3>2, <3>3
  <2>2. LossInv'
        BY <2>1, StillLosses
  <2>3. Waiting' = Waiting
        BY <2>1, InboxStays
  <2>4. AskedInv'
        BY <2>1, <2>3 DEF AskedInv
  <2> QED BY <2>2, <2>4
<1> QED BY <1>1, <1>2, <1>3, <1>4 DEF Next, TaskStep

\* All of it holds always.
LEMMA AskedAlways == Spec => [](TypeInv /\ PhaseInv /\ LossInv /\ AskedInv)
<1>1. Spec => [](TypeInv /\ PhaseInv)
      BY PhasesAlways
<1>2. TypeInv /\ TypeInv' /\ PhaseInv /\ LossInv /\ AskedInv /\ [Next]_vars => LossInv' /\ AskedInv'
      BY StepLossAsked
<1> QED BY <1>1, <1>2, InitLossAsked, PTL DEF Spec

\* A step that changes the phase is a handler, or the rest of one.
LEMMA PhaseChanges ==
    ASSUME TypeInv, PhaseInv, AskedInv, [Next]_vars
    PROVE  \/ UNCHANGED phase
           \/ \E kind \in Commands \cup Events : Handles(kind)
           \/ serving # "next" /\ phase # "Syncing" /\ phase' # "Syncing"
<1>1. CASE HandleCommand \/ HandleEvent
      BY <1>1, CommandShapes, EventShapes
<1>2. CASE TaskStep \/ UserSends
      BY <1>2, TaskFrame
<1>3. CASE Resume
  <2>1. serving # "next"
        BY <1>3 DEF Resume, LoginUndone, WoundDown
  <2> QED BY <1>3, <2>1, ResumeMoves, PhaseFacts
<1>4. CASE AbortStragglers \/ RunCall \/ UNCHANGED vars
      BY <1>4 DEF AbortStragglers, RunCall, vars, lifecycle
<1> QED BY <1>1, <1>2, <1>3, <1>4 DEF Next, TaskStep

\* LossEndsItsOwnSession: a loss that is handled late, after the session was
\* suspended, signed out or resumed, changes nothing; one that changes the phase
\* is of the session that runs.
THEOREM LossesEndTheirOwnSession == Spec => LossEndsItsOwnSession
<1> DEFINE Acts ==
        serving = "next" /\ inbox # <<>> /\ Input.kind \in Losses /\ phase' # phase
            => phase = "Syncing" /\ Input.s = session
<1>1. TypeInv /\ PhaseInv /\ LossInv /\ AskedInv /\ [Next]_vars => Acts
  <2> SUFFICES ASSUME TypeInv, PhaseInv, LossInv, AskedInv, [Next]_vars,
                      serving = "next", Input.kind \in Losses, phase' # phase
               PROVE  phase = "Syncing" /\ Input.s = session
      OBVIOUS
  <2>1. PICK kind \in Commands \cup Events : Handles(kind)
        BY PhaseChanges
  <2>2. Input \in Waiting /\ Input.kind = kind
        BY <2>1, InputFacts DEF Handles
  <2>3. Input.s = session
        BY <2>2 DEF LossInv
  <2>4. Pending(Losses) # 0
        BY <2>2, NonePending DEF TypeInv, LoopTypes
  <2>5. phase \in {"Syncing"} \cup EndPhases
        BY <2>4 DEF LossInv
  <2>6. kind \notin Cleared \cup {"Restored", "LoggedIn", "Resumed"}
        BY <2>2 DEF Losses, Cleared
  <2>7. phase = "Syncing"
    <3>1. CASE Moves(kind)
          BY <2>2, <2>5, <2>6, <3>1 DEF Moves, EndPhases
    <3>2. CASE Activates(kind) \/ Asks \/ Decides(kind)
          BY <2>6, <3>2 DEF Activates, Asks, Decides
    <3> QED BY <2>1, <3>1, <3>2 DEF Handles
  <2> QED BY <2>3, <2>7
<1>2. Acts => [Acts]_vars
      OBVIOUS
<1> QED BY <1>1, AskedAlways, PTL DEF Spec, LossEndsItsOwnSession

\* RunsAsTheUserAsked: a sign-in that was cancelled never becomes the running
\* session, and a running session is signed out by an answer about that very
\* session, or because the homeserver ended it.
THEOREM SessionsRunAsAsked == Spec => RunsAsTheUserAsked
<1> DEFINE Begins == phase # "Syncing" /\ phase' = "Syncing" => Input.n \notin dismissed
           Ends == phase = "Syncing" /\ phase' = "LoggingOut" =>
                      \/ Input.kind = "LogoutSafe" /\ Input.s = session
                      \/ Input.kind = "ConfirmLogout" /\ logoutWarning = session
                      \/ Input.kind = "Expired"
<1>1. ASSUME TypeInv, PhaseInv, AskedInv, NEW kind, Handles(kind) PROVE Begins /\ Ends
  <2>1. Input \in Waiting /\ Input.kind = kind
        BY <1>1, InputFacts DEF Handles
  <2>2. CASE Activates(kind)
    <3>1. phase # "Syncing" /\ (Input.n = 0 \/ Input.n \notin dismissed)
      <4>1. kind = "Restored" => Input.n = 0
            BY <1>1, <2>1 DEF AskedInv
      <4>2. phase \in {"Authenticating", "Reauthenticating"} => attempt \notin dismissed
            BY <1>1 DEF AskedInv
      <4>3. \/ kind = "Restored" /\ phase = "Restoring"
            \/ Input.n = attempt /\ phase \in {"Authenticating", "Reauthenticating"}
            BY <2>2 DEF Activates
      <4> QED BY <4>1, <4>2, <4>3
    <3>2. 0 \notin dismissed
          BY <1>1 DEF TypeInv, LifecycleTypes
    <3>3. ~(phase = "Syncing")
          BY <3>1
    <3> QED BY <3>1, <3>2, <3>3
  <2>3. CASE Moves(kind)
        BY <2>1, <2>3 DEF Moves, EndPhases
  <2>4. CASE Asks \/ Decides(kind)
        BY <2>1, <2>4 DEF Asks, Decides
  <2> QED BY <1>1, <2>2, <2>3, <2>4 DEF Handles
<1>2. TypeInv /\ PhaseInv /\ AskedInv /\ [Next]_vars => Begins /\ Ends
  <2> SUFFICES ASSUME TypeInv, PhaseInv, AskedInv, [Next]_vars PROVE Begins /\ Ends
      OBVIOUS
  <2>1. CASE \E kind \in Commands \cup Events : Handles(kind)
        BY <1>1, <2>1
  <2>2. CASE UNCHANGED phase \/ (serving # "next" /\ phase # "Syncing" /\ phase' # "Syncing")
        BY <2>2
  <2> QED BY <2>1, <2>2, PhaseChanges
<1> QED BY <1>2, AskedAlways, PTL DEF Spec, RunsAsTheUserAsked

-----------------------------------------------------------------------------
(* The keyring's lane. There is never more in it than a save of a persister   *)
(* and, behind it, the call of one other task; what is left of a persister    *)
(* that was aborted runs before the task that took over.                      *)

PersisterCalls == {c \in Calls : c.who = "persister" /\ c.op = "set"}
OwnCalls == {c \in Calls : c.who # "persister"}
OnlyPersister == lane = <<>> \/ \E w \in PersisterCalls : lane = <<w>>
Behind(c) == lane = <<c>> \/ \E w \in PersisterCalls : lane = <<w, c>>

\* The phases in which no session is held.
Fresh == {"Starting", "Restoring", "RestorePaused", "Blocked", "LoggedOut"} \cup FirstAuth

\* What is in the lane, from where a task is.
SignInLane(t) ==
    /\ t.stage = "asking" => OnlyPersister
    /\ t.stage = "saving" => Behind(Write("signIn", t.attempt, t.cred))
    /\ t.stage = "puttingBack" =>
          t.method \in LoginMethods /\ Behind(Write("signIn", t.attempt, t.was))
    /\ t.stage \in {"saved", "unsaved", "undone", "stuck"} => lane = <<>>
RestoreLane(r) ==
    /\ r.stage = "loading" => lane = <<Read("restore")>>
    /\ r.stage = "forgetting" => lane = <<Write("restore", 0, NoSession)>>
    /\ r.stage \in {"loaded", "absent", "unreadable"} => lane = <<>>
ErasureLane(e) ==
    /\ e.stage = "leaving" => OnlyPersister
    /\ e.stage = "clearing" => Behind(Write("erasure", e.session, NoSession))
    /\ e.stage = "cleared" => lane = <<>>
PersisterLane(p) ==
    /\ p.stage \in {"saving", "flushing"} => lane = <<Write("persister", p.session, p.dirty)>>
    /\ p.stage \in {"idle", "retry", "flushed"} => lane = <<>>
ServiceLane ==
    serving = "undoing" =>
        \E c \in OwnCalls : lane = <<c>> /\ c.who = "service" /\ c.op = "set"

Unowned == ~Quitting /\ signIns = {} /\ restores = {} /\ erasures = {} /\ serving # "undoing"
LaneShape ==
    /\ OnlyPersister \/ \E c \in OwnCalls : Behind(c)
    /\ Unowned => OnlyPersister
    /\ phase \in Fresh => lane = <<>> \/ \E c \in OwnCalls : lane = <<c>>
LaneInv ==
    /\ LaneShape /\ ServiceLane
    /\ \A t \in signIns : SignInLane(t)
    /\ \A r \in restores : RestoreLane(r)
    /\ \A e \in erasures : ErasureLane(e)
    /\ \A p \in persisters : PersisterLane(p)
    /\ \A m \in Waiting : m.kind \in {"Resumed", "LocalStateCleared"} => Quitting \/ lane = <<>>

\* Short queues, told apart by what is in them.
LEMMA ShortQueues ==
    /\ \A a, b : (<<a>> = <<b>>) <=> (a = b)
    /\ \A a, b, c, d : (<<a, b>> = <<c, d>>) <=> (a = c /\ b = d)
    /\ \A a, b, c : <<a>> # <<>> /\ <<a, b>> # <<>> /\ <<a, b>> # <<c>>
<1>1. \A a, b : (<<a>> = <<b>>) <=> (a = b)
  <2> TAKE a, b
  <2>1. <<a>>[1] = a /\ <<b>>[1] = b
        OBVIOUS
  <2> QED BY <2>1
<1>2. \A a, b, c, d : (<<a, b>> = <<c, d>>) <=> (a = c /\ b = d)
  <2> TAKE a, b, c, d
  <2>1. <<a, b>>[1] = a /\ <<a, b>>[2] = b /\ <<c, d>>[1] = c /\ <<c, d>>[2] = d
        OBVIOUS
  <2> QED BY <2>1
<1>3. \A a, b, c : <<a>> # <<>> /\ <<a, b>> # <<>> /\ <<a, b>> # <<c>>
  <2> TAKE a, b, c
  <2>1. Len(<<>>) = 0 /\ Len(<<a>>) = 1 /\ Len(<<c>>) = 1 /\ Len(<<a, b>>) = 2
        OBVIOUS
  <2> QED BY <2>1
<1> QED BY <1>1, <1>2, <1>3

\* A call that is put in the lane is the only one, or behind a persister's.
LEMMA LanePuts ==
    ASSUME lane \in Seq(Calls), NEW c \in Calls, Enqueue(c)
    PROVE  /\ lane = <<>> => lane' = <<c>>
           /\ OnlyPersister => Behind(c)'
           /\ \A w \in Calls : lane = <<w>> => lane' = <<w, c>>
<1>1. lane' = Append(lane, c)
      BY DEF Enqueue
<1> DEFINE q == Append(lane, c)
<1>2. /\ q \in Seq(Calls) /\ Len(q) = Len(lane) + 1
      /\ \A i \in 1..Len(lane) : q[i] = lane[i]
      /\ q[Len(lane) + 1] = c
      BY AppendProperties
<1> HIDE DEF q
<1>3. ASSUME lane = <<>> PROVE lane' = <<c>>
  <2>1. Len(lane) = 0 /\ Len(lane) + 1 = 1
        BY <1>3
  <2>2. q \in Seq(Calls) /\ Len(q) = 1 /\ q[1] = c
        BY <1>2, <2>1
  <2>3. <<c>> \in Seq(Calls) /\ Len(<<c>>) = 1 /\ <<c>>[1] = c
        OBVIOUS
  <2>4. \A i \in 1..Len(q) : q[i] = <<c>>[i]
        BY <2>2, <2>3
  <2>5. q = <<c>>
        BY <2>2, <2>3, <2>4, SeqEqual
  <2> QED BY <1>1, <2>5 DEF q
<1>5. ASSUME NEW w \in Calls, lane = <<w>> PROVE lane' = <<w, c>>
  <2>1. lane \in Seq(Calls) /\ Len(lane) = 1 /\ lane[1] = w
        BY <1>5
  <2>2. q \in Seq(Calls) /\ Len(q) = 2 /\ q[1] = w /\ q[2] = c
        BY <1>2, <2>1
  <2>3. <<w, c>> \in Seq(Calls) /\ Len(<<w, c>>) = 2 /\ <<w, c>>[1] = w /\ <<w, c>>[2] = c
        OBVIOUS
  <2>4. \A i \in 1..Len(q) : q[i] = <<w, c>>[i]
    <3>1. \A i \in 1..2 : i = 1 \/ i = 2
          OBVIOUS
    <3> QED BY <2>2, <2>3, <3>1
  <2>5. q = <<w, c>>
        BY <2>2, <2>3, <2>4, SeqEqual
  <2> QED BY <1>1, <2>5 DEF q
<1>4. (PersisterCalls)' = PersisterCalls /\ PersisterCalls \subseteq Calls
      BY DEF PersisterCalls
<1> QED BY <1>3, <1>4, <1>5 DEF OnlyPersister, Behind

\* The lane runs the only call, or the persister's before the other.
LEMMA LaneRuns ==
    ASSUME TypeInv, LaneShape, RunCall
    PROVE  \/ \E w \in PersisterCalls : lane = <<w>> /\ NextCall = w /\ lane' = <<>>
           \/ \E c \in OwnCalls : lane = <<c>> /\ NextCall = c /\ lane' = <<>>
           \/ \E w \in PersisterCalls, c \in OwnCalls :
                 lane = <<w, c>> /\ NextCall = w /\ lane' = <<c>>
<1>1. lane # <<>> /\ lane' = Tail(lane) /\ NextCall = Head(lane)
      BY RanCall
<1>2. ASSUME NEW c, lane = <<c>> PROVE NextCall = c /\ lane' = <<>>
      BY <1>1, <1>2
<1>3. ASSUME NEW c, NEW w, lane = <<w, c>> PROVE NextCall = w /\ lane' = <<c>>
      BY <1>1, <1>3
<1> QED BY <1>1, <1>2, <1>3 DEF LaneShape, OnlyPersister, Behind

\* One kind of task is about at a time.
LEMMA OneKindOfTask ==
    ASSUME PhaseInv
    PROVE  /\ signIns # {} => phase \in AuthPhases /\ serving # "undoing"
           /\ restores # {} => phase = "Restoring"
           /\ erasures # {} => phase \in EndPhases /\ ~WindsToErase
           /\ persisters # {} => phase = "Syncing" \/ WindsDown
           /\ serving = "undoing" => phase \in FirstAuth /\ ~Quitting
           /\ WindsDown /\ phase \in EndPhases => WindsToErase
           /\ WindsDown => phase \in {"LoggingOut", "SoftLoggedOut"}
<1>1. serving = "undoing" => Undoing /\ ~Quitting /\ phase \in FirstAuth
      BY DEF Undoing, PhaseInv, ServingInv
<1>2. signIns # {} => phase \in AuthPhases /\ serving # "undoing"
  <2>1. signIns # {} => phase \in AuthPhases
        BY PhaseFacts DEF PhaseInv, AuthInv
  <2> QED BY <1>1, <2>1 DEF PhaseInv, OneAuth
<1>3. WindsDown => ~Quitting /\ phase \in {"LoggingOut", "SoftLoggedOut"}
      BY DEF WindsDown, Quitting, PhaseInv, ServingInv
<1>4. WindsDown /\ phase \in EndPhases => WindsToErase
      BY <1>3 DEF WindsDown, WindsToErase, Quitting, PhaseInv, ServingInv, EndPhases
<1>5. erasures # {} => phase \in EndPhases /\ ~WindsToErase
      BY DEF PhaseInv, ErasureInv
<1>6. restores # {} => phase = "Restoring"
      BY DEF PhaseInv, RestoreInv
<1>7. persisters # {} => phase = "Syncing" \/ WindsDown
      BY DEF PhaseInv, HeldInv
<1> QED BY <1>1, <1>2, <1>3, <1>4, <1>5, <1>6, <1>7


\* What a handler does that matters to the keyring: nothing, or it winds the
\* session down, starts one, or starts a restore, a sign-in or an undoing.
LeavesTasks == UNCHANGED <<restores, erasures, lane, keyring, issued, gone>>
Settles(kind) ==
    /\ LeavesTasks /\ UNCHANGED <<signIns, persisters, held, serving, after>>
    /\ phase' \in Fresh => phase \in Fresh \/ kind = "LocalStateCleared"
EndsTasks ==
    /\ LeavesTasks /\ UNCHANGED <<signIns, persisters, held>> /\ serving' = "winding"
    /\ \/ after'.then = "quit" /\ UNCHANGED phase
       \/ /\ after'.then \in {"erase", "suspend"} /\ phase' \in {"LoggingOut", "SoftLoggedOut"}
          /\ held.kind # "None" /\ after'.n = held.device
StartsSession(kind) ==
    /\ LeavesTasks /\ UNCHANGED <<signIns, serving, after>>
    /\ kind \in {"Restored", "LoggedIn", "Resumed"} /\ Activate(Input.cred)
StartsRestore ==
    /\ UNCHANGED <<erasures, keyring, issued, gone, signIns, persisters, held, serving, after>>
    /\ phase \in {"Starting", "RestorePaused"} /\ phase' = "Restoring"
    /\ restores' = restores \cup {[stage |-> "loading", cred |-> NoSession]}
    /\ Enqueue(Read("restore"))
StartsSignIn ==
    /\ LeavesTasks /\ UNCHANGED <<persisters, held, serving, after>>
    /\ \E method \in {"check", "password", "browser", "rePassword", "reBrowser"},
          armed \in BOOLEAN, device \in Nat :
          /\ signIns' = signIns \cup {SignIn(method, armed, device)}
          /\ \/ /\ device = 0 /\ method \in LoginMethods \cup {"check"}
                /\ phase = "LoggedOut" /\ phase' = "Authenticating"
             \/ /\ held.kind = "Suspended" /\ device = held.device
                /\ method \in {"rePassword", "reBrowser"}
                /\ phase = "SoftLoggedOut" /\ phase' = "Reauthenticating"
StartsUndoing(kind) ==
    /\ UNCHANGED <<restores, erasures, keyring, issued, gone, signIns, persisters, held, phase>>
    /\ kind = "LoggedIn" /\ serving' = "undoing" /\ after' = [then |-> "undo", n |-> Input.n]
    /\ Enqueue(Write("service", Input.cred.device, Input.was))
Stores(kind) ==
    /\ Take(kind)
    /\ \/ Settles(kind) \/ EndsTasks \/ StartsSession(kind) \/ StartsRestore \/ StartsSignIn
       \/ StartsUndoing(kind)

\* Whoever ends a session holds one.
LEMMA EndSessionStores ==
    ASSUME TypeInv, PhaseInv, NEW kind, Take(kind), EndSession, LeavesTasks,
           UNCHANGED <<signIns, held>>, phase \in {"Syncing", "SoftLoggedOut"}
    PROVE  Stores(kind)
<1>1. serving = "next" /\ Steady
      BY DEF Take, Steady
<1>2. held.kind # "None"
  <2>1. held.kind = "Running" \/ held.kind = "Suspended"
        BY <1>1 DEF PhaseInv, HeldInv, SoftPhases
  <2> QED BY <2>1
<1>3. /\ serving' = "winding" /\ after' = [then |-> "erase", n |-> held.device]
      /\ UNCHANGED persisters /\ phase' = "LoggingOut"
      BY <1>2 DEF EndSession, WindDown
<1> QED BY <1>2, <1>3 DEF Stores, EndsTasks

\* The commands are of these shapes.
LEMMA CommandStores ==
    ASSUME TypeInv, PhaseInv, HandleCommand
    PROVE  \E kind \in Commands : Stores(kind)
<1> USE DEF lifecycle, account, operations, background, storage, environment, history, Command,
            LeavesTasks
<1>1. CASE RefuseCommand
  <2>1. PICK kind \in Commands : Take(kind)
        BY <1>1 DEF RefuseCommand
  <2>2. Settles(kind)
        BY <1>1 DEF RefuseCommand, Settles
  <2> QED BY <2>1, <2>2 DEF Stores
<1>2. CASE RestoreSession
  <2>1. Take("RestoreSession") /\ phase \in {"Starting", "RestorePaused"}
        BY <1>2 DEF RestoreSession, Allowed
  <2>2. StartsRestore
        BY <1>2, <2>1 DEF RestoreSession, StartsRestore
  <2> QED BY <2>1, <2>2 DEF Stores, Commands
<1>3. CASE Authenticate
  <2>1. PICK kind \in {"CheckServer", "LoginPassword", "LoginOAuth"} :
            /\ Take(kind) /\ phase = "LoggedOut"
            /\ signIns' = signIns \cup {SignIn(MethodOf[kind], prepared, 0)}
        BY <1>3 DEF Authenticate, Allowed
  <2>2. MethodOf[kind] \in LoginMethods \cup {"check"}
        BY DEF MethodOf, LoginMethods
  <2>3. prepared \in BOOLEAN
        BY DEF TypeInv, LifecycleTypes
  <2>4. LeavesTasks /\ UNCHANGED <<persisters, held, serving, after>> /\ phase' = "Authenticating"
        BY <1>3 DEF Authenticate
  <2>5. StartsSignIn
        BY <2>1, <2>2, <2>3, <2>4 DEF StartsSignIn, LoginMethods
  <2> QED BY <2>1, <2>5 DEF Stores, Commands
<1>4. CASE Reauthenticate
  <2>1. PICK kind \in {"ReauthPassword", "ReauthOAuth"} :
            /\ Take(kind) /\ phase = "SoftLoggedOut"
            /\ \/ /\ held.kind = "Suspended" /\ phase' = "Reauthenticating"
                  /\ signIns' = signIns \cup {SignIn(MethodOf[kind], TRUE, held.device)}
               \/ UNCHANGED <<phase, signIns>>
            /\ LeavesTasks /\ UNCHANGED <<persisters, held, serving, after>>
        BY <1>4 DEF Reauthenticate, Allowed
  <2>2. MethodOf[kind] \in {"rePassword", "reBrowser"} /\ held.device \in Nat
        BY DEF MethodOf, TypeInv, LifecycleTypes
  <2>3. CASE UNCHANGED <<phase, signIns>>
    <3>1. Settles(kind)
          BY <2>1, <2>3 DEF Settles
    <3> QED BY <2>1, <3>1 DEF Stores, Commands
  <2>4. CASE /\ held.kind = "Suspended" /\ phase' = "Reauthenticating"
             /\ signIns' = signIns \cup {SignIn(MethodOf[kind], TRUE, held.device)}
    <3>1. StartsSignIn
          BY <2>1, <2>2, <2>4 DEF StartsSignIn
    <3> QED BY <2>1, <3>1 DEF Stores, Commands
  <2> QED BY <2>1, <2>3, <2>4
<1>5. CASE CancelOAuth
  <2>1. Take("CancelOAuth") /\ phase \in {"Authenticating", "Reauthenticating"}
        BY <1>5 DEF CancelOAuth, Allowed
  <2>2. Settles("CancelOAuth")
    <3>1. phase' \in Fresh => phase \in Fresh
          BY <1>5, <2>1 DEF CancelOAuth, CancelledPhase, Fresh, FirstAuth
    <3> QED BY <1>5, <3>1 DEF CancelOAuth, Settles
  <2> QED BY <2>1, <2>2 DEF Stores, Commands
<1>6. CASE CheckLogout
  <2>1. Take("Logout") /\ Settles("Logout")
        BY <1>6 DEF CheckLogout, Settles
  <2> QED BY <2>1 DEF Stores, Commands
<1>7. CASE LogoutUnchecked
  <2>1. Take("Logout") /\ phase \in {"Syncing", "SoftLoggedOut"} /\ EndSession
        BY <1>7 DEF LogoutUnchecked, Allowed
  <2>2. LeavesTasks /\ UNCHANGED <<signIns, held>>
        BY <1>7 DEF LogoutUnchecked
  <2> QED BY <2>1, <2>2, EndSessionStores DEF Commands
<1>8. CASE ConfirmLogout
  <2>1. Take("ConfirmLogout") /\ phase = "Syncing" /\ LeavesTasks /\ UNCHANGED <<signIns, held>>
        BY <1>8 DEF ConfirmLogout, Allowed
  <2>2. CASE EndSession
        BY <2>1, <2>2, EndSessionStores DEF Commands
  <2>3. CASE UNCHANGED <<phase, serving, after, background>>
    <3>1. Settles("ConfirmLogout")
          BY <2>1, <2>3 DEF Settles
    <3> QED BY <2>1, <3>1 DEF Stores, Commands
  <2> QED BY <1>8, <2>2, <2>3 DEF ConfirmLogout
<1>9. CASE CancelLogout
  <2>1. Take("CancelLogout") /\ Settles("CancelLogout")
        BY <1>9 DEF CancelLogout, Settles
  <2> QED BY <2>1 DEF Stores, Commands
<1>10. CASE Quit
  <2>1. Take("Quit") /\ EndsTasks
        BY <1>10 DEF Quit, WindDown, EndsTasks
  <2> QED BY <2>1 DEF Stores, Commands
<1> QED BY <1>1, <1>2, <1>3, <1>4, <1>5, <1>6, <1>7, <1>8, <1>9, <1>10 DEF HandleCommand


\* So are the events.
LEMMA EventStores ==
    ASSUME TypeInv, PhaseInv, HandleEvent
    PROVE  \E kind \in Events : Stores(kind)
<1> USE DEF account, operations, background, storage, environment, history, LeavesTasks
<1>1. CASE SettleRestore
  <2>1. Take("Restored")
        BY <1>1 DEF SettleRestore
  <2>2. StartsSession("Restored") \/ Settles("Restored")
        BY <1>1 DEF SettleRestore, StartsSession, Settles
  <2> QED BY <2>1, <2>2 DEF Stores, Events
<1>2. CASE SettleRestoreFailure
  <2>1. PICK kind \in {"RestoreFailed", "RestorePaused"} :
            Take(kind) /\ (UNCHANGED phase \/ phase = "Restoring")
        BY <1>2 DEF SettleRestoreFailure
  <2>2. Settles(kind)
        BY <1>2, <2>1 DEF SettleRestoreFailure, Rest, Settles, Fresh
  <2> QED BY <2>1, <2>2 DEF Stores, Events
<1>3. ASSUME NEW n, SettleAuth(n) PROVE phase' \in Fresh => phase \in Fresh
      BY <1>3 DEF SettleAuth, Settled, IdleAfterAuth, Fresh, FirstAuth
<1>4. CASE SettleDiscovery
  <2>1. Take("ServerDiscovered") /\ SettleAuth(Input.n)
        BY <1>4 DEF SettleDiscovery
  <2>2. Settles("ServerDiscovered")
        BY <1>3, <1>4, <2>1 DEF SettleDiscovery, Rest, Settles
  <2> QED BY <2>1, <2>2 DEF Stores, Events, Verdicts
<1>5. CASE SettleAuthFailure
  <2>1. PICK kind \in {"AuthRejected", "AuthCancelled"} : Take(kind)
        BY <1>5 DEF SettleAuthFailure
  <2>2. SettleAuth(Input.n)
        BY <1>5 DEF SettleAuthFailure
  <2>3. Settles(kind)
        BY <1>3, <1>5, <2>2 DEF SettleAuthFailure, Rest, Settles
  <2> QED BY <2>1, <2>3 DEF Stores, Events, Verdicts
<1>6. CASE SettleLogin
  <2>1. Take("LoggedIn") /\ StartsSession("LoggedIn")
        BY <1>6 DEF SettleLogin, StartsSession
  <2> QED BY <2>1 DEF Stores, Events, Verdicts
<1>7. CASE UndoSupersededLogin
  <2>1. Take("LoggedIn")
        BY <1>7 DEF UndoSupersededLogin
  <2>2. CASE phase' = "Blocked" /\ UNCHANGED <<serving, after, lane>>
    <3>1. phase \in FirstAuth
      <4>1. phase \in VerdictPhases("LoggedIn")
            BY <2>1, InputFacts DEF Verdicts
      <4> QED BY <4>1 DEF VerdictPhases
    <3>2. Settles("LoggedIn")
          BY <1>7, <2>2, <3>1 DEF UndoSupersededLogin, Settles, Fresh
    <3> QED BY <2>1, <3>2 DEF Stores, Events, Verdicts
  <2>3. CASE /\ serving' = "undoing" /\ after' = [then |-> "undo", n |-> Input.n]
             /\ Enqueue(Write("service", Input.cred.device, Input.was)) /\ UNCHANGED phase
    <3>1. StartsUndoing("LoggedIn")
          BY <1>7, <2>3 DEF UndoSupersededLogin, StartsUndoing
    <3> QED BY <2>1, <3>1 DEF Stores, Events, Verdicts
  <2> QED BY <1>7, <2>2, <2>3 DEF UndoSupersededLogin
<1>8. CASE SettleUnresolved
  <2>1. Take("LoginUnresolved") /\ phase' = "Blocked"
        BY <1>8 DEF SettleUnresolved
  <2>2. phase \in FirstAuth
    <3>1. phase \in VerdictPhases("LoginUnresolved")
          BY <2>1, InputFacts DEF Verdicts
    <3> QED BY <3>1 DEF VerdictPhases
  <2>3. Settles("LoginUnresolved")
        BY <1>8, <2>2 DEF SettleUnresolved, Rest, Settles, Fresh
  <2> QED BY <2>1, <2>3 DEF Stores, Events, Verdicts
<1>9. CASE SettleResume
  <2>1. Take("Resumed")
        BY <1>9 DEF SettleResume
  <2>2. CASE Activate(Input.cred)
    <3>1. StartsSession("Resumed")
          BY <1>9, <2>2 DEF SettleResume, StartsSession
    <3> QED BY <2>1, <3>1 DEF Stores, Events, Verdicts
  <2>3. CASE SettleAuth(Input.n) /\ UNCHANGED <<session, held, background>>
    <3>1. Settles("Resumed")
          BY <1>3, <1>9, <2>3 DEF SettleResume, Settles
    <3> QED BY <2>1, <3>1 DEF Stores, Events, Verdicts
  <2> QED BY <1>9, <2>2, <2>3 DEF SettleResume
<1>10. CASE SuspendSession
  <2>1. Take("Suspended")
        BY <1>10 DEF SuspendSession
  <2>2. CASE held.kind = "Running" /\ phase' = "SoftLoggedOut" /\ WindDown("suspend", held.device)
    <3>1. EndsTasks
          BY <1>10, <2>2 DEF SuspendSession, WindDown, EndsTasks
    <3> QED BY <2>1, <3>1 DEF Stores, Events, Losses
  <2>3. CASE UNCHANGED <<phase, serving, after, background>>
    <3>1. Settles("Suspended")
          BY <1>10, <2>3 DEF SuspendSession, Settles
    <3> QED BY <2>1, <3>1 DEF Stores, Events, Losses
  <2> QED BY <1>10, <2>2, <2>3 DEF SuspendSession
<1>11. CASE ExpireSession
  <2>1. Take("Expired") /\ LeavesTasks /\ UNCHANGED <<signIns, held>>
        BY <1>11 DEF ExpireSession
  <2>2. CASE phase \in {"Syncing", "SoftLoggedOut"} /\ EndSession
        BY <2>1, <2>2, EndSessionStores DEF Events, Losses
  <2>3. CASE UNCHANGED <<phase, serving, after, background>>
    <3>1. Settles("Expired")
          BY <2>1, <2>3 DEF Settles
    <3> QED BY <2>1, <3>1 DEF Stores, Events, Losses
  <2> QED BY <1>11, <2>2, <2>3 DEF ExpireSession, MayLogOut
<1>12. CASE LogoutChecked
  <2>1. PICK kind \in {"LogoutSafe", "LogoutRisky"} : Take(kind)
        BY <1>12 DEF LogoutChecked
  <2>2. LeavesTasks /\ UNCHANGED <<signIns, held>>
        BY <1>12 DEF LogoutChecked
  <2>3. CASE phase \in {"Syncing", "SoftLoggedOut"} /\ EndSession
        BY <2>1, <2>2, <2>3, EndSessionStores DEF Events
  <2>4. CASE UNCHANGED <<phase, serving, after, background>>
    <3>1. Settles(kind)
          BY <2>2, <2>4 DEF Settles
    <3> QED BY <2>1, <3>1 DEF Stores, Events
  <2> QED BY <1>12, <2>3, <2>4 DEF LogoutChecked, MayLogOut
<1>13. CASE SettleErasure
  <2>1. PICK kind \in {"ErasingLocalState", "LocalStateCleared"} :
            /\ Take(kind)
            /\ UNCHANGED phase \/ phase' = "CleaningUp" \/ kind = "LocalStateCleared"
        BY <1>13 DEF SettleErasure
  <2>2. Settles(kind)
        BY <1>13, <2>1 DEF SettleErasure, Rest, Settles, Fresh, FirstAuth
  <2> QED BY <2>1, <2>2 DEF Stores, Events
<1> QED BY <1>1, <1>2, <1>4, <1>5, <1>6, <1>7, <1>8, <1>9, <1>10, <1>11, <1>12, <1>13
        DEF HandleEvent


\* The lane is empty at first.
LEMMA InitLaneInv == Init => LaneInv
<1> SUFFICES ASSUME Init PROVE LaneInv
    OBVIOUS
<1>1. /\ lane = <<>> /\ inbox = <<>> /\ signIns = {} /\ restores = {} /\ erasures = {}
      /\ persisters = {} /\ serving = "next"
      BY DEF Init
<1>2. Waiting = {}
      BY <1>1, EmptyQueue DEF Waiting
<1> QED BY <1>1, <1>2 DEF LaneInv, LaneShape, OnlyPersister, ServiceLane

\* What waits in the inbox, and the phase it waits in.
LEMMA WaitingPhases ==
    ASSUME TypeInv, PhaseInv, NEW m \in Waiting
    PROVE  /\ m.kind \in {"LoggedIn", "LoginUnresolved"} => phase \in FirstAuth
           /\ m.kind = "Resumed" => phase \in ReAuth
           /\ m.kind \in Verdicts => signIns = {} \/ Quitting
           /\ m.kind \in Verdicts /\ m.kind # "LoginUnresolved" => m.n = attempt
           /\ m.kind \in RestoreEvents => phase = "Restoring" /\ restores = {}
           /\ m.kind = "LocalStateCleared" => phase \in EndPhases /\ erasures = {}
<1>1. inbox \in Seq(Message)
      BY DEF TypeInv, LoopTypes
<1>2. \A kinds : m.kind \in kinds => Pending(kinds) # 0 /\ Pending(kinds) \in Nat
      BY <1>1, NonePending
<1>3. /\ m.kind \in {"LoggedIn", "LoginUnresolved"} => phase \in FirstAuth
      /\ m.kind = "Resumed" => phase \in ReAuth
      /\ m.kind \in Verdicts /\ m.kind # "LoginUnresolved" => m.n = attempt
      BY DEF PhaseInv, AuthInv, Verdicts, VerdictPhases
<1>4. m.kind \in Verdicts => signIns = {} \/ Quitting
  <2>1. m.kind \in Verdicts => Pending(Verdicts) # 0
        BY <1>2
  <2> QED BY <2>1 DEF PhaseInv, OneAuth
<1>5. m.kind \in RestoreEvents => phase = "Restoring" /\ restores = {}
  <2>1. m.kind \in RestoreEvents => Pending(RestoreEvents) # 0
        BY <1>2
  <2> QED BY <2>1 DEF PhaseInv, RestoreInv
<1>6. m.kind = "LocalStateCleared" => phase \in EndPhases /\ erasures = {}
  <2>1. m.kind = "LocalStateCleared" => m.kind \in Cleared
        BY DEF Cleared
  <2>2. m.kind \in Cleared => Pending(Cleared) # 0
        BY <1>2
  <2> QED BY <2>1, <2>2 DEF PhaseInv, ErasureInv
<1> QED BY <1>3, <1>4, <1>5, <1>6

\* With no task about and no session held there is nothing in the lane.
LEMMA NothingInLane ==
    ASSUME LaneShape, Unowned, phase \in Fresh
    PROVE  lane = <<>>
<1>1. OnlyPersister /\ (lane = <<>> \/ \E c \in OwnCalls : lane = <<c>>)
      BY DEF LaneShape
<1> QED BY <1>1, ShortQueues DEF OnlyPersister, PersisterCalls, OwnCalls

\* Nor when a restore, a login or a resumption is about to become a session.
LEMMA NothingBeforeSession ==
    ASSUME TypeInv, PhaseInv, LaneInv, ~Quitting, serving # "undoing", NEW m \in Waiting,
           m.kind \in {"Restored", "LoggedIn", "Resumed"}
    PROVE  lane = <<>>
<1>1. CASE m.kind = "Resumed"
      BY <1>1 DEF LaneInv
<1>2. CASE m.kind = "LoggedIn"
  <2>1. phase \in FirstAuth /\ signIns = {}
        BY <1>2, WaitingPhases DEF Verdicts
  <2>2. restores = {} /\ erasures = {}
        BY <2>1, OneKindOfTask, PhaseFacts
  <2>3. Unowned /\ phase \in Fresh
        BY <2>1, <2>2 DEF Unowned, Fresh
  <2> QED BY <2>3, NothingInLane DEF LaneInv
<1>3. CASE m.kind = "Restored"
  <2>1. phase = "Restoring" /\ restores = {}
        BY <1>3, WaitingPhases DEF RestoreEvents
  <2>2. signIns = {} /\ erasures = {}
        BY <2>1, OneKindOfTask DEF AuthPhases, EndPhases
  <2>3. Unowned /\ phase \in Fresh
        BY <2>1, <2>2 DEF Unowned, Fresh
  <2> QED BY <2>3, NothingInLane DEF LaneInv
<1> QED BY <1>1, <1>2, <1>3

\* A step that puts nothing in the lane.
LEMMA LaneKept ==
    ASSUME LaneInv, UNCHANGED lane,
           signIns' \subseteq signIns, restores' \subseteq restores, erasures' \subseteq erasures,
           \A p \in persisters' : PersisterLane(p)',
           serving' = "undoing" => serving = "undoing",
           phase' \in Fresh => phase \in Fresh \/ lane = <<>>,
           Unowned' => OnlyPersister,
           \A m \in Waiting' : m.kind \in {"Resumed", "LocalStateCleared"} =>
               Quitting' \/ lane = <<>>
    PROVE  LaneInv'
<1>1. LaneShape'
  <2>1. OnlyPersister' <=> OnlyPersister
        BY DEF OnlyPersister
  <2>2. (OnlyPersister \/ \E c \in OwnCalls : Behind(c))'
        BY <2>1 DEF LaneInv, LaneShape, Behind
  <2>3. (phase \in Fresh => lane = <<>> \/ \E c \in OwnCalls : lane = <<c>>)'
        BY DEF LaneInv, LaneShape
  <2> QED BY <2>1, <2>2, <2>3 DEF LaneShape
<1>2. ServiceLane'
      BY DEF LaneInv, ServiceLane
<1>3. \A t \in signIns' : SignInLane(t)'
      BY DEF LaneInv, SignInLane, OnlyPersister, Behind
<1>4. \A r \in restores' : RestoreLane(r)'
      BY DEF LaneInv, RestoreLane
<1>5. \A e \in erasures' : ErasureLane(e)'
      BY DEF LaneInv, ErasureLane, OnlyPersister, Behind
<1> QED BY <1>1, <1>2, <1>3, <1>4, <1>5 DEF LaneInv

\* A step that leaves at most one call in the lane, of a task that goes on, or
\* behind a persister's. The owner's own clause is left to the step.
LEMMA LaneOwned ==
    ASSUME NEW c \in OwnCalls, Behind(c)', ~(Unowned'), persisters' = {},
           phase' \in Fresh => lane' = <<c>>,
           \A m \in Waiting' : m.kind \in {"Resumed", "LocalStateCleared"} => Quitting',
           serving' = "undoing" => lane' = <<c>> /\ c.who = "service" /\ c.op = "set",
           \A t \in signIns' : SignInLane(t)',
           \A r \in restores' : RestoreLane(r)',
           \A e \in erasures' : ErasureLane(e)'
    PROVE  LaneInv'
<1>1. LaneShape' /\ ServiceLane'
      BY DEF LaneShape, ServiceLane
<1> QED BY <1>1 DEF LaneInv


\* What a handler finds in the lane.
LEMMA LaneAtInput ==
    ASSUME TypeInv, PhaseInv, LaneInv, NEW kind, Take(kind)
    PROVE  /\ Unowned <=> signIns = {} /\ restores = {} /\ erasures = {}
           /\ Unowned => OnlyPersister
           /\ \A m \in Waiting' : m.kind \in {"Resumed", "LocalStateCleared"} => lane = <<>>
           /\ kind \in {"Restored", "LoggedIn", "Resumed", "LocalStateCleared"} => lane = <<>>
           /\ phase \notin AuthPhases => signIns = {}
           /\ phase # "Restoring" => restores = {}
           /\ phase \notin EndPhases => erasures = {}
           /\ phase # "Syncing" => persisters = {}
<1>1. /\ serving = "next" /\ ~Quitting /\ Input \in Waiting /\ Input.kind = kind
      /\ Waiting' \subseteq Waiting
      BY InputFacts
<1>2. Unowned <=> signIns = {} /\ restores = {} /\ erasures = {}
      BY <1>1 DEF Unowned
<1>3. \A m \in Waiting : m.kind \in {"Resumed", "LocalStateCleared"} => lane = <<>>
      BY <1>1 DEF LaneInv
<1>4. kind \in {"Restored", "LoggedIn", "Resumed", "LocalStateCleared"} => lane = <<>>
      BY <1>1, <1>3, NothingBeforeSession
<1>5. ~WindsDown
      BY <1>1 DEF WindsDown
<1> QED BY <1>1, <1>2, <1>3, <1>4, <1>5, OneKindOfTask DEF LaneInv, LaneShape

\* A handler keeps the lane, or starts the task that its new call is of.
LEMMA HandlerLane ==
    ASSUME TypeInv, PhaseInv, LaneInv, NEW kind, Stores(kind)
    PROVE  LaneInv'
<1> USE DEF LeavesTasks
<1>1. Take(kind)
      BY DEF Stores
<1>2. /\ serving = "next" /\ ~Quitting /\ Input \in Waiting /\ Input \in Message
      /\ Input.kind = kind /\ Waiting' \subseteq Waiting
      BY <1>1, InputFacts
<1>3. /\ Unowned <=> signIns = {} /\ restores = {} /\ erasures = {}
      /\ Unowned => OnlyPersister
      /\ \A m \in Waiting' : m.kind \in {"Resumed", "LocalStateCleared"} => lane = <<>>
      /\ kind \in {"Restored", "LoggedIn", "Resumed", "LocalStateCleared"} => lane = <<>>
      /\ phase \notin AuthPhases => signIns = {}
      /\ phase # "Restoring" => restores = {}
      /\ phase \notin EndPhases => erasures = {}
      /\ phase # "Syncing" => persisters = {}
      BY <1>1, LaneAtInput
<1>4. lane \in Seq(Calls)
      BY DEF TypeInv, StorageTypes
<1>5. lane = <<>> => OnlyPersister
      BY DEF OnlyPersister
<1>6. \A p \in persisters : UNCHANGED lane => PersisterLane(p)'
      BY DEF LaneInv, PersisterLane
<1>7. Unowned' => signIns' = {} /\ restores' = {} /\ erasures' = {} /\ serving' # "undoing"
      BY DEF Unowned
<1>8. CASE Settles(kind)
  <2>1. serving' # "undoing"
        BY <1>2, <1>8 DEF Settles
  <2>2. phase' \in Fresh => phase \in Fresh \/ lane = <<>>
        BY <1>3, <1>8 DEF Settles
  <2>3. Unowned' => OnlyPersister
        BY <1>3, <1>7, <1>8 DEF Settles
  <2>4. /\ UNCHANGED lane /\ signIns' \subseteq signIns /\ restores' \subseteq restores
        /\ erasures' \subseteq erasures /\ persisters' = persisters
        BY <1>8 DEF Settles
  <2> QED BY <1>3, <1>6, <2>1, <2>2, <2>3, <2>4, LaneKept
<1>9. CASE EndsTasks
  <2>1. serving' # "undoing"
        BY <1>9 DEF EndsTasks
  <2>2. phase' \in Fresh => phase \in Fresh \/ lane = <<>>
        BY <1>9 DEF EndsTasks, Fresh, FirstAuth
  <2>3. Unowned' => OnlyPersister
        BY <1>3, <1>7, <1>9 DEF EndsTasks
  <2>4. /\ UNCHANGED lane /\ signIns' \subseteq signIns /\ restores' \subseteq restores
        /\ erasures' \subseteq erasures /\ persisters' = persisters
        BY <1>9 DEF EndsTasks
  <2> QED BY <1>3, <1>6, <2>1, <2>2, <2>3, <2>4, LaneKept
<1>10. CASE StartsSession(kind)
  <2>1. lane = <<>> /\ UNCHANGED lane
        BY <1>3, <1>10 DEF StartsSession
  <2>2. \A p \in persisters' : PersisterLane(p)'
    <3>1. \A p \in persisters' : p.stage = "idle"
          BY <1>10 DEF StartsSession, Activate
    <3> QED BY <2>1, <3>1 DEF PersisterLane
  <2>3. serving' # "undoing"
        BY <1>2, <1>10 DEF StartsSession
  <2>4. /\ signIns' \subseteq signIns /\ restores' \subseteq restores
        /\ erasures' \subseteq erasures
        BY <1>10 DEF StartsSession
  <2> QED BY <1>5, <2>1, <2>2, <2>3, <2>4, LaneKept
<1>11. CASE StartsRestore
  <2>1. /\ phase \in {"Starting", "RestorePaused"} /\ phase' = "Restoring"
        /\ UNCHANGED <<erasures, signIns, persisters, serving>>
        /\ restores' = restores \cup {[stage |-> "loading", cred |-> NoSession]}
        /\ Enqueue(Read("restore"))
        BY <1>11 DEF StartsRestore
  <2>2. signIns = {} /\ restores = {} /\ erasures = {} /\ persisters = {} /\ phase \in Fresh
        BY <1>3, <2>1 DEF AuthPhases, EndPhases, Fresh
  <2>3. lane = <<>>
        BY <1>3, <2>2, NothingInLane DEF LaneInv
  <2>4. Read("restore") \in Calls /\ Read("restore") \in OwnCalls
        BY CallFacts DEF OwnCalls, Read
  <2>5. lane' = <<Read("restore")>>
        BY <1>4, <2>1, <2>3, <2>4, LanePuts
  <2>6. \A r \in restores' : RestoreLane(r)'
    <3>1. \A r \in restores' : r.stage = "loading"
          BY <2>1, <2>2
    <3> QED BY <2>5, <3>1 DEF RestoreLane
  <2>7. \A m \in Waiting' : m.kind \notin {"Resumed", "LocalStateCleared"}
        BY <1>2, <2>1, WaitingPhases DEF ReAuth, EndPhases
  <2>8. ~(Unowned')
        BY <1>7, <2>1
  <2>9. Behind(Read("restore"))' /\ serving' # "undoing"
        BY <1>2, <2>1, <2>5 DEF Behind
  <2> QED BY <2>1, <2>2, <2>4, <2>5, <2>6, <2>7, <2>8, <2>9, LaneOwned
<1>12. CASE StartsSignIn
  <2>1. PICK method \in {"check", "password", "browser", "rePassword", "reBrowser"},
             armed \in BOOLEAN, device \in Nat :
             /\ signIns' = signIns \cup {SignIn(method, armed, device)}
             /\ \/ phase = "LoggedOut" /\ phase' = "Authenticating"
                \/ phase = "SoftLoggedOut" /\ phase' = "Reauthenticating"
        BY <1>12 DEF StartsSignIn
  <2>2. UNCHANGED <<lane, restores, erasures, persisters, serving>>
        BY <1>12 DEF StartsSignIn
  <2>3. signIns = {} /\ restores = {} /\ erasures = {} /\ persisters = {}
        BY <1>3, <2>1 DEF AuthPhases, EndPhases
  <2>4. OnlyPersister
        BY <1>3, <2>3
  <2>5. OnlyPersister'
        BY <2>2, <2>4 DEF OnlyPersister
  <2>6. LaneShape'
    <3>1. (phase \in Fresh => lane = <<>> \/ \E c \in OwnCalls : lane = <<c>>)'
          BY <2>1, <2>2 DEF LaneInv, LaneShape, Fresh, FirstAuth
    <3> QED BY <2>5, <3>1 DEF LaneShape
  <2>7. \A t \in signIns' : SignInLane(t)'
    <3>1. \A t \in signIns' : t.stage = "asking"
          BY <2>1, <2>3 DEF SignIn
    <3> QED BY <2>5, <3>1 DEF SignInLane
  <2>8. \A m \in Waiting' : m.kind \notin {"Resumed", "LocalStateCleared"}
        BY <1>2, <2>1, WaitingPhases DEF ReAuth, EndPhases
  <2>9. ServiceLane'
        BY <1>2, <2>2 DEF ServiceLane
  <2> QED BY <2>2, <2>3, <2>6, <2>7, <2>8, <2>9 DEF LaneInv
<1>13. CASE StartsUndoing(kind)
  <2>0. Write("service", Input.cred.device, Input.was) \in Calls
    <3>1. Input.cred.device \in Nat /\ Input.was \in Credentials
          BY <1>2 DEF Message, Credentials
    <3> QED BY <3>1, CallFacts
  <2>1. PICK c \in Calls :
            /\ c = Write("service", Input.cred.device, Input.was)
            /\ UNCHANGED <<restores, erasures, signIns, persisters, phase>>
            /\ kind = "LoggedIn" /\ serving' = "undoing" /\ Enqueue(c)
        BY <1>13, <2>0 DEF StartsUndoing
  <2>2. c.who = "service" /\ c.op = "set"
        BY <2>1 DEF Write
  <2>3. lane' = <<c>> /\ c \in OwnCalls
        BY <1>3, <1>4, <2>1, <2>2, LanePuts DEF OwnCalls
  <2>4. phase \in FirstAuth /\ signIns = {}
    <3>1. "LoggedIn" \in Verdicts
          BY DEF Verdicts
    <3> QED BY <1>2, <2>1, <3>1, WaitingPhases
  <2>5. restores = {} /\ erasures = {} /\ persisters = {}
        BY <1>3, <2>4, PhaseFacts
  <2>6. \A m \in Waiting' : m.kind \notin {"Resumed", "LocalStateCleared"}
    <3>1. phase \notin ReAuth /\ phase \notin EndPhases
          BY <2>4, PhaseFacts DEF FirstAuth, ReAuth
    <3> QED BY <1>2, <3>1, WaitingPhases
  <2>7. ~(Unowned') /\ Behind(c)'
        BY <1>7, <2>1, <2>3 DEF Behind
  <2> QED BY <2>1, <2>2, <2>3, <2>4, <2>5, <2>6, <2>7, LaneOwned
<1> QED BY <1>8, <1>9, <1>10, <1>11, <1>12, <1>13 DEF Stores


\* What else is about while a task or a persister is.
LEMMA TasksAlone ==
    ASSUME TypeInv, PhaseInv
    PROVE  /\ signIns # {} =>
                 /\ restores = {} /\ erasures = {} /\ persisters = {} /\ serving # "undoing"
                 /\ \E t \in signIns : signIns = {t}
                 /\ \A m \in Waiting : m.kind \in {"Resumed", "LocalStateCleared"} => Quitting
           /\ restores # {} =>
                 /\ signIns = {} /\ erasures = {} /\ persisters = {} /\ serving # "undoing"
                 /\ \E r \in restores : restores = {r}
                 /\ \A m \in Waiting : m.kind \notin {"Resumed", "LocalStateCleared"}
           /\ erasures # {} =>
                 /\ signIns = {} /\ restores = {} /\ persisters = {} /\ serving # "undoing"
                 /\ \E e \in erasures : erasures = {e}
                 /\ \A m \in Waiting : m.kind \notin {"Resumed", "LocalStateCleared"}
                 /\ phase \notin Fresh
           /\ persisters # {} =>
                 /\ signIns = {} /\ restores = {} /\ erasures = {} /\ serving # "undoing"
                 /\ \E p \in persisters : persisters = {p} /\ p.session = session
                 /\ \A m \in Waiting : m.kind \notin {"Resumed", "LocalStateCleared"}
                 /\ phase \notin Fresh
<1>1. /\ signIns # {} => phase \in AuthPhases /\ serving # "undoing"
      /\ restores # {} => phase = "Restoring"
      /\ erasures # {} => phase \in EndPhases /\ ~WindsToErase
      /\ persisters # {} => phase = "Syncing" \/ WindsDown
      /\ serving = "undoing" => phase \in FirstAuth
      /\ WindsDown /\ phase \in EndPhases => WindsToErase
      /\ WindsDown => phase \in {"LoggingOut", "SoftLoggedOut"}
      BY OneKindOfTask
<1>2. \A m \in Waiting :
          /\ m.kind = "Resumed" => phase \in ReAuth /\ (signIns = {} \/ Quitting)
          /\ m.kind = "LocalStateCleared" => phase \in EndPhases /\ erasures = {} /\ ~WindsToErase
  <2> TAKE m \in Waiting
  <2>1. "Resumed" \in Verdicts
        BY DEF Verdicts
  <2>2. m.kind = "LocalStateCleared" => ~WindsToErase
    <3>1. inbox \in Seq(Message)
          BY DEF TypeInv, LoopTypes
    <3>2. m.kind = "LocalStateCleared" => Pending(Cleared) # 0
          BY <3>1, NonePending DEF Cleared
    <3> QED BY <3>2 DEF PhaseInv, ErasureInv
  <2> QED BY <2>1, <2>2, WaitingPhases
<1>3. /\ signIns = {} \/ \E t \in signIns : signIns = {t}
      /\ restores = {} \/ \E r \in restores : restores = {r}
      /\ erasures = {} \/ \E e \in erasures : erasures = {e}
      /\ persisters = {} \/ \E p \in persisters : persisters = {p} /\ p.session = session
      BY DEF PhaseInv, OneAuth, RestoreInv, ErasureInv, HeldInv
<1>4. /\ \A p \in AuthPhases : p \notin EndPhases \cup {"Restoring", "Syncing", "LoggingOut", "SoftLoggedOut"}
      /\ ReAuth \subseteq AuthPhases /\ FirstAuth \subseteq AuthPhases
      /\ \A p \in EndPhases : p \notin Fresh
      BY DEF AuthPhases, EndPhases, ReAuth, FirstAuth, Fresh
<1>5. /\ "Syncing" \notin Fresh /\ "LoggingOut" \notin Fresh /\ "SoftLoggedOut" \notin Fresh
      /\ "Restoring" \notin EndPhases /\ "Syncing" \notin EndPhases
      BY DEF Fresh, FirstAuth, EndPhases
<1>6. signIns # {} => restores = {} /\ erasures = {} /\ persisters = {}
      BY <1>1, <1>4
<1>7. restores # {} => signIns = {} /\ erasures = {} /\ persisters = {} /\ serving # "undoing"
      BY <1>1, <1>4, <1>5
<1>8. erasures # {} => /\ signIns = {} /\ restores = {} /\ persisters = {}
                       /\ serving # "undoing" /\ phase \notin Fresh
      BY <1>1, <1>4, <1>5
<1>9. persisters # {} => serving # "undoing" /\ phase \notin Fresh
      BY <1>1, <1>4, <1>5
<1>10. persisters # {} => phase \notin AuthPhases /\ (phase \in EndPhases => WindsToErase)
      BY <1>1, <1>4, <1>5
<1>11. signIns # {} => \A m \in Waiting : m.kind \in {"Resumed", "LocalStateCleared"} => Quitting
      BY <1>1, <1>2, <1>4
<1>12. restores # {} => \A m \in Waiting : m.kind \notin {"Resumed", "LocalStateCleared"}
      BY <1>1, <1>2, <1>4, <1>5
<1>13. erasures # {} => \A m \in Waiting : m.kind \notin {"Resumed", "LocalStateCleared"}
      BY <1>1, <1>2, <1>4
<1>14. persisters # {} => \A m \in Waiting : m.kind \notin {"Resumed", "LocalStateCleared"}
      BY <1>2, <1>4, <1>10
<1> QED BY <1>1, <1>3, <1>6, <1>7, <1>8, <1>9, <1>11, <1>12, <1>13, <1>14

\* While no session is held, a persister has left nothing in the lane.
LEMMA FreshLane ==
    ASSUME LaneInv, OnlyPersister, phase \in Fresh
    PROVE  lane = <<>>
BY ShortQueues DEF LaneInv, LaneShape, OnlyPersister, PersisterCalls, OwnCalls

\* A task of a sign-in goes on with a call.
LEMMA SignInCalls ==
    ASSUME TypeInv, PhaseInv, LaneInv, NEW t \in signIns, NEW next, NEW c \in Calls,
           Becomes(t, next), Enqueue(c), OnlyPersister, c.who = "signIn",
           UNCHANGED <<phase, inbox, serving, after, restores, erasures, persisters>>,
           Behind(c)' => SignInLane(next)'
    PROVE  LaneInv'
<1>1. /\ restores = {} /\ erasures = {} /\ persisters = {} /\ serving # "undoing"
      /\ signIns = {t}
      /\ \A m \in Waiting : m.kind \in {"Resumed", "LocalStateCleared"} => Quitting
      BY TasksAlone
<1>2. lane \in Seq(Calls)
      BY DEF TypeInv, StorageTypes
<1>3. Behind(c)' /\ (lane = <<>> => lane' = <<c>>)
      BY <1>2, LanePuts
<1>4. phase' \in Fresh => lane' = <<c>>
      BY <1>3, FreshLane
<1>5. signIns' = {next}
      BY <1>1 DEF Becomes
<1>6. Waiting' = Waiting /\ (Quitting' <=> Quitting)
      BY InboxStays DEF Quitting
<1>7. ~(Unowned') /\ c \in OwnCalls
      BY <1>5 DEF Unowned, OwnCalls
<1>8. \A t2 \in signIns' : SignInLane(t2)'
      BY <1>3, <1>5
<1> QED BY <1>1, <1>3, <1>4, <1>6, <1>7, <1>8, LaneOwned

\* A task of a sign-in ends.
LEMMA SignInLeaves ==
    ASSUME TypeInv, PhaseInv, LaneInv, NEW t \in signIns, NEW m \in Message, Reports(t, m),
           UNCHANGED <<phase, lane, serving, after, restores, erasures, persisters>>,
           t.stage \notin {"saving", "puttingBack"},
           m.kind \in {"Resumed", "LocalStateCleared"} => t.stage # "asking"
    PROVE  LaneInv'
<1>1. SignInLane(t) /\ t.stage \in SignInStages
  <2>1. t \in SignIns
        BY DEF TypeInv, TaskTypes
  <2> QED BY <2>1 DEF LaneInv, SignIns
<1>2. /\ OnlyPersister
      /\ t.stage # "asking" => lane = <<>>
      BY <1>1 DEF SignInLane, OnlyPersister, SignInStages
<1>3. Waiting' = Waiting \cup {m}
      BY SentFacts DEF Reports
<1>4. \A w \in Waiting' : w.kind \in {"Resumed", "LocalStateCleared"} => Quitting' \/ lane = <<>>
  <2>1. Quitting' <=> Quitting
        BY DEF Quitting
  <2> QED BY <1>2, <1>3, <2>1 DEF LaneInv
<1>5. \A p \in persisters' : PersisterLane(p)'
      BY DEF LaneInv, PersisterLane
<1>6. signIns' \subseteq signIns
      BY DEF Reports
<1> QED BY <1>2, <1>4, <1>5, <1>6, LaneKept

\* The steps of a sign-in keep the lane.
LEMMA SignInStepLane ==
    ASSUME TypeInv, PhaseInv, LaneInv, SignInStep
    PROVE  LaneInv'
<1>1. PICK t \in signIns :
          \/ SignInCancelled(t) \/ SignInRefused(t) \/ ServerChecked(t) \/ SignInGranted(t)
          \/ LoginEstablished(t) \/ LoginRollsBack(t) \/ LoginRolledBack(t) \/ LoginStuck(t)
          \/ SessionResumed(t)
      BY DEF SignInStep
<1>2. t \in SignIns /\ issued \in Nat
      BY DEF TypeInv, TaskTypes, StorageTypes
<1>3. UNCHANGED <<phase, serving, after, restores, erasures, persisters>>
      BY <1>1 DEF SignInCancelled, SignInRefused, ServerChecked, SignInGranted, LoginEstablished,
                  LoginRollsBack, LoginRolledBack, LoginStuck, SessionResumed, SignInRest,
                  lifecycle, background
<1>4. /\ t.attempt \in Nat /\ t.cred \in Credentials /\ t.was \in Credentials /\ t.device \in Nat
      BY <1>2 DEF SignIns
<1>5. SignInLane(t)
      BY DEF LaneInv
<1>6. CASE SignInCancelled(t) \/ SignInRefused(t) \/ LoginRolledBack(t) \/ ServerChecked(t)
  <2>1. PICK kind \in {"AuthCancelled", "AuthRejected", "ServerDiscovered"} :
            /\ Reports(t, Event(kind, t.attempt, 0)) /\ UNCHANGED lane
            /\ t.stage \in {"asking", "undone"}
        BY <1>6 DEF SignInCancelled, SignInRefused, LoginRolledBack, ServerChecked, Asking
  <2>2. Event(kind, t.attempt, 0) \in Message /\ Event(kind, t.attempt, 0).kind = kind
    <3>1. kind \in Commands \cup Events /\ 0 \in Nat
          BY DEF Events, Verdicts
    <3> QED BY <1>4, <3>1, MessageFacts
  <2> QED BY <1>3, <2>1, <2>2, SignInLeaves
<1>7. CASE LoginEstablished(t) \/ SessionResumed(t)
  <2>1. PICK kind \in {"LoggedIn", "Resumed"}, was \in {t.was, NoSession} :
            /\ Reports(t, Carrying(kind, t.attempt, t.cred, was)) /\ UNCHANGED lane
            /\ t.stage \in {"saved", "unsaved"}
        BY <1>7 DEF LoginEstablished, SessionResumed
  <2>2. Carrying(kind, t.attempt, t.cred, was) \in Message
    <3>1. was \in Credentials
          BY <1>4, <2>1, NoSessionTypes
    <3>2. kind \in Events
          BY DEF Events, Verdicts
    <3> QED BY <1>4, <3>1, <3>2, MessageFacts
  <2> QED BY <1>3, <2>1, <2>2, SignInLeaves
<1>8. CASE LoginStuck(t)
  <2>1. /\ Reports(t, Event("LoginUnresolved", 0, 0)) /\ UNCHANGED lane
        /\ t.stage \in {"saved", "unsaved", "undone", "stuck"}
        BY <1>8 DEF LoginStuck
  <2>2. Event("LoginUnresolved", 0, 0) \in Message
        BY MessageFacts DEF Events, Verdicts
  <2> QED BY <1>3, <2>1, <2>2, SignInLeaves
<1>9. CASE SignInGranted(t)
  <2> DEFINE made == [device |-> IF t.method \in LoginMethods THEN issued' ELSE t.device,
                      token |-> issued']
  <2>1. PICK cred : cred = made
        OBVIOUS
  <2>2. /\ issued' = issued + 1 /\ t.stage = "asking" /\ UNCHANGED inbox
        /\ Becomes(t, [t EXCEPT !.stage = "saving", !.cred = cred])
        /\ Enqueue(Write("signIn", t.attempt, cred))
        BY <1>9, <2>1 DEF SignInGranted, Asking
  <2>3. cred \in Credentials
    <3>1. issued' \in Nat
          BY <1>2, <2>2
    <3> QED BY <1>4, <2>1, <3>1 DEF Credentials
  <2> HIDE DEF made
  <2>4. Write("signIn", t.attempt, cred) \in Calls /\ Write("signIn", t.attempt, cred).who = "signIn"
        BY <1>4, <2>3, CallFacts
  <2>5. PICK next : next = [t EXCEPT !.stage = "saving", !.cred = cred]
        OBVIOUS
  <2>6. next.stage = "saving" /\ next.cred = cred /\ next.attempt = t.attempt
        BY <1>2, <2>5 DEF SignIns
  <2>7. OnlyPersister
        BY <1>5, <2>2 DEF SignInLane
  <2>8. PICK c \in Calls : c = Write("signIn", t.attempt, cred)
        BY <2>4
  <2>9. Behind(c)' => SignInLane(next)'
    <3>1. Behind(c)' => Behind(Write("signIn", next.attempt, next.cred))'
          BY <2>6, <2>8
    <3> QED BY <2>6, <3>1 DEF SignInLane
  <2> QED BY <1>3, <2>2, <2>4, <2>5, <2>7, <2>8, <2>9, SignInCalls
<1>10. CASE LoginRollsBack(t)
  <2>1. /\ t.stage \in {"saved", "unsaved"} /\ t.method \in LoginMethods /\ UNCHANGED inbox
        /\ Becomes(t, [t EXCEPT !.stage = "puttingBack"])
        /\ Enqueue(Write("signIn", t.attempt, t.was))
        BY <1>10 DEF LoginRollsBack
  <2>2. Write("signIn", t.attempt, t.was) \in Calls /\ Write("signIn", t.attempt, t.was).who = "signIn"
        BY <1>4, CallFacts
  <2>3. PICK next : next = [t EXCEPT !.stage = "puttingBack"]
        OBVIOUS
  <2>4. /\ next.stage = "puttingBack" /\ next.was = t.was /\ next.attempt = t.attempt
        /\ next.method = t.method
        BY <1>2, <2>3 DEF SignIns
  <2>5. OnlyPersister
        BY <1>5, <2>1 DEF SignInLane, OnlyPersister
  <2>6. PICK c \in Calls : c = Write("signIn", t.attempt, t.was)
        BY <2>2
  <2>7. Behind(c)' => SignInLane(next)'
    <3>1. Behind(c)' => Behind(Write("signIn", next.attempt, next.was))'
          BY <2>4, <2>6
    <3> QED BY <2>1, <2>4, <3>1 DEF SignInLane
  <2> QED BY <1>3, <2>1, <2>2, <2>3, <2>5, <2>6, <2>7, SignInCalls
<1> QED BY <1>1, <1>6, <1>7, <1>8, <1>9, <1>10


\* The steps of a restore keep the lane.
LEMMA RestoreStepLane ==
    ASSUME TypeInv, PhaseInv, LaneInv, RestoreStep
    PROVE  LaneInv'
<1>1. PICK r \in restores :
          RestoreFails(r) \/ RestorePauses(r) \/ RestoreSucceeds(r) \/ RestoreForgets(r)
      BY DEF RestoreStep
<1>2. r \in Restores /\ lane \in Seq(Calls)
      BY DEF TypeInv, TaskTypes, StorageTypes
<1>3. UNCHANGED <<phase, serving, after, signIns, erasures, persisters>>
      BY <1>1 DEF RestoreFails, RestorePauses, RestoreSucceeds, RestoreForgets, RestoreRest,
                  lifecycle, background
<1>4. /\ signIns = {} /\ erasures = {} /\ persisters = {} /\ serving # "undoing" /\ restores = {r}
      /\ \A m \in Waiting : m.kind \notin {"Resumed", "LocalStateCleared"}
      BY TasksAlone
<1>5. r.stage \in {"loaded", "absent", "unreadable"}
      BY <1>1 DEF RestoreFails, RestorePauses, RestoreSucceeds, RestoreForgets
<1>6. lane = <<>>
      BY <1>5 DEF LaneInv, RestoreLane
<1>7. CASE RestoreFails(r) \/ RestorePauses(r) \/ RestoreSucceeds(r)
  <2>1. PICK m \in Message :
            RestoreEnds(r, m) /\ m.kind \in {"RestoreFailed", "RestorePaused", "Restored"}
    <3>1. \A kind \in {"RestoreFailed", "RestorePaused"} :
              Event(kind, 0, 0) \in Message /\ Event(kind, 0, 0).kind = kind
          BY MessageFacts DEF Events
    <3>2. /\ Carrying("Restored", 0, r.cred, NoSession) \in Message
          /\ Carrying("Restored", 0, r.cred, NoSession).kind = "Restored"
      <4>1. r.cred \in Credentials
            BY <1>2 DEF Restores
      <4>2. "Restored" \in Events /\ 0 \in Nat
            BY DEF Events
      <4> QED BY <4>1, <4>2, MessageFacts, NoSessionTypes
    <3> QED BY <1>7, <3>1, <3>2 DEF RestoreFails, RestorePauses, RestoreSucceeds
  <2>2. Waiting' = Waiting \cup {m} /\ restores' \subseteq restores /\ UNCHANGED lane
        BY <2>1, SentFacts DEF RestoreEnds
  <2>3. OnlyPersister
        BY <1>6 DEF OnlyPersister
  <2> QED BY <1>3, <1>4, <1>6, <2>1, <2>2, <2>3, LaneKept
<1>8. CASE RestoreForgets(r)
  <2>1. Write("restore", 0, NoSession) \in Calls /\ Write("restore", 0, NoSession).who = "restore"
        BY CallFacts, NoSessionTypes
  <2>2. PICK c \in Calls : c = Write("restore", 0, NoSession)
        BY <2>1
  <2>3. PICK next : next = [r EXCEPT !.stage = "forgetting"]
        OBVIOUS
  <2>4. /\ Enqueue(c) /\ UNCHANGED inbox /\ restores' = {next}
        BY <1>4, <1>8, <2>2, <2>3 DEF RestoreForgets
  <2>5. next.stage = "forgetting"
        BY <1>2, <2>3 DEF Restores
  <2>6. lane' = <<c>> /\ c \in OwnCalls
        BY <1>2, <1>6, <2>1, <2>2, <2>4, LanePuts DEF OwnCalls
  <2>7. \A q \in restores' : RestoreLane(q)'
        BY <2>2, <2>4, <2>5, <2>6 DEF RestoreLane
  <2>8. Waiting' = Waiting
        BY <2>4, InboxStays
  <2>9. ~(Unowned') /\ Behind(c)'
        BY <2>4, <2>6 DEF Unowned, Behind
  <2> QED BY <1>3, <1>4, <2>4, <2>6, <2>7, <2>8, <2>9, LaneOwned
<1> QED BY <1>1, <1>7, <1>8

\* The steps of an erasure keep the lane.
LEMMA ErasureStepLane ==
    ASSUME TypeInv, PhaseInv, LaneInv, ErasureStep
    PROVE  LaneInv'
<1>1. PICK e \in erasures : ErasureBegins(e) \/ ErasureEnds(e)
      BY DEF ErasureStep
<1>2. e \in Erasures /\ lane \in Seq(Calls) /\ e.session \in Nat
      BY DEF TypeInv, TaskTypes, StorageTypes, Erasures
<1>3. UNCHANGED <<phase, serving, after, signIns, restores, persisters>>
      BY <1>1 DEF ErasureBegins, ErasureEnds, ErasureRest, lifecycle, background
<1>4. /\ signIns = {} /\ restores = {} /\ persisters = {} /\ serving # "undoing" /\ erasures = {e}
      /\ \A m \in Waiting : m.kind \notin {"Resumed", "LocalStateCleared"}
      /\ phase \notin Fresh
      BY TasksAlone
<1>5. \A kind \in {"ErasingLocalState", "LocalStateCleared"} :
          Event(kind, e.session, 0) \in Message /\ Event(kind, e.session, 0).kind = kind
  <2>1. \A kind \in {"ErasingLocalState", "LocalStateCleared"} : kind \in Commands \cup Events
        BY DEF Events
  <2>2. 0 \in Nat
        OBVIOUS
  <2> QED BY <1>2, <2>1, <2>2, MessageFacts
<1>6. CASE ErasureEnds(e)
  <2>1. e.stage = "cleared" /\ erasures' \subseteq erasures /\ UNCHANGED lane
        BY <1>6 DEF ErasureEnds
  <2>2. lane = <<>> /\ OnlyPersister
        BY <2>1 DEF LaneInv, ErasureLane, OnlyPersister
  <2> QED BY <1>3, <1>4, <2>1, <2>2, LaneKept
<1>7. CASE ErasureBegins(e)
  <2>1. /\ Write("erasure", e.session, NoSession) \in Calls
        /\ Write("erasure", e.session, NoSession).who = "erasure"
        BY <1>2, CallFacts, NoSessionTypes
  <2>2. PICK c \in Calls : c = Write("erasure", e.session, NoSession)
        BY <2>1
  <2>3. PICK next : next = [e EXCEPT !.stage = "clearing"]
        OBVIOUS
  <2>4. /\ Enqueue(c) /\ erasures' = {next} /\ e.stage = "leaving"
        /\ Send(Event("ErasingLocalState", e.session, 0))
        BY <1>4, <1>7, <2>2, <2>3 DEF ErasureBegins
  <2>5. next.stage = "clearing" /\ next.session = e.session
        BY <1>2, <2>3 DEF Erasures
  <2>6. OnlyPersister
        BY <2>4 DEF LaneInv, ErasureLane
  <2>7. Behind(c)' /\ c \in OwnCalls
        BY <1>2, <2>1, <2>2, <2>4, <2>6, LanePuts DEF OwnCalls
  <2>8. \A q \in erasures' : ErasureLane(q)'
    <3>1. Behind(Write("erasure", next.session, NoSession))'
          BY <2>2, <2>5, <2>7
    <3> QED BY <2>4, <2>5, <3>1 DEF ErasureLane
  <2>9. \A m \in Waiting' : m.kind \notin {"Resumed", "LocalStateCleared"}
        BY <1>4, <1>5, <2>4, SentFacts
  <2>10. ~(Unowned')
        BY <2>4 DEF Unowned
  <2> QED BY <1>3, <1>4, <2>4, <2>7, <2>8, <2>9, <2>10, LaneOwned
<1> QED BY <1>1, <1>6, <1>7

\* The persister goes on with a save.
LEMMA PersisterSaves ==
    ASSUME TypeInv, PhaseInv, LaneInv, NEW p \in persisters, NEW next,
           p.stage \in {"idle", "retry"}, next.stage \in {"saving", "flushing"},
           PersisterBecomes(p, next), next.dirty \in Credentials, next.session = p.session,
           Enqueue(Write("persister", next.session, next.dirty)),
           UNCHANGED <<phase, inbox, serving, after, signIns, restores, erasures>>
    PROVE  LaneInv'
<1>1. /\ signIns = {} /\ restores = {} /\ erasures = {} /\ serving # "undoing"
      /\ persisters = {p}
      /\ \A m \in Waiting : m.kind \notin {"Resumed", "LocalStateCleared"}
      /\ phase \notin Fresh
      BY TasksAlone
<1>2. p \in Persisters /\ lane \in Seq(Calls) /\ p.session \in Nat
      BY DEF TypeInv, BackgroundTypes, StorageTypes, Persisters
<1>3. PICK c \in Calls : c = Write("persister", next.session, next.dirty)
      BY <1>2, CallFacts
<1>4. c \in PersisterCalls
  <2>1. c.who = "persister" /\ c.op = "set"
        BY <1>3 DEF Write
  <2> QED BY <2>1 DEF PersisterCalls
<1>5. lane = <<>>
      BY DEF LaneInv, PersisterLane
<1>6. lane' = <<c>>
      BY <1>2, <1>3, <1>5, LanePuts
<1>7. persisters' = {next}
      BY <1>1 DEF PersisterBecomes
<1>8. \A q \in persisters' : PersisterLane(q)'
      BY <1>3, <1>6, <1>7 DEF PersisterLane
<1>9. LaneShape' /\ ServiceLane'
  <2>1. OnlyPersister'
        BY <1>4, <1>6 DEF OnlyPersister
  <2> QED BY <1>1, <2>1 DEF LaneShape, ServiceLane
<1>10. Waiting' = Waiting
      BY InboxStays
<1> QED BY <1>1, <1>8, <1>9, <1>10 DEF LaneInv

\* The persister goes on in the same place, or ends.
LEMMA PersisterStays ==
    ASSUME TypeInv, PhaseInv, LaneInv, UNCHANGED <<phase, inbox, lane, serving, after, signIns,
           restores, erasures>>,
           \/ persisters' \subseteq persisters
           \/ \E p \in persisters : \E next :
                 /\ PersisterBecomes(p, next) /\ next.stage = p.stage /\ next.dirty = p.dirty
                 /\ next.session = p.session
    PROVE  LaneInv'
<1>1. \A p \in persisters' : PersisterLane(p)'
  <2>1. \A p \in persisters' : \E q \in persisters :
            p.stage = q.stage /\ p.dirty = q.dirty /\ p.session = q.session
        BY DEF PersisterBecomes
  <2> QED BY <2>1 DEF LaneInv, PersisterLane
<1>2. Waiting' = Waiting /\ (Quitting' <=> Quitting)
      BY InboxStays DEF Quitting
<1>3. \A m \in Waiting' : m.kind \in {"Resumed", "LocalStateCleared"} => Quitting' \/ lane = <<>>
      BY <1>2 DEF LaneInv
<1>4. Unowned' => OnlyPersister
      BY <1>2 DEF LaneInv, LaneShape, Unowned
<1> QED BY <1>1, <1>3, <1>4, LaneKept

\* A task that only says something of another kind.
LEMMA TellsLane ==
    ASSUME TypeInv, LaneInv, NEW m \in Message, Send(m),
           m.kind \notin {"Resumed", "LocalStateCleared"},
           UNCHANGED <<phase, lane, serving, after, signIns, restores, erasures, persisters>>
    PROVE  LaneInv'
<1>1. \A p \in persisters' : PersisterLane(p)'
      BY DEF LaneInv, PersisterLane
<1>2. Waiting' = Waiting \cup {m} /\ (Quitting' <=> Quitting)
      BY SentFacts DEF Quitting
<1>3. \A w \in Waiting' : w.kind \in {"Resumed", "LocalStateCleared"} => Quitting' \/ lane = <<>>
      BY <1>2 DEF LaneInv
<1>4. Unowned' => OnlyPersister
      BY <1>2 DEF LaneInv, LaneShape, Unowned
<1> QED BY <1>1, <1>3, <1>4, LaneKept

\* The tasks of a running session keep the lane.
LEMMA BackgroundLane ==
    ASSUME TypeInv, PhaseInv, LaneInv, SyncStep \/ Refresh \/ PersisterStep \/ LogoutRisksRead
    PROVE  LaneInv'
<1> USE DEF lifecycle, operations
<1>1. CASE SyncStep
  <2>1. PICK s \in syncs : SyncEnds(s) \/ \E loss \in Losses : SessionLost(s, loss)
        BY <1>1 DEF SyncStep
  <2>2. UNCHANGED <<phase, serving, after, signIns, restores, erasures, persisters, lane>>
        BY <2>1 DEF SyncEnds, SessionLost, BackgroundRest
  <2>3. CASE SyncEnds(s)
    <3>1. UNCHANGED inbox
          BY <2>3 DEF SyncEnds
    <3> QED BY <2>2, <3>1, PersisterStays
  <2>4. CASE \E loss \in Losses : SessionLost(s, loss)
    <3>1. PICK loss \in Losses : Send(Event(loss, 0, s))
          BY <2>4 DEF SessionLost
    <3>2. Event(loss, 0, s) \in Message /\ Event(loss, 0, s).kind = loss
      <4>1. s \in Nat
            BY DEF TypeInv, BackgroundTypes, LifecycleTypes
      <4>2. loss \in Commands \cup Events /\ 0 \in Nat
            BY DEF Events
      <4> QED BY <4>1, <4>2, MessageFacts
    <3>3. loss \notin {"Resumed", "LocalStateCleared"}
          BY DEF Losses
    <3> QED BY <2>2, <3>1, <3>2, <3>3, TellsLane
  <2> QED BY <2>1, <2>3, <2>4
<1>2. CASE LogoutRisksRead
  <2>1. PICK c \in checks, kind \in {"LogoutSafe", "LogoutRisky"} :
            Send(Event(kind, c.request, c.session))
        BY <1>2 DEF LogoutRisksRead
  <2>2. Event(kind, c.request, c.session) \in Message
        /\ Event(kind, c.request, c.session).kind = kind
    <3>1. c.request \in Nat /\ c.session \in Nat
          BY DEF TypeInv, AccountTypes
    <3>2. kind \in Commands \cup Events
          BY DEF Events
    <3> QED BY <3>1, <3>2, MessageFacts
  <2>3. UNCHANGED <<phase, serving, after, signIns, restores, erasures, persisters, lane>>
        BY <1>2 DEF LogoutRisksRead, BackgroundRest
  <2> QED BY <2>1, <2>2, <2>3, TellsLane
<1>3. CASE Refresh
  <2>1. PICK p \in persisters : TokensRefreshed(p)
        BY <1>3 DEF Refresh
  <2>2. UNCHANGED <<phase, inbox, lane, serving, after, signIns, restores, erasures>>
        BY <2>1 DEF TokensRefreshed, BackgroundRest
  <2>3. PICK k : k = issued'
        OBVIOUS
  <2>4. PICK next : next = [p EXCEPT !.latest.token = k, !.fresh = TRUE]
        OBVIOUS
  <2>5. PersisterBecomes(p, next)
        BY <2>1, <2>3, <2>4 DEF TokensRefreshed
  <2>6. next.stage = p.stage /\ next.dirty = p.dirty /\ next.session = p.session
    <3>1. p \in Persisters
          BY DEF TypeInv, BackgroundTypes
    <3> QED BY <2>4, <3>1 DEF Persisters
  <2> QED BY <2>2, <2>5, <2>6, PersisterStays
<1>4. CASE PersisterStep
  <2>1. PICK p \in persisters :
            \/ PersisterStores(p) \/ PersisterRetries(p)
            \/ ListenerEnds(p) \/ PersisterFlushes(p) \/ PersisterEnds(p)
        BY <1>4 DEF PersisterStep
  <2>2. UNCHANGED <<phase, inbox, serving, after, signIns, restores, erasures>>
        BY <2>1 DEF PersisterStores, PersisterRetries, ListenerEnds, PersisterFlushes,
                    PersisterEnds, BackgroundRest
  <2>3. p \in Persisters
        BY DEF TypeInv, BackgroundTypes
  <2>4. CASE PersisterStores(p)
    <3>1. PICK next : next = [p EXCEPT !.fresh = FALSE, !.dirty = p.latest, !.stage = "saving"]
          OBVIOUS
    <3>2. /\ next.session = p.session /\ next.dirty = p.latest /\ next.stage = "saving"
          /\ p.latest \in Credentials
          BY <2>3, <3>1 DEF Persisters
    <3>3. /\ p.stage \in {"idle", "retry"} /\ PersisterBecomes(p, next)
          /\ Enqueue(Write("persister", next.session, next.dirty))
          BY <2>4, <3>1, <3>2 DEF PersisterStores
    <3> QED BY <2>2, <3>2, <3>3, PersisterSaves
  <2>5. CASE PersisterRetries(p) \/ PersisterFlushes(p)
    <3>1. PICK stage \in {"saving", "flushing"} :
              /\ p.stage = "retry" /\ PersisterBecomes(p, [p EXCEPT !.stage = stage])
              /\ Enqueue(Write("persister", p.session, p.dirty))
          BY <2>5 DEF PersisterRetries, PersisterFlushes
    <3>2. PICK next : next = [p EXCEPT !.stage = stage]
          OBVIOUS
    <3>3. /\ next.session = p.session /\ next.dirty = p.dirty /\ next.stage = stage
          /\ p.dirty \in Credentials
          BY <2>3, <3>2 DEF Persisters
    <3>4. Enqueue(Write("persister", next.session, next.dirty))
          BY <3>1, <3>3
    <3>5. /\ p.stage \in {"idle", "retry"} /\ next.stage \in {"saving", "flushing"}
          /\ next.dirty \in Credentials /\ next.session = p.session
          BY <3>1, <3>3
    <3>6. PersisterBecomes(p, next)
          BY <3>1, <3>2
    <3> QED BY <2>2, <3>4, <3>5, <3>6, PersisterSaves
  <2>6. CASE ListenerEnds(p)
    <3>1. PICK next : next = [p EXCEPT !.listening = FALSE]
          OBVIOUS
    <3>2. next.session = p.session /\ next.dirty = p.dirty /\ next.stage = p.stage
          BY <2>3, <3>1 DEF Persisters
    <3>3. PersisterBecomes(p, next) /\ UNCHANGED lane
          BY <2>6, <3>1 DEF ListenerEnds
    <3> QED BY <2>2, <3>2, <3>3, PersisterStays
  <2>7. CASE PersisterEnds(p)
    <3>1. persisters' \subseteq persisters /\ UNCHANGED lane
          BY <2>7 DEF PersisterEnds
    <3> QED BY <2>2, <3>1, PersisterStays
  <2> QED BY <2>1, <2>4, <2>5, <2>6, <2>7
<1> QED BY <1>1, <1>2, <1>3, <1>4


\* The rest of a handler that waited keeps the lane.
LEMMA ResumeLane ==
    ASSUME TypeInv, PhaseInv, LaneInv, Resume
    PROVE  LaneInv'
<1> USE DEF operations, background, storage
<1>1. UNCHANGED <<inbox, lane, persisters, signIns, restores, after>>
      BY DEF Resume, LoginUndone, WoundDown
<1>2. \A p \in persisters' : PersisterLane(p)'
      BY <1>1 DEF LaneInv, PersisterLane
<1>3. Waiting' = Waiting /\ (Quitting' <=> Quitting)
      BY <1>1, InboxStays DEF Quitting
<1>4. \A m \in Waiting' : m.kind \in {"Resumed", "LocalStateCleared"} => Quitting' \/ lane = <<>>
      BY <1>3 DEF LaneInv
<1>5. CASE LoginUndone
  <2>1. serving \in {"undone", "stuck"} /\ serving' = "next" /\ UNCHANGED erasures
        BY <1>5 DEF LoginUndone
  <2>2. phase \in Fresh
        BY <2>1 DEF PhaseInv, ServingInv, Undoing, Fresh
  <2>3. Unowned' => OnlyPersister
        BY <1>1, <1>3, <2>1 DEF Unowned, LaneInv, LaneShape
  <2> QED BY <1>1, <1>2, <1>4, <2>1, <2>2, <2>3, LaneKept
<1>6. CASE WoundDown
  <2>1. /\ serving = "winding" /\ Drained /\ serving' \in {"next", "stopped"}
        /\ after.then # "finish"
        BY <1>6 DEF WoundDown, PhaseInv, ServingInv, Quitting
  <2>2. UNCHANGED phase
        BY <1>6, <2>1 DEF WoundDown
  <2>3. \/ UNCHANGED erasures
        \/ after.then = "erase" /\ erasures' = {Erasure(session, after.n)}
        BY <1>6 DEF WoundDown
  <2>4. signIns = {} /\ restores = {} /\ erasures = {}
        BY <2>1 DEF Drained
  <2>5. Quitting \/ OnlyPersister
        BY <2>1, <2>4 DEF LaneInv, LaneShape, Unowned
  <2>6. CASE UNCHANGED erasures
    <3>1. Unowned' => OnlyPersister
          BY <1>3, <2>5 DEF Unowned
    <3> QED BY <1>1, <1>2, <1>4, <2>1, <2>2, <2>6, <3>1, LaneKept
  <2>7. CASE after.then = "erase" /\ erasures' = {Erasure(session, after.n)}
    <3>1. OnlyPersister
          BY <2>5, <2>7 DEF Quitting
    <3>2. OnlyPersister'
          BY <1>1, <3>1 DEF OnlyPersister
    <3>3. LaneShape'
      <4>1. (phase \in Fresh => lane = <<>> \/ \E c \in OwnCalls : lane = <<c>>)'
            BY <1>1, <2>2 DEF LaneInv, LaneShape
      <4> QED BY <3>2, <4>1 DEF LaneShape
    <3>4. \A e \in erasures' : ErasureLane(e)'
      <4>1. \A e \in erasures' : e.stage = "leaving"
            BY <2>7 DEF Erasure
      <4> QED BY <3>2, <4>1 DEF ErasureLane
    <3>5. ServiceLane'
          BY <2>1 DEF ServiceLane
    <3> QED BY <1>1, <1>2, <1>4, <2>4, <3>3, <3>4, <3>5 DEF LaneInv
  <2> QED BY <2>3, <2>6, <2>7
<1> QED BY <1>5, <1>6 DEF Resume

\* So does the end of the grace period.
LEMMA AbortLane ==
    ASSUME TypeInv, PhaseInv, LaneInv, AbortStragglers
    PROVE  LaneInv'
<1> USE DEF lifecycle, loop, storage
<1>1. /\ UNCHANGED <<phase, inbox, serving, after, lane>> /\ serving = "winding"
      /\ signIns' \subseteq signIns /\ restores' \subseteq restores
      /\ erasures' \subseteq erasures /\ persisters' \subseteq persisters
      BY DEF AbortStragglers
<1>2. \A p \in persisters' : PersisterLane(p)'
      BY <1>1 DEF LaneInv, PersisterLane
<1>3. Waiting' = Waiting /\ (Quitting' <=> Quitting)
      BY <1>1, InboxStays DEF Quitting
<1>4. \A m \in Waiting' : m.kind \in {"Resumed", "LocalStateCleared"} => Quitting' \/ lane = <<>>
      BY <1>3 DEF LaneInv
<1>5. Unowned' => OnlyPersister
  <2> SUFFICES ASSUME ~Quitting PROVE OnlyPersister
      BY <1>3 DEF Unowned
  <2>1. WindsDown
        BY <1>1 DEF PhaseInv, ServingInv, WindsDown
  <2>2. signIns = {} /\ restores = {} /\ erasures = {}
    <3>1. phase \notin AuthPhases /\ phase # "Restoring"
          BY <2>1, OneKindOfTask DEF AuthPhases
    <3>2. phase \in EndPhases => WindsToErase
          BY <2>1, OneKindOfTask
    <3> QED BY <3>1, <3>2, OneKindOfTask
  <2> QED BY <1>1, <2>2 DEF LaneInv, LaneShape, Unowned
<1> QED BY <1>1, <1>2, <1>4, <1>5, LaneKept

\* So does the user.
LEMMA UserLane ==
    ASSUME TypeInv, LaneInv, UserSends
    PROVE  LaneInv'
<1>1. PICK command \in Commands : Send(Event(command, 0, 0))
      BY DEF UserSends
<1>2. Event(command, 0, 0) \in Message /\ Event(command, 0, 0).kind = command
      BY MessageFacts
<1>3. command \notin {"Resumed", "LocalStateCleared"}
      BY DEF Commands
<1>4. UNCHANGED <<phase, lane, serving, after, signIns, restores, erasures, persisters>>
      BY DEF UserSends, lifecycle, operations, background, storage
<1> QED BY <1>1, <1>2, <1>3, <1>4, TellsLane

\* What a task is told leaves it where it no longer waits.
LEMMA HeardStages ==
    ASSUME keyring \in Credentials, NEW ok
    PROVE  /\ \A t \in SignIns : SignInHeard(t, ok).stage \in {"saved", "unsaved", "undone", "stuck"}
           /\ \A r \in Restores : RestoreHeard(r, ok).stage \in {"unreadable", "loaded", "absent"}
           /\ \A p \in Persisters : PersisterHeard(p, ok).stage \in {"idle", "retry", "flushed"}
           /\ \A e \in Erasures : [e EXCEPT !.stage = "cleared"].stage = "cleared"
<1>1. \A t \in SignIns : SignInHeard(t, ok).stage \in {"saved", "unsaved", "undone", "stuck"}
      BY DEF SignInHeard, SignIns
<1>2. \A r \in Restores : RestoreHeard(r, ok).stage \in {"unreadable", "loaded", "absent"}
      BY DEF RestoreHeard, Restores
<1>3. \A p \in Persisters : PersisterHeard(p, ok).stage \in {"idle", "retry", "flushed"}
      BY DEF PersisterHeard, Persisters
<1>4. \A e \in Erasures : [e EXCEPT !.stage = "cleared"].stage = "cleared"
      BY DEF Erasures
<1> QED BY <1>1, <1>2, <1>3, <1>4

\* An empty lane, and nobody that waits for it.
LEMMA EmptyLane ==
    ASSUME lane' = <<>>, serving' # "undoing",
           \A t \in signIns' : t.stage \notin {"saving", "puttingBack"},
           \A r \in restores' : r.stage \notin {"loading", "forgetting"},
           \A e \in erasures' : e.stage # "clearing",
           \A p \in persisters' : p.stage \notin {"saving", "flushing"}
    PROVE  LaneInv'
<1>1. OnlyPersister'
      BY DEF OnlyPersister
<1>2. LaneShape' /\ ServiceLane'
      BY <1>1 DEF LaneShape, ServiceLane
<1>3. \A t \in signIns' : SignInLane(t)'
      BY <1>1 DEF SignInLane
<1>4. \A r \in restores' : RestoreLane(r)'
      BY DEF RestoreLane
<1>5. \A e \in erasures' : ErasureLane(e)'
      BY <1>1 DEF ErasureLane
<1>6. \A p \in persisters' : PersisterLane(p)'
      BY DEF PersisterLane
<1> QED BY <1>2, <1>3, <1>4, <1>5, <1>6 DEF LaneInv

\* The call that is run keeps the lane.
LEMMA RunCallLane ==
    ASSUME TypeInv, PhaseInv, LaneInv, RunCall
    PROVE  LaneInv'
<1>1. PICK ok \in BOOLEAN : Answer(NextCall, ok)
      BY DEF RunCall
<1>2. UNCHANGED <<phase, inbox, after>>
      BY DEF RunCall, lifecycle
<1>3. /\ signIns' = {IF NextCall.who = "signIn" /\ t.attempt = NextCall.n
                     THEN SignInHeard(t, ok) ELSE t : t \in signIns}
      /\ restores' = {IF NextCall.who = "restore" THEN RestoreHeard(r, ok) ELSE r : r \in restores}
      /\ persisters' = {IF NextCall.who = "persister" /\ p.session = NextCall.n
                        THEN PersisterHeard(p, ok) ELSE p : p \in persisters}
      /\ erasures' = {IF NextCall.who = "erasure" /\ e.session = NextCall.n
                      THEN [e EXCEPT !.stage = "cleared"] ELSE e : e \in erasures}
      /\ serving' = IF NextCall.who # "service" THEN serving ELSE IF ok THEN "undone" ELSE "stuck"
      BY <1>1 DEF Answer
<1>4. /\ signIns \subseteq SignIns /\ restores \subseteq Restores /\ erasures \subseteq Erasures
      /\ persisters \subseteq Persisters /\ keyring \in Credentials
      BY DEF TypeInv, TaskTypes, BackgroundTypes, StorageTypes
<1>5. /\ \A t \in SignIns : SignInHeard(t, ok).stage \in {"saved", "unsaved", "undone", "stuck"}
      /\ \A r \in Restores : RestoreHeard(r, ok).stage \in {"unreadable", "loaded", "absent"}
      /\ \A p \in Persisters : PersisterHeard(p, ok).stage \in {"idle", "retry", "flushed"}
      /\ \A e \in Erasures : [e EXCEPT !.stage = "cleared"].stage = "cleared"
      BY <1>4, HeardStages
<1>6. /\ \A c \in PersisterCalls : c.who = "persister"
      /\ \A c \in OwnCalls : c.who # "persister"
      BY DEF PersisterCalls, OwnCalls
<1>7. ASSUME lane' = <<>>, serving' # "undoing",
             \A t \in signIns : t.stage \in {"saving", "puttingBack"} =>
                 NextCall.who = "signIn" /\ t.attempt = NextCall.n,
             \A r \in restores : r.stage \in {"loading", "forgetting"} => NextCall.who = "restore",
             \A e \in erasures : e.stage = "clearing" =>
                 NextCall.who = "erasure" /\ e.session = NextCall.n,
             \A p \in persisters : p.stage \in {"saving", "flushing"} =>
                 NextCall.who = "persister" /\ p.session = NextCall.n
      PROVE  LaneInv'
  <2>1. \A t \in signIns' : t.stage \notin {"saving", "puttingBack"}
        BY <1>3, <1>4, <1>5, <1>7
  <2>2. \A r \in restores' : r.stage \notin {"loading", "forgetting"}
        BY <1>3, <1>4, <1>5, <1>7
  <2>3. \A e \in erasures' : e.stage # "clearing"
        BY <1>3, <1>4, <1>5, <1>7
  <2>4. \A p \in persisters' : p.stage \notin {"saving", "flushing"}
        BY <1>3, <1>4, <1>5, <1>7
  <2> QED BY <1>7, <2>1, <2>2, <2>3, <2>4, EmptyLane
<1>8. ASSUME NEW w \in PersisterCalls, lane = <<w>>, NextCall = w, lane' = <<>>
      PROVE  LaneInv'
  <2>1. w.who = "persister"
        BY <1>6, <1>8
  <2>2. \A t \in signIns : t.stage \notin {"saving", "puttingBack"}
        BY <1>8, <2>1, ShortQueues DEF LaneInv, SignInLane, Behind, Write
  <2>3. \A r \in restores : r.stage \notin {"loading", "forgetting"}
        BY <1>8, <2>1, ShortQueues DEF LaneInv, RestoreLane, Read, Write
  <2>4. \A e \in erasures : e.stage # "clearing"
        BY <1>8, <2>1, ShortQueues DEF LaneInv, ErasureLane, Behind, Write
  <2>5. \A p \in persisters : p.stage \in {"saving", "flushing"} => p.session = w.n
        BY <1>8, ShortQueues DEF LaneInv, PersisterLane, Write
  <2>6. serving' # "undoing"
    <3>1. serving # "undoing"
          BY <1>6, <1>8, <2>1, ShortQueues DEF LaneInv, ServiceLane
    <3> QED BY <1>3, <1>8, <2>1, <3>1
  <2> QED BY <1>7, <1>8, <2>1, <2>2, <2>3, <2>4, <2>5, <2>6
<1>9. ASSUME NEW c \in OwnCalls, lane = <<c>>, NextCall = c, lane' = <<>>
      PROVE  LaneInv'
  <2>1. c.who # "persister"
        BY <1>6
  <2>2. \A t \in signIns : t.stage \in {"saving", "puttingBack"} =>
            c.who = "signIn" /\ t.attempt = c.n
        BY <1>9, ShortQueues DEF LaneInv, SignInLane, Behind, Write
  <2>3. \A r \in restores : r.stage \in {"loading", "forgetting"} => c.who = "restore"
        BY <1>9, ShortQueues DEF LaneInv, RestoreLane, Read, Write
  <2>4. \A e \in erasures : e.stage = "clearing" => c.who = "erasure" /\ e.session = c.n
        BY <1>9, ShortQueues DEF LaneInv, ErasureLane, Behind, Write
  <2>5. \A p \in persisters : p.stage \notin {"saving", "flushing"}
        BY <1>9, <2>1, ShortQueues DEF LaneInv, PersisterLane, Write
  <2>6. serving' # "undoing"
    <3>1. serving = "undoing" => c.who = "service"
          BY <1>9, ShortQueues DEF LaneInv, ServiceLane
    <3> QED BY <1>3, <1>9, <3>1
  <2> QED BY <1>7, <1>9, <2>2, <2>3, <2>4, <2>5, <2>6
<1>10. ASSUME NEW w \in PersisterCalls, NEW c \in OwnCalls, lane = <<w, c>>, NextCall = w,
              lane' = <<c>>
       PROVE  LaneInv'
  <2>1. w.who = "persister"
        BY <1>6
  <2>2. ~OnlyPersister /\ lane # <<>> /\ \A d : lane # <<d>>
        BY <1>10, ShortQueues DEF OnlyPersister
  <2>3. \A d : Behind(d) => d = c
        BY <1>10, ShortQueues DEF Behind
  <2>4. signIns' = signIns /\ erasures' = erasures /\ serving' = serving
        BY <1>3, <1>10, <2>1
  <2>5. restores = {} /\ persisters = {}
    <3>1. restores = {}
      <4>1. \A r \in restores : r.stage \in {"loading", "loaded", "absent", "unreadable", "forgetting"}
            BY <1>4 DEF Restores
      <4> QED BY <2>2, <4>1 DEF LaneInv, RestoreLane
    <3>2. persisters = {}
      <4>1. \A p \in persisters : p.stage \in {"idle", "saving", "retry", "flushing", "flushed"}
            BY <1>4 DEF Persisters
      <4> QED BY <2>2, <4>1 DEF LaneInv, PersisterLane
    <3> QED BY <3>1, <3>2
  <2>6. serving # "undoing"
        BY <2>2 DEF LaneInv, ServiceLane
  <2>7. Behind(c)'
        BY <1>10 DEF Behind
  <2>8. ~(Unowned')
    <3>1. ~Unowned
          BY <2>2 DEF LaneInv, LaneShape
    <3> QED BY <1>2, <2>4, <2>5, <2>6, <3>1 DEF Unowned, Quitting
  <2>9. phase' \notin Fresh
        BY <1>2, <2>2 DEF LaneInv, LaneShape
  <2>10. \A m \in Waiting' : m.kind \in {"Resumed", "LocalStateCleared"} => Quitting'
    <3>1. Waiting' = Waiting /\ (Quitting' <=> Quitting)
          BY <1>2, InboxStays DEF Quitting
    <3> QED BY <2>2, <3>1 DEF LaneInv
  <2>11. \A d : Behind(d) => Behind(d)'
        BY <2>3, <2>7
  <2>12. \A t \in signIns' : SignInLane(t)'
    <3>1. \A t \in signIns : SignInLane(t)
          BY DEF LaneInv
    <3> QED BY <2>2, <2>4, <2>11, <3>1 DEF SignInLane
  <2>13. \A e \in erasures' : ErasureLane(e)'
    <3>1. \A e \in erasures : ErasureLane(e)
          BY DEF LaneInv
    <3> QED BY <2>2, <2>4, <2>11, <3>1 DEF ErasureLane
  <2>14. restores' = {} /\ persisters' = {}
        BY <1>3, <2>5
  <2> QED BY <2>4, <2>6, <2>7, <2>8, <2>9, <2>10, <2>12, <2>13, <2>14, LaneOwned
<1>11. LaneShape
      BY DEF LaneInv
<1> QED BY <1>8, <1>9, <1>10, <1>11, LaneRuns

\* Every step keeps the lane.
LEMMA StepLane == TypeInv /\ PhaseInv /\ LaneInv /\ [Next]_vars => LaneInv'
<1> SUFFICES ASSUME TypeInv, PhaseInv, LaneInv, [Next]_vars PROVE LaneInv'
    OBVIOUS
<1>1. CASE HandleCommand \/ HandleEvent
      BY <1>1, CommandStores, EventStores, HandlerLane
<1>2. CASE Resume
      BY <1>2, ResumeLane
<1>3. CASE AbortStragglers
      BY <1>3, AbortLane
<1>4. CASE SignInStep
      BY <1>4, SignInStepLane
<1>5. CASE RestoreStep
      BY <1>5, RestoreStepLane
<1>6. CASE SyncStep \/ Refresh \/ PersisterStep \/ LogoutRisksRead
      BY <1>6, BackgroundLane
<1>7. CASE ErasureStep
      BY <1>7, ErasureStepLane
<1>8. CASE RunCall
      BY <1>8, RunCallLane
<1>9. CASE UserSends
      BY <1>9, UserLane
<1>10. CASE UNCHANGED vars
  <2>1. UNCHANGED <<phase, inbox, lane, serving, after, signIns, restores, erasures, persisters>>
        BY <1>10 DEF vars, lifecycle, loop, operations, background, storage
  <2> QED BY <2>1, PersisterStays
<1> QED BY <1>1, <1>2, <1>3, <1>4, <1>5, <1>6, <1>7, <1>8, <1>9, <1>10 DEF Next

\* The lane is always so.
LEMMA LaneAlways == Spec => [](TypeInv /\ PhaseInv /\ LaneInv)
<1>1. Init => LaneInv
      BY InitLaneInv
<1>2. TypeInv /\ PhaseInv /\ LaneInv /\ [Next]_vars => LaneInv'
      BY StepLane
<1> QED BY <1>1, <1>2, PhasesAlways, PTL DEF Spec


-----------------------------------------------------------------------------
(* What is written through the lane: nothing older than what it replaces, and *)
(* nothing of a device that is gone.                                          *)

NotOlder(a, b) == a.device = b.device => a.token >= b.token
Known(cred) ==
    cred.device <= issued /\ cred.token <= issued /\ (cred.device = 0 => cred.token = 0)
Safe(cred) == Known(cred) /\ cred.device \notin gone
Newer(cred) == Safe(cred) /\ NotOlder(cred, keyring)
Devices == 1..issued
Session(cred) == Newer(cred) /\ cred.device # 0

LaneCreds ==
    /\ \A c \in Calls : lane = <<c>> =>
          /\ c.op = "set" => Newer(c.cred)
          /\ serving = "undoing" => c.n \in Devices /\ c.cred.device # c.n
    /\ \A w \in Calls, c \in Calls : lane = <<w, c>> =>
          /\ w.op = "set" => Newer(w.cred)
          /\ c.op = "set" => Newer(c.cred) /\ NotOlder(c.cred, w.cred)
PersisterCreds(p) ==
    /\ Session(p.latest)
    /\ p.stage \in {"saving", "retry", "flushing"} =>
          NotOlder(p.latest, p.dirty) /\ Newer(p.dirty)
RestoreCreds(r) == r.stage = "loaded" => keyring = r.cred /\ r.cred.device # 0
LoginCreds(t) ==
    /\ t.device = 0
    /\ t.stage = "saving" => keyring.device # t.cred.device
    /\ t.stage \in {"saved", "unsaved", "puttingBack"} =>
          Safe(t.was) /\ t.was.device # t.cred.device /\ t.cred.device \in Devices
    /\ t.stage = "saved" => keyring = t.cred
    /\ t.stage = "unsaved" => keyring = t.was
SignInCreds(t) ==
    /\ t.method = "check" => t.device = 0
    /\ t.method \notin LoginMethods \cup {"check"} => t.device \in Devices \ gone
    /\ t.stage \in {"saving", "saved", "unsaved"} => Session(t.cred)
    /\ t.method \in LoginMethods => LoginCreds(t)
HeldCreds ==
    /\ held.kind # "None" => held.device \in Devices
    /\ held.kind # "None" /\ Steady => held.device \notin gone
    /\ WindsDown => after.n \in Devices \ gone
MessageCreds(m) ==
    /\ m.kind \in {"Restored", "LoggedIn"} => keyring = m.cred
    /\ m.kind \in {"Restored", "LoggedIn", "Resumed"} => Session(m.cred)
    /\ m.kind = "LoggedIn" => Safe(m.was) /\ m.was.device # m.cred.device

CredInv ==
    /\ Safe(keyring) /\ gone \subseteq Devices /\ LaneCreds /\ HeldCreds
    /\ \A p \in persisters : PersisterCreds(p)
    /\ \A r \in restores : RestoreCreds(r)
    /\ \A t \in signIns : SignInCreds(t)
    /\ \A e \in erasures : e.device \in Devices
    /\ ~Quitting => \A m \in Waiting : MessageCreds(m)

\* What is known stays so while nothing is written or goes.
LEMMA CredsStay ==
    ASSUME UNCHANGED <<keyring, gone>>, issued \in Nat, issued' \in {issued, issued + 1}
    PROVE  /\ Devices \subseteq Devices'
           /\ \A cred \in Credentials : /\ Safe(cred) => Safe(cred)'
                                        /\ Newer(cred) => Newer(cred)'
                                        /\ Session(cred) => Session(cred)'
<1>1. issued' \in Nat /\ issued <= issued'
      OBVIOUS
<1>2. Devices \subseteq Devices'
      BY <1>1 DEF Devices
<1>3. \A cred \in Credentials : Known(cred) => Known(cred)'
  <2> SUFFICES ASSUME NEW cred \in Credentials, Known(cred) PROVE Known(cred)'
      OBVIOUS
  <2>1. cred.device \in Nat /\ cred.token \in Nat
        BY DEF Credentials
  <2> QED BY <1>1, <2>1 DEF Known
<1>4. \A cred \in Credentials : Safe(cred) => Safe(cred)'
      BY <1>3 DEF Safe
<1>5. \A cred \in Credentials : Newer(cred) => Newer(cred)'
      BY <1>4 DEF Newer, NotOlder
<1>6. \A cred \in Credentials : Session(cred) => Session(cred)'
      BY <1>5 DEF Session
<1> QED BY <1>2, <1>4, <1>5, <1>6

\* Nothing of a device that is not there yet is gone, and NoSession never is.
LEMMA CredFacts ==
    ASSUME TypeInv, CredInv
    PROVE  /\ issued \in Nat /\ 0 \notin Devices /\ 0 \notin gone
           /\ keyring \in Credentials /\ keyring.device \in Nat /\ keyring.token \in Nat
           /\ keyring.device <= issued /\ keyring.token <= issued
           /\ keyring.device = 0 => keyring.token = 0 /\ keyring = NoSession
           /\ Newer(keyring) /\ Newer(NoSession)
           /\ \A cred \in Credentials : Session(cred) => cred.device \in Devices \ gone
           /\ \A cred \in Credentials : Safe(cred) => NotOlder(NoSession, cred)
<1>1. issued \in Nat /\ keyring \in Credentials
      BY DEF TypeInv, StorageTypes
<1>2. 0 \notin Devices /\ 0 \notin gone
      BY DEF CredInv, Devices
<1>3. keyring.device \in Nat /\ keyring.token \in Nat
      BY <1>1 DEF Credentials
<1>4. Safe(keyring)
      BY DEF CredInv
<1>5. Newer(keyring)
      BY <1>3, <1>4 DEF Newer, NotOlder
<1>6. keyring.device = 0 => keyring.token = 0 /\ keyring = NoSession
      BY <1>1, <1>4 DEF Safe, Known, NoSession, Credentials
<1>7. \A cred \in Credentials : Safe(cred) => NotOlder(NoSession, cred)
  <2> SUFFICES ASSUME NEW cred \in Credentials, Safe(cred) PROVE NotOlder(NoSession, cred)
      OBVIOUS
  <2>1. cred.device = 0 => cred.token = 0
        BY DEF Safe, Known
  <2> QED BY <2>1, NoSessionTypes DEF NotOlder
<1>8. Newer(NoSession)
  <2>1. Safe(NoSession)
        BY <1>1, <1>2, NoSessionTypes DEF Safe, Known
  <2> QED BY <1>1, <1>4, <1>7, <2>1 DEF Newer
<1>9. \A cred \in Credentials : Session(cred) => cred.device \in Devices \ gone
  <2> SUFFICES ASSUME NEW cred \in Credentials, Session(cred)
               PROVE  cred.device \in Devices \ gone
      OBVIOUS
  <2>1. cred.device \in Nat /\ cred.device # 0 /\ cred.device <= issued /\ cred.device \notin gone
        BY DEF Session, Newer, Safe, Known, Credentials
  <2> QED BY <1>1, <2>1 DEF Devices
<1>10. keyring.device <= issued /\ keyring.token <= issued
      BY <1>4 DEF Safe, Known
<1> QED BY <1>1, <1>2, <1>3, <1>5, <1>6, <1>7, <1>8, <1>9, <1>10

\* They hold at first.
LEMMA InitCredInv == Init => CredInv
<1> SUFFICES ASSUME Init PROVE CredInv
    OBVIOUS
<1>1. /\ lane = <<>> /\ inbox = <<>> /\ signIns = {} /\ restores = {} /\ erasures = {}
      /\ persisters = {} /\ serving = "next" /\ held.kind = "None" /\ gone = {} /\ issued = 1
      BY DEF Init
<1>2. Waiting = {}
      BY <1>1, EmptyQueue DEF Waiting
<1>3. keyring = NoSession \/ keyring = [device |-> 1, token |-> 1]
      BY DEF Init
<1>4. Safe(keyring)
      BY <1>1, <1>3 DEF Safe, Known, NoSession
<1>5. LaneCreds
      BY <1>1, ShortQueues DEF LaneCreds
<1>6. HeldCreds
      BY <1>1 DEF HeldCreds, WindsDown
<1> QED BY <1>1, <1>2, <1>4, <1>5, <1>6 DEF CredInv

\* A step that writes nothing: what it adds is as it should be.
LEMMA CredFrame ==
    ASSUME TypeInv, CredInv, UNCHANGED <<keyring, gone>>, issued' \in {issued, issued + 1},
           LaneCreds', HeldCreds',
           \A p \in persisters' : p \in persisters \/ PersisterCreds(p)',
           \A r \in restores' : r \in restores \/ r.stage # "loaded",
           \A t \in signIns' : t \in signIns \/ SignInCreds(t)',
           \A e \in erasures' : e \in erasures \/ e.device \in Devices,
           ~Quitting' => ~Quitting /\ \A m \in Waiting' : m \in Waiting \/ MessageCreds(m)'
    PROVE  CredInv'
<1>1. issued \in Nat
      BY DEF TypeInv, StorageTypes
<1>2. /\ Devices \subseteq Devices'
      /\ \A cred \in Credentials : /\ Safe(cred) => Safe(cred)'
                                   /\ Newer(cred) => Newer(cred)'
                                   /\ Session(cred) => Session(cred)'
      BY <1>1, CredsStay
<1>3. Safe(keyring)'
  <2>1. keyring \in Credentials /\ Safe(keyring)
        BY DEF CredInv, TypeInv, StorageTypes
  <2>2. PICK cred \in Credentials : cred = keyring
        BY <2>1
  <2>3. Safe(cred)'
        BY <1>2, <2>1, <2>2
  <2> QED BY <2>2, <2>3 DEF Safe, Known
<1>4. (gone \subseteq Devices)'
      BY <1>2 DEF CredInv
<1>5. \A p \in persisters : PersisterCreds(p)'
  <2> TAKE p \in persisters
  <2>1. p.latest \in Credentials /\ p.dirty \in Credentials
        BY DEF TypeInv, BackgroundTypes, Persisters
  <2>2. PersisterCreds(p)
        BY DEF CredInv
  <2> QED BY <1>2, <2>1, <2>2 DEF PersisterCreds, NotOlder
<1>6. \A r \in restores' : RestoreCreds(r)'
      BY DEF CredInv, RestoreCreds
<1>7. \A t \in signIns : SignInCreds(t)'
  <2> TAKE t \in signIns
  <2>1. t.cred \in Credentials /\ t.was \in Credentials
        BY DEF TypeInv, TaskTypes, SignIns
  <2>2. SignInCreds(t)
        BY DEF CredInv
  <2>3. t.method \in LoginMethods => LoginCreds(t)'
        BY <1>2, <2>1, <2>2 DEF SignInCreds, LoginCreds
  <2> QED BY <1>2, <2>1, <2>2, <2>3 DEF SignInCreds
<1>8. \A m \in Waiting : MessageCreds(m) => MessageCreds(m)'
  <2> TAKE m \in Waiting
  <2>1. m.cred \in Credentials /\ m.was \in Credentials
    <3>1. m \in Message
          BY DEF TypeInv, LoopTypes, Waiting, Elements
    <3> QED BY <3>1 DEF Message
  <2> QED BY <1>2, <2>1 DEF MessageCreds
<1>9. ~Quitting' => \A m \in Waiting' : MessageCreds(m)'
      BY <1>8 DEF CredInv
<1>10. \A e \in erasures' : e.device \in Devices'
      BY <1>2 DEF CredInv
<1>11. \A p \in persisters' : PersisterCreds(p)'
      BY <1>5
<1>12. \A t \in signIns' : SignInCreds(t)'
      BY <1>7
<1> QED BY <1>3, <1>4, <1>6, <1>9, <1>10, <1>11, <1>12 DEF CredInv


\* What is in the lane, and the session that is held, stay as they should be.
LEMMA LaneCredsStay ==
    ASSUME TypeInv, CredInv, UNCHANGED <<lane, keyring, gone>>, issued' \in {issued, issued + 1},
           serving' = "undoing" => serving = "undoing"
    PROVE  LaneCreds'
<1>1. issued \in Nat
      BY DEF TypeInv, StorageTypes
<1>2. /\ Devices \subseteq Devices'
      /\ \A cred \in Credentials : Newer(cred) => Newer(cred)'
      BY <1>1, CredsStay
<1>3. \A c \in Calls : c.cred \in Credentials
      BY DEF Calls
<1> QED BY <1>2, <1>3 DEF CredInv, LaneCreds

\* The same of the session that is held.
LEMMA HeldCredsStay ==
    ASSUME TypeInv, CredInv, UNCHANGED <<held, gone>>, issued' \in {issued, issued + 1},
           Steady' => Steady, WindsDown' => WindsDown /\ UNCHANGED after
    PROVE  HeldCreds'
<1>1. Devices \subseteq Devices'
      BY DEF TypeInv, StorageTypes, Devices
<1> QED BY <1>1 DEF CredInv, HeldCreds

\* A call that is put in the lane, alone or behind a persister's.
LEMMA LaneCredsPut ==
    ASSUME TypeInv, LaneInv, CredInv, OnlyPersister, NEW c \in Calls, Enqueue(c),
           UNCHANGED <<keyring, gone>>, issued' \in {issued, issued + 1},
           serving' = "undoing" => lane = <<>> /\ c.n \in Devices /\ c.cred.device # c.n,
           c.op = "set" => /\ Newer(c.cred)'
                           /\ \A w \in PersisterCalls : lane = <<w>> => NotOlder(c.cred, w.cred)
    PROVE  LaneCreds'
<1>1. issued \in Nat /\ lane \in Seq(Calls)
      BY DEF TypeInv, StorageTypes
<1>2. /\ Devices \subseteq Devices'
      /\ \A cred \in Credentials : Newer(cred) => Newer(cred)'
      BY <1>1, CredsStay
<1>3. CASE lane = <<>>
  <2>1. lane' = <<c>>
        BY <1>1, <1>3, LanePuts
  <2> QED BY <1>2, <2>1, ShortQueues DEF LaneCreds
<1>4. CASE \E w \in PersisterCalls : lane = <<w>>
  <2>1. PICK w \in PersisterCalls : lane = <<w>>
        BY <1>4
  <2>2. w \in Calls /\ w.cred \in Credentials /\ w.op = "set"
        BY DEF PersisterCalls, Calls
  <2>3. lane' = <<w, c>>
        BY <1>1, <2>1, <2>2, LanePuts
  <2>4. Newer(w.cred)
        BY <2>1, <2>2 DEF CredInv, LaneCreds
  <2>5. Newer(w.cred)'
        BY <1>2, <2>2, <2>4
  <2>6. c.op = "set" => Newer(c.cred)' /\ NotOlder(c.cred, w.cred)
        BY <2>1
  <2> QED BY <2>3, <2>5, <2>6, ShortQueues DEF LaneCreds
<1> QED BY <1>3, <1>4 DEF OnlyPersister

\* The handlers write nothing themselves, and what they start is as it should be.
LEMMA HandlerCreds ==
    ASSUME TypeInv, PhaseInv, LaneInv, CredInv, NEW kind, Stores(kind)
    PROVE  CredInv'
<1> USE DEF LeavesTasks
<1>1. Take(kind)
      BY DEF Stores
<1>2. /\ serving = "next" /\ ~Quitting /\ Steady /\ Input \in Waiting /\ Input \in Message
      /\ Input.kind = kind /\ Waiting' \subseteq Waiting
      BY <1>1, InputFacts
<1>3. UNCHANGED <<keyring, gone, issued>>
      BY DEF Stores, Settles, EndsTasks, StartsSession, StartsRestore, StartsSignIn, StartsUndoing
<1>4. \A m \in Waiting' : m \in Waiting
      BY <1>2
<1>5. /\ \A cred \in Credentials : Newer(cred) => Newer(cred)'
      /\ \A cred \in Credentials : Session(cred) => Session(cred)'
      BY <1>3 DEF Newer, Session, Safe, Known, NotOlder
<1>6. MessageCreds(Input) /\ Input.cred \in Credentials /\ Input.was \in Credentials
      BY <1>2 DEF CredInv, Message
<1>7. /\ held.kind # "None" => held.device \in Devices \ gone
      BY <1>2 DEF CredInv, HeldCreds
<1>8. Devices' = Devices
      BY <1>3 DEF Devices
<1>9. ASSUME UNCHANGED <<lane, signIns, restores, erasures>>, serving' # "undoing",
             HeldCreds', \A p \in persisters' : p \in persisters \/ PersisterCreds(p)'
      PROVE  CredInv'
  <2>1. LaneCreds'
        BY <1>3, <1>9, LaneCredsStay
  <2> QED BY <1>2, <1>3, <1>4, <1>9, <2>1, CredFrame
<1>10. CASE Settles(kind)
  <2>1. HeldCreds'
        BY <1>3, <1>10, HeldCredsStay DEF Settles, Steady, WindsDown
  <2>2. UNCHANGED <<lane, signIns, restores, erasures, persisters>> /\ serving' # "undoing"
        BY <1>2, <1>10 DEF Settles
  <2> QED BY <1>9, <2>1, <2>2
<1>11. CASE EndsTasks
  <2>1. /\ serving' = "winding" /\ UNCHANGED held
        /\ after'.then = "quit" \/ (held.kind # "None" /\ after'.n = held.device)
        BY <1>11 DEF EndsTasks
  <2>2. HeldCreds'
        BY <1>3, <1>7, <1>8, <2>1 DEF HeldCreds, WindsDown, Steady
  <2>3. UNCHANGED <<lane, signIns, restores, erasures, persisters>>
        BY <1>11 DEF EndsTasks
  <2> QED BY <1>9, <2>1, <2>2, <2>3
<1>12. CASE StartsSession(kind)
  <2>1. kind \in {"Restored", "LoggedIn", "Resumed"} /\ Activate(Input.cred) /\ UNCHANGED serving
        BY <1>12 DEF StartsSession
  <2>2. PICK cred \in Credentials : cred = Input.cred
        BY <1>6
  <2>3. Session(cred)
        BY <1>2, <1>6, <2>1, <2>2 DEF MessageCreds
  <2>4. cred.device \in Devices \ gone
        BY <2>3, CredFacts
  <2>5. held' = [kind |-> "Running", device |-> cred.device]
        BY <2>1, <2>2 DEF Activate
  <2>6. HeldCreds'
        BY <1>2, <1>3, <1>8, <2>1, <2>4, <2>5 DEF HeldCreds, WindsDown
  <2>7. \A p \in persisters' : PersisterCreds(p)'
    <3>1. \A p \in persisters' : p.latest = cred /\ p.stage = "idle"
          BY <2>1, <2>2 DEF Activate
    <3> QED BY <1>5, <2>3, <3>1 DEF PersisterCreds
  <2>8. UNCHANGED <<lane, signIns, restores, erasures>> /\ serving' # "undoing"
        BY <1>2, <1>12 DEF StartsSession
  <2> QED BY <1>9, <2>6, <2>7, <2>8
<1>13. CASE StartsRestore
  <2>1. /\ UNCHANGED <<erasures, signIns, persisters, held, serving, after>>
        /\ phase \in {"Starting", "RestorePaused"}
        /\ restores' = restores \cup {[stage |-> "loading", cred |-> NoSession]}
        /\ Enqueue(Read("restore"))
        BY <1>13 DEF StartsRestore
  <2>2. OnlyPersister
    <3>1. phase \notin AuthPhases /\ phase # "Restoring" /\ phase \notin EndPhases
          BY <2>1 DEF AuthPhases, EndPhases
    <3> QED BY <1>1, <3>1, LaneAtInput
  <2>3. PICK c \in Calls : c = Read("restore")
        BY CallFacts
  <2>4. c.op = "get"
        BY <2>3 DEF Read
  <2>5. LaneCreds'
        BY <1>2, <1>3, <2>1, <2>2, <2>3, <2>4, LaneCredsPut
  <2>6. HeldCreds'
        BY <1>3, <2>1, HeldCredsStay DEF Steady, WindsDown
  <2>7. \A r \in restores' : r \in restores \/ r.stage # "loaded"
        BY <2>1
  <2> QED BY <1>2, <1>3, <1>4, <2>1, <2>5, <2>6, <2>7, CredFrame
<1>14. CASE StartsSignIn
  <2>1. PICK method \in {"check", "password", "browser", "rePassword", "reBrowser"},
             armed \in BOOLEAN, device \in Nat :
             /\ signIns' = signIns \cup {SignIn(method, armed, device)}
             /\ \/ device = 0 /\ method \in LoginMethods \cup {"check"}
                \/ /\ held.kind = "Suspended" /\ device = held.device
                   /\ method \in {"rePassword", "reBrowser"}
        BY <1>14 DEF StartsSignIn
  <2>2. UNCHANGED <<lane, restores, erasures, persisters, held, serving, after>>
        BY <1>14 DEF StartsSignIn
  <2>3. \A t \in signIns' : t \in signIns \/ SignInCreds(t)'
    <3> SUFFICES ASSUME NEW t, t = SignIn(method, armed, device) PROVE SignInCreds(t)'
        BY <2>1
    <3>1. t.method = method /\ t.device = device /\ t.stage = "asking"
          BY DEF SignIn
    <3>2. method \in {"rePassword", "reBrowser"} => method \notin LoginMethods \cup {"check"}
          BY DEF LoginMethods
    <3>3. CASE device = 0 /\ method \in LoginMethods \cup {"check"}
          BY <3>1, <3>3 DEF SignInCreds, LoginCreds
    <3>4. CASE device \in Devices \ gone /\ method \in {"rePassword", "reBrowser"}
          BY <1>3, <1>8, <3>1, <3>2, <3>4 DEF SignInCreds
    <3> QED BY <1>7, <2>1, <3>3, <3>4
  <2>4. LaneCreds'
        BY <1>3, <2>2, LaneCredsStay
  <2>5. HeldCreds'
        BY <1>3, <2>2, HeldCredsStay DEF Steady, WindsDown
  <2> QED BY <1>2, <1>3, <1>4, <2>2, <2>3, <2>4, <2>5, CredFrame
<1>15. CASE StartsUndoing(kind)
  <2>1. Write("service", Input.cred.device, Input.was) \in Calls
    <3>1. Input.cred.device \in Nat
          BY <1>6 DEF Credentials
    <3> QED BY <1>6, <3>1, CallFacts
  <2>2. PICK c \in Calls : c = Write("service", Input.cred.device, Input.was)
        BY <2>1
  <2>3. /\ UNCHANGED <<restores, erasures, signIns, persisters, held>>
        /\ kind = "LoggedIn" /\ serving' = "undoing" /\ Enqueue(c)
        BY <1>15, <2>2 DEF StartsUndoing
  <2>4. lane = <<>> /\ OnlyPersister
    <3>1. lane = <<>>
          BY <1>1, <2>3, LaneAtInput
    <3> QED BY <3>1 DEF OnlyPersister
  <2>5. /\ keyring = Input.cred /\ Session(Input.cred)
        /\ Safe(Input.was) /\ Input.was.device # Input.cred.device
        BY <1>2, <1>6, <2>3 DEF MessageCreds
  <2>6. c.n = Input.cred.device /\ c.cred = Input.was
        BY <2>2 DEF Write
  <2>7. c.n \in Devices /\ c.cred.device # c.n
        BY <1>6, <2>5, <2>6, CredFacts
  <2>8. Newer(c.cred)'
    <3>1. Newer(Input.was)
          BY <2>5 DEF Newer, NotOlder
    <3> QED BY <1>5, <1>6, <2>6, <3>1
  <2>9. \A w \in PersisterCalls : lane # <<w>>
        BY <2>4, ShortQueues
  <2>10. LaneCreds'
        BY <1>3, <2>3, <2>4, <2>7, <2>8, <2>9, LaneCredsPut
  <2>11. HeldCreds'
        BY <1>2, <1>3, <2>3, HeldCredsStay DEF WindsDown
  <2> QED BY <1>2, <1>3, <1>4, <2>3, <2>10, <2>11, CredFrame
<1> QED BY <1>10, <1>11, <1>12, <1>13, <1>14, <1>15 DEF Stores


\* A task that leaves the lane, the session that is held and the loop alone.
LEMMA TaskCreds ==
    ASSUME TypeInv, CredInv, UNCHANGED <<lane, keyring, gone, held, serving, after>>,
           issued' \in {issued, issued + 1},
           \A p \in persisters' : p \in persisters \/ PersisterCreds(p)',
           restores' \subseteq restores, signIns' \subseteq signIns, erasures' \subseteq erasures,
           \/ UNCHANGED inbox
           \/ \E m \in Message : Send(m) /\ MessageCreds(m)'
    PROVE  CredInv'
<1>1. LaneCreds'
      BY LaneCredsStay
<1>2. HeldCreds'
      BY HeldCredsStay DEF Steady, WindsDown
<1>3. ~Quitting' => ~Quitting /\ \A m \in Waiting' : m \in Waiting \/ MessageCreds(m)'
  <2>1. Quitting' <=> Quitting
        BY DEF Quitting
  <2>2. CASE UNCHANGED inbox
        BY <2>1, <2>2, InboxStays
  <2>3. CASE \E m \in Message : Send(m) /\ MessageCreds(m)'
        BY <2>1, <2>3, SentFacts
  <2> QED BY <2>2, <2>3
<1> QED BY <1>1, <1>2, <1>3, CredFrame

\* Messages that carry nothing.
LEMMA PlainMessages ==
    ASSUME NEW m, m.kind \notin {"Restored", "LoggedIn", "Resumed"}
    PROVE  MessageCreds(m)'
BY DEF MessageCreds

\* A token that is issued is newer than any other, and so is what holds it.
LEMMA IssuedIsNewer ==
    ASSUME TypeInv, CredInv, UNCHANGED <<keyring, gone>>, issued' = issued + 1,
           NEW cred \in Credentials, cred.token = issued', cred.device \in Devices',
           cred.device \notin gone
    PROVE  Session(cred)' /\ \A w \in Credentials : Safe(w) => NotOlder(cred, w)
<1>1. /\ issued \in Nat /\ keyring.token \in Nat /\ keyring.token <= issued
      /\ cred.device \in Nat /\ cred.token \in Nat
      BY CredFacts DEF Credentials
<1>2. cred.device <= issued' /\ cred.device # 0 /\ issued' = issued + 1
      BY <1>1 DEF Devices
<1>3. Safe(cred)'
      BY <1>1, <1>2 DEF Safe, Known
<1>4. NotOlder(cred, keyring)'
      BY <1>1 DEF NotOlder
<1>5. \A w \in Credentials : Safe(w) => NotOlder(cred, w)
  <2> SUFFICES ASSUME NEW w \in Credentials, Safe(w) PROVE NotOlder(cred, w)
      OBVIOUS
  <2>1. w.token \in Nat /\ w.token <= issued
        BY DEF Safe, Known, Credentials
  <2> QED BY <1>1, <2>1 DEF NotOlder
<1> QED BY <1>2, <1>3, <1>4, <1>5 DEF Session, Newer

\* A task of a sign-in goes on with a call.
LEMMA SignInCallsCreds ==
    ASSUME TypeInv, PhaseInv, LaneInv, CredInv, OnlyPersister,
           NEW t \in signIns, NEW next, NEW c \in Calls,
           Becomes(t, next), Enqueue(c),
           UNCHANGED <<inbox, keyring, gone, held, serving, after, restores, erasures, persisters>>,
           issued' \in {issued, issued + 1}, SignInCreds(next)', Newer(c.cred)',
           \A w \in PersisterCalls : lane = <<w>> => NotOlder(c.cred, w.cred)
    PROVE  CredInv'
<1>1. serving # "undoing"
      BY TasksAlone
<1>2. LaneCreds'
      BY <1>1, LaneCredsPut
<1>3. HeldCreds'
      BY HeldCredsStay DEF Steady, WindsDown
<1>4. \A t2 \in signIns' : t2 \in signIns \/ SignInCreds(t2)'
      BY DEF Becomes
<1>5. Waiting' = Waiting /\ (Quitting' <=> Quitting)
      BY InboxStays DEF Quitting
<1> QED BY <1>2, <1>3, <1>4, <1>5, CredFrame

\* The steps of a sign-in.
LEMMA SignInStepCreds ==
    ASSUME TypeInv, PhaseInv, LaneInv, CredInv, SignInStep
    PROVE  CredInv'
<1>1. PICK t \in signIns :
          \/ SignInCancelled(t) \/ SignInRefused(t) \/ ServerChecked(t) \/ SignInGranted(t)
          \/ LoginEstablished(t) \/ LoginRollsBack(t) \/ LoginRolledBack(t) \/ LoginStuck(t)
          \/ SessionResumed(t)
      BY DEF SignInStep
<1>2. t \in SignIns /\ issued \in Nat
      BY DEF TypeInv, TaskTypes, StorageTypes
<1>3. UNCHANGED <<keyring, gone, held, serving, after, restores, erasures, persisters>>
      BY <1>1 DEF SignInCancelled, SignInRefused, ServerChecked, SignInGranted, LoginEstablished,
                  LoginRollsBack, LoginRolledBack, LoginStuck, SessionResumed, SignInRest,
                  lifecycle, background, history
<1>4. /\ t.attempt \in Nat /\ t.cred \in Credentials /\ t.was \in Credentials /\ t.device \in Nat
      /\ t.method \in {"check", "password", "browser", "rePassword", "reBrowser"}
      BY <1>2 DEF SignIns
<1>5. SignInLane(t) /\ SignInCreds(t)
      BY DEF LaneInv, CredInv
<1>6. ASSUME UNCHANGED issued
      PROVE  \A cred \in Credentials : /\ Safe(cred) => Safe(cred)'
                                       /\ Newer(cred) => Newer(cred)'
                                       /\ Session(cred) => Session(cred)'
      BY <1>2, <1>3, <1>6, CredsStay
<1>7. ASSUME NEW m \in Message, Reports(t, m), UNCHANGED <<lane, issued>>, MessageCreds(m)'
      PROVE  CredInv'
  <2>1. signIns' \subseteq signIns /\ Send(m)
        BY <1>7 DEF Reports
  <2> QED BY <1>3, <1>7, <2>1, TaskCreds
<1>8. CASE SignInCancelled(t) \/ SignInRefused(t) \/ LoginRolledBack(t) \/ ServerChecked(t)
  <2>1. PICK kind \in {"AuthCancelled", "AuthRejected", "ServerDiscovered"} :
            Reports(t, Event(kind, t.attempt, 0)) /\ UNCHANGED <<lane, issued>>
        BY <1>8 DEF SignInCancelled, SignInRefused, LoginRolledBack, ServerChecked
  <2>2. Event(kind, t.attempt, 0) \in Message /\ Event(kind, t.attempt, 0).kind = kind
    <3>1. kind \in Commands \cup Events /\ 0 \in Nat
          BY DEF Events, Verdicts
    <3> QED BY <1>4, <3>1, MessageFacts
  <2>3. PICK m \in Message : m = Event(kind, t.attempt, 0)
        BY <2>2
  <2>4. MessageCreds(m)'
        BY <2>2, <2>3, PlainMessages
  <2> QED BY <1>7, <2>1, <2>3, <2>4
<1>9. CASE LoginStuck(t)
  <2>1. Reports(t, Event("LoginUnresolved", 0, 0)) /\ UNCHANGED <<lane, issued>>
        BY <1>9 DEF LoginStuck
  <2>2. /\ Event("LoginUnresolved", 0, 0) \in Message
        /\ Event("LoginUnresolved", 0, 0).kind = "LoginUnresolved"
        BY MessageFacts DEF Events, Verdicts
  <2>3. PICK m \in Message : m = Event("LoginUnresolved", 0, 0)
        BY <2>2
  <2>4. MessageCreds(m)'
        BY <2>2, <2>3, PlainMessages
  <2> QED BY <1>7, <2>1, <2>3, <2>4
<1>10. CASE LoginEstablished(t)
  <2>1. /\ Reports(t, Carrying("LoggedIn", t.attempt, t.cred, t.was)) /\ UNCHANGED <<lane, issued>>
        /\ t.method \in LoginMethods /\ t.stage = "saved"
        BY <1>10 DEF LoginEstablished
  <2>2. "LoggedIn" \in Events
        BY DEF Events, Verdicts
  <2>3. PICK m \in Message : m = Carrying("LoggedIn", t.attempt, t.cred, t.was)
        BY <1>4, <2>2, MessageFacts
  <2>4. m.kind = "LoggedIn" /\ m.cred = t.cred /\ m.was = t.was
        BY <2>3 DEF Carrying
  <2>5. /\ keyring = t.cred /\ Session(t.cred) /\ Safe(t.was) /\ t.was.device # t.cred.device
        BY <1>5, <2>1 DEF SignInCreds, LoginCreds
  <2>6. MessageCreds(m)'
        BY <1>3, <1>4, <1>6, <2>1, <2>4, <2>5 DEF MessageCreds
  <2> QED BY <1>7, <2>1, <2>3, <2>6
<1>11. CASE SessionResumed(t)
  <2>1. /\ Reports(t, Carrying("Resumed", t.attempt, t.cred, NoSession)) /\ UNCHANGED <<lane, issued>>
        /\ t.stage \in {"saved", "unsaved"}
        BY <1>11 DEF SessionResumed
  <2>2. "Resumed" \in Events
        BY DEF Events, Verdicts
  <2>3. PICK m \in Message : m = Carrying("Resumed", t.attempt, t.cred, NoSession)
        BY <1>4, <2>2, MessageFacts, NoSessionTypes
  <2>4. m.kind = "Resumed" /\ m.cred = t.cred
        BY <2>3 DEF Carrying
  <2>5. Session(t.cred)
        BY <1>5, <2>1 DEF SignInCreds
  <2>6. MessageCreds(m)'
        BY <1>3, <1>4, <1>6, <2>1, <2>4, <2>5 DEF MessageCreds
  <2> QED BY <1>7, <2>1, <2>3, <2>6
<1>12. CASE SignInGranted(t)
  <2> DEFINE made == [device |-> IF t.method \in LoginMethods THEN issued' ELSE t.device,
                      token |-> issued']
  <2>1. PICK cred : cred = made
        OBVIOUS
  <2>2. /\ issued' = issued + 1 /\ t.stage = "asking" /\ t.method # "check" /\ UNCHANGED inbox
        /\ Becomes(t, [t EXCEPT !.stage = "saving", !.cred = cred])
        /\ Enqueue(Write("signIn", t.attempt, cred))
        BY <1>12, <2>1 DEF SignInGranted, Asking
  <2>3. issued' \in Nat /\ issued' \notin Devices /\ issued' \in Devices' /\ Devices \subseteq Devices'
        BY <1>2, <2>2 DEF Devices
  <2>4. /\ cred \in Credentials /\ cred.token = issued'
        /\ t.method \in LoginMethods => cred.device = issued'
        /\ t.method \notin LoginMethods => cred.device = t.device
        BY <1>4, <2>1, <2>3 DEF Credentials
  <2> HIDE DEF made
  <2>5. cred.device \in Devices' /\ cred.device \notin gone
    <3>1. CASE t.method \in LoginMethods
          BY <2>3, <2>4, <3>1 DEF CredInv
    <3>2. CASE t.method \notin LoginMethods
          BY <1>5, <2>2, <2>3, <2>4, <3>2 DEF SignInCreds
    <3> QED BY <3>1, <3>2
  <2>6. Session(cred)' /\ \A w \in Credentials : Safe(w) => NotOlder(cred, w)
        BY <1>3, <2>2, <2>4, <2>5, IssuedIsNewer
  <2>7. PICK next : next = [t EXCEPT !.stage = "saving", !.cred = cred]
        OBVIOUS
  <2>8. /\ next.stage = "saving" /\ next.cred = cred /\ next.method = t.method
        /\ next.device = t.device
        BY <1>2, <2>7 DEF SignIns
  <2>9. SignInCreds(next)'
    <3>1. t.method \in LoginMethods => LoginCreds(next)'
      <4>1. t.method \in LoginMethods => t.device = 0
            BY <1>5 DEF SignInCreds, LoginCreds
      <4>2. t.method \in LoginMethods => keyring.device # cred.device
        <5>1. keyring.device \in Nat /\ keyring.device <= issued
              BY CredFacts
        <5> QED BY <1>2, <2>2, <2>4, <5>1
      <4> QED BY <1>3, <2>8, <4>1, <4>2 DEF LoginCreds
    <3>2. t.method \notin LoginMethods \cup {"check"} => t.device \in Devices' \ gone'
          BY <1>3, <1>5, <2>3 DEF SignInCreds
    <3> QED BY <2>2, <2>6, <2>8, <3>1, <3>2 DEF SignInCreds
  <2>10. PICK c \in Calls : c = Write("signIn", t.attempt, cred)
        BY <1>4, <2>4, CallFacts
  <2>11. c.cred = cred
        BY <2>10 DEF Write
  <2>12. Newer(c.cred)' /\ \A w \in PersisterCalls : lane = <<w>> => NotOlder(c.cred, w.cred)
    <3>1. \A w \in PersisterCalls : lane = <<w>> => w.cred \in Credentials /\ Safe(w.cred)
          BY DEF CredInv, LaneCreds, PersisterCalls, Newer, Calls
    <3>2. Newer(cred)'
          BY <2>6 DEF Session
    <3> QED BY <2>6, <2>11, <3>1, <3>2
  <2>13. OnlyPersister
        BY <1>5, <2>2 DEF SignInLane
  <2> QED BY <1>3, <2>2, <2>7, <2>9, <2>10, <2>12, <2>13, SignInCallsCreds
<1>13. CASE LoginRollsBack(t)
  <2>1. /\ t.stage \in {"saved", "unsaved"} /\ t.method \in LoginMethods /\ UNCHANGED <<inbox, issued>>
        /\ Becomes(t, [t EXCEPT !.stage = "puttingBack"])
        /\ Enqueue(Write("signIn", t.attempt, t.was))
        BY <1>13 DEF LoginRollsBack
  <2>2. lane = <<>>
        BY <1>5, <2>1 DEF SignInLane
  <2>3. PICK next : next = [t EXCEPT !.stage = "puttingBack"]
        OBVIOUS
  <2>4. /\ next.stage = "puttingBack" /\ next.was = t.was /\ next.cred = t.cred
        /\ next.method = t.method /\ next.device = t.device
        BY <1>2, <2>3 DEF SignIns
  <2>5. /\ LoginCreds(t) /\ Safe(t.was) /\ t.was.device # t.cred.device /\ t.cred.device \in Devices
        /\ t.device = 0 /\ (keyring = t.cred \/ keyring = t.was)
        BY <1>5, <2>1 DEF SignInCreds, LoginCreds
  <2>6. SignInCreds(next)'
    <3>1. Devices' = Devices
          BY <2>1 DEF Devices
    <3>2. LoginCreds(next)'
          BY <1>3, <1>4, <1>6, <2>1, <2>4, <2>5, <3>1 DEF LoginCreds
    <3> QED BY <2>1, <2>4, <2>5, <3>2 DEF SignInCreds
  <2>7. PICK c \in Calls : c = Write("signIn", t.attempt, t.was)
        BY <1>4, CallFacts
  <2>8. c.cred = t.was
        BY <2>7 DEF Write
  <2>9. Newer(c.cred)'
    <3>1. Newer(t.was)
      <4>1. t.was.token \in Nat
            BY <1>4 DEF Credentials
      <4> QED BY <2>5, <4>1 DEF Newer, NotOlder
    <3> QED BY <1>4, <1>6, <2>1, <2>8, <3>1
  <2>10. OnlyPersister /\ \A w \in PersisterCalls : lane # <<w>>
        BY <2>2, ShortQueues DEF OnlyPersister
  <2> QED BY <1>3, <2>1, <2>3, <2>6, <2>7, <2>9, <2>10, SignInCallsCreds
<1> QED BY <1>1, <1>8, <1>9, <1>10, <1>11, <1>12, <1>13


\* The steps of a restore: what it reports is what the keyring holds.
LEMMA RestoreStepCreds ==
    ASSUME TypeInv, PhaseInv, LaneInv, CredInv, RestoreStep
    PROVE  CredInv'
<1>1. PICK r \in restores :
          RestoreFails(r) \/ RestorePauses(r) \/ RestoreSucceeds(r) \/ RestoreForgets(r)
      BY DEF RestoreStep
<1>2. r \in Restores /\ r.cred \in Credentials /\ issued \in Nat
      BY DEF TypeInv, TaskTypes, StorageTypes, Restores
<1>3. UNCHANGED <<keyring, gone, issued, held, serving, after, signIns, erasures, persisters>>
      BY <1>1 DEF RestoreFails, RestorePauses, RestoreSucceeds, RestoreForgets, RestoreRest,
                  lifecycle, background, history, environment
<1>4. \A cred \in Credentials : /\ Newer(cred) => Newer(cred)'
                                /\ Session(cred) => Session(cred)'
      BY <1>2, <1>3, CredsStay
<1>5. CASE RestoreFails(r) \/ RestorePauses(r)
  <2>1. PICK kind \in {"RestoreFailed", "RestorePaused"} : RestoreEnds(r, Event(kind, 0, 0))
        BY <1>5 DEF RestoreFails, RestorePauses
  <2>2. Event(kind, 0, 0) \in Message /\ Event(kind, 0, 0).kind = kind
    <3>1. kind \in Commands \cup Events /\ 0 \in Nat
          BY DEF Events
    <3> QED BY <3>1, MessageFacts
  <2>3. PICK m \in Message : m = Event(kind, 0, 0)
        BY <2>2
  <2>4. MessageCreds(m)'
        BY <2>2, <2>3, PlainMessages
  <2>5. restores' \subseteq restores /\ Send(m) /\ UNCHANGED lane
        BY <2>1, <2>3 DEF RestoreEnds
  <2> QED BY <1>3, <2>4, <2>5, TaskCreds
<1>6. CASE RestoreSucceeds(r)
  <2>1. "Restored" \in Events /\ 0 \in Nat
        BY DEF Events
  <2>2. PICK m \in Message : m = Carrying("Restored", 0, r.cred, NoSession)
        BY <1>2, <2>1, MessageFacts, NoSessionTypes
  <2>3. /\ r.stage = "loaded" /\ restores' \subseteq restores /\ Send(m) /\ UNCHANGED lane
        BY <1>6, <2>2 DEF RestoreSucceeds, RestoreEnds
  <2>4. keyring = r.cred /\ Session(r.cred)
        BY <2>3, CredFacts DEF CredInv, RestoreCreds, Session
  <2>5. m.kind = "Restored" /\ m.cred = r.cred
        BY <2>2 DEF Carrying
  <2>6. MessageCreds(m)'
        BY <1>2, <1>3, <1>4, <2>4, <2>5 DEF MessageCreds
  <2> QED BY <1>3, <2>3, <2>6, TaskCreds
<1>7. CASE RestoreForgets(r)
  <2>1. PICK c \in Calls : c = Write("restore", 0, NoSession)
        BY CallFacts, NoSessionTypes
  <2>2. PICK next : next = [r EXCEPT !.stage = "forgetting"]
        OBVIOUS
  <2>3. /\ r.stage = "loaded" /\ restores' = (restores \ {r}) \cup {next} /\ Enqueue(c)
        /\ UNCHANGED inbox
        BY <1>7, <2>1, <2>2 DEF RestoreForgets
  <2>4. next.stage # "loaded"
        BY <1>2, <2>2 DEF Restores
  <2>5. lane = <<>>
        BY <2>3 DEF LaneInv, RestoreLane
  <2>6. OnlyPersister /\ \A w \in PersisterCalls : lane # <<w>>
        BY <2>5, ShortQueues DEF OnlyPersister
  <2>7. Newer(c.cred)'
    <3>1. c.cred = NoSession
          BY <2>1 DEF Write
    <3> QED BY <1>4, <3>1, CredFacts, NoSessionTypes
  <2>8. serving # "undoing"
        BY TasksAlone
  <2>9. LaneCreds'
        BY <1>3, <2>3, <2>6, <2>7, <2>8, LaneCredsPut
  <2>10. HeldCreds'
        BY <1>3, HeldCredsStay DEF Steady, WindsDown
  <2>11. Waiting' = Waiting /\ (Quitting' <=> Quitting)
        BY <1>3, <2>3, InboxStays DEF Quitting
  <2>12. \A q \in restores' : q \in restores \/ q.stage # "loaded"
        BY <2>3, <2>4
  <2> QED BY <1>3, <2>9, <2>10, <2>11, <2>12, CredFrame
<1> QED BY <1>1, <1>5, <1>6, <1>7

\* The steps of an erasure: what it writes is newer than whatever is there.
LEMMA ErasureStepCreds ==
    ASSUME TypeInv, PhaseInv, LaneInv, CredInv, ErasureStep
    PROVE  CredInv'
<1>1. PICK e \in erasures : ErasureBegins(e) \/ ErasureEnds(e)
      BY DEF ErasureStep
<1>2. e \in Erasures /\ e.session \in Nat /\ issued \in Nat
      BY DEF TypeInv, TaskTypes, StorageTypes, Erasures
<1>3. UNCHANGED <<keyring, gone, issued, held, serving, after, signIns, restores, persisters>>
      BY <1>1 DEF ErasureBegins, ErasureEnds, ErasureRest, lifecycle, background, history, environment
<1>4. \A cred \in Credentials : Newer(cred) => Newer(cred)'
      BY <1>2, <1>3, CredsStay
<1>5. \A kind \in {"ErasingLocalState", "LocalStateCleared"} :
          Event(kind, e.session, 0) \in Message /\ Event(kind, e.session, 0).kind = kind
  <2>1. \A kind \in {"ErasingLocalState", "LocalStateCleared"} : kind \in Commands \cup Events
        BY DEF Events
  <2>2. 0 \in Nat
        OBVIOUS
  <2> QED BY <1>2, <2>1, <2>2, MessageFacts
<1>6. CASE ErasureEnds(e)
  <2>1. PICK m \in Message : m = Event("LocalStateCleared", e.session, 0)
        BY <1>5
  <2>2. MessageCreds(m)'
        BY <1>5, <2>1, PlainMessages
  <2>3. erasures' \subseteq erasures /\ Send(m) /\ UNCHANGED lane
        BY <1>6, <2>1 DEF ErasureEnds
  <2> QED BY <1>3, <2>2, <2>3, TaskCreds
<1>7. CASE ErasureBegins(e)
  <2>1. PICK m \in Message : m = Event("ErasingLocalState", e.session, 0)
        BY <1>5
  <2>2. MessageCreds(m)'
        BY <1>5, <2>1, PlainMessages
  <2>3. PICK c \in Calls : c = Write("erasure", e.session, NoSession)
        BY <1>2, CallFacts, NoSessionTypes
  <2>4. PICK next : next = [e EXCEPT !.stage = "clearing"]
        OBVIOUS
  <2>5. /\ e.stage = "leaving" /\ erasures' = (erasures \ {e}) \cup {next} /\ Enqueue(c) /\ Send(m)
        BY <1>7, <2>1, <2>3, <2>4 DEF ErasureBegins
  <2>6. next.device = e.device
        BY <1>2, <2>4 DEF Erasures
  <2>7. OnlyPersister
        BY <2>5 DEF LaneInv, ErasureLane
  <2>8. c.cred = NoSession
        BY <2>3 DEF Write
  <2>9. Newer(c.cred)'
        BY <1>4, <2>8, CredFacts, NoSessionTypes
  <2>10. \A w \in PersisterCalls : lane = <<w>> => NotOlder(c.cred, w.cred)
    <3>1. \A w \in PersisterCalls : lane = <<w>> => w.cred \in Credentials /\ Safe(w.cred)
          BY DEF CredInv, LaneCreds, PersisterCalls, Newer, Calls
    <3> QED BY <2>8, <3>1, CredFacts
  <2>11. serving # "undoing"
        BY TasksAlone
  <2>12. LaneCreds'
        BY <1>3, <2>5, <2>7, <2>9, <2>10, <2>11, LaneCredsPut
  <2>13. HeldCreds'
        BY <1>3, HeldCredsStay DEF Steady, WindsDown
  <2>14. Waiting' = Waiting \cup {m} /\ (Quitting' <=> Quitting)
        BY <1>3, <2>5, SentFacts DEF Quitting
  <2>15. \A f \in erasures' : f \in erasures \/ f.device \in Devices
        BY <2>5, <2>6 DEF CredInv
  <2> QED BY <1>3, <2>2, <2>12, <2>13, <2>14, <2>15, CredFrame
<1> QED BY <1>1, <1>6, <1>7

\* The persister goes on with a save of what it holds.
LEMMA PersisterSavesCreds ==
    ASSUME TypeInv, PhaseInv, LaneInv, CredInv, NEW p \in persisters, NEW next,
           p.stage \in {"idle", "retry"}, PersisterBecomes(p, next), PersisterCreds(next),
           NEW cred \in Credentials, Enqueue(Write("persister", p.session, cred)), Newer(cred),
           next.latest \in Credentials, next.dirty \in Credentials,
           UNCHANGED <<inbox, keyring, gone, issued, held, serving, after, signIns, restores, erasures>>
    PROVE  CredInv'
<1>1. p.session \in Nat /\ issued \in Nat
      BY DEF TypeInv, BackgroundTypes, StorageTypes, Persisters
<1>2. \A w \in Credentials : (Newer(w) => Newer(w)') /\ (Session(w) => Session(w)')
      BY <1>1, CredsStay
<1>3. PICK c \in Calls : c = Write("persister", p.session, cred)
      BY <1>1, CallFacts
<1>4. c.cred = cred
      BY <1>3 DEF Write
<1>5. lane = <<>>
      BY DEF LaneInv, PersisterLane
<1>6. OnlyPersister /\ \A w \in PersisterCalls : lane # <<w>>
      BY <1>5, ShortQueues DEF OnlyPersister
<1>7. serving # "undoing"
      BY TasksAlone
<1>8. LaneCreds'
      BY <1>2, <1>3, <1>4, <1>6, <1>7, LaneCredsPut
<1>9. HeldCreds'
      BY HeldCredsStay DEF Steady, WindsDown
<1>10. PersisterCreds(next)'
      BY <1>2 DEF PersisterCreds, NotOlder
<1>11. \A q \in persisters' : q \in persisters \/ PersisterCreds(q)'
      BY <1>10 DEF PersisterBecomes
<1>12. Waiting' = Waiting /\ (Quitting' <=> Quitting)
      BY InboxStays DEF Quitting
<1> QED BY <1>8, <1>9, <1>11, <1>12, CredFrame

\* The tasks of a running session.
LEMMA BackgroundCreds ==
    ASSUME TypeInv, PhaseInv, LaneInv, CredInv,
           SyncStep \/ Refresh \/ PersisterStep \/ LogoutRisksRead
    PROVE  CredInv'
<1> USE DEF lifecycle, operations, history
<1>1. UNCHANGED <<keyring, gone, held, serving, after, signIns, restores, erasures>>
      BY DEF SyncStep, SyncEnds, SessionLost, Refresh, TokensRefreshed, PersisterStep, PersisterStores,
             PersisterRetries, ListenerEnds, PersisterFlushes, PersisterEnds, LogoutRisksRead,
             BackgroundRest
<1>2. issued \in Nat
      BY DEF TypeInv, StorageTypes
<1>3. CASE SyncStep
  <2>1. PICK s \in syncs : SyncEnds(s) \/ \E loss \in Losses : SessionLost(s, loss)
        BY <1>3 DEF SyncStep
  <2>2. UNCHANGED <<persisters, lane, issued>>
        BY <2>1 DEF SyncEnds, SessionLost
  <2>3. UNCHANGED inbox \/ \E m \in Message : Send(m) /\ MessageCreds(m)'
    <3>1. CASE SyncEnds(s)
          BY <3>1 DEF SyncEnds
    <3>2. CASE \E loss \in Losses : SessionLost(s, loss)
      <4>1. PICK loss \in Losses : Send(Event(loss, 0, s))
            BY <3>2 DEF SessionLost
      <4>2. Event(loss, 0, s) \in Message /\ Event(loss, 0, s).kind = loss
        <5>1. s \in Nat
              BY DEF TypeInv, BackgroundTypes, LifecycleTypes
        <5>2. loss \in Commands \cup Events /\ 0 \in Nat
              BY DEF Events
        <5> QED BY <5>1, <5>2, MessageFacts
      <4>3. PICK m \in Message : m = Event(loss, 0, s)
            BY <4>2
      <4>4. loss \notin {"Restored", "LoggedIn", "Resumed"}
            BY DEF Losses
      <4>5. MessageCreds(m)'
            BY <4>2, <4>3, <4>4, PlainMessages
      <4> QED BY <4>1, <4>3, <4>5
    <3> QED BY <2>1, <3>1, <3>2
  <2> QED BY <1>1, <2>2, <2>3, TaskCreds
<1>4. CASE LogoutRisksRead
  <2>1. PICK c \in checks, kind \in {"LogoutSafe", "LogoutRisky"} :
            Send(Event(kind, c.request, c.session)) /\ UNCHANGED <<persisters, lane, issued>>
        BY <1>4 DEF LogoutRisksRead
  <2>2. Event(kind, c.request, c.session) \in Message
        /\ Event(kind, c.request, c.session).kind = kind
    <3>1. c.request \in Nat /\ c.session \in Nat
          BY DEF TypeInv, AccountTypes
    <3>2. kind \in Commands \cup Events
          BY DEF Events
    <3> QED BY <3>1, <3>2, MessageFacts
  <2>3. PICK m \in Message : m = Event(kind, c.request, c.session)
        BY <2>2
  <2>4. MessageCreds(m)'
        BY <2>2, <2>3, PlainMessages
  <2> QED BY <1>1, <2>1, <2>3, <2>4, TaskCreds
<1>5. CASE Refresh
  <2>1. PICK p \in persisters : TokensRefreshed(p)
        BY <1>5 DEF Refresh
  <2>2. UNCHANGED <<inbox, lane>> /\ issued' = issued + 1
        BY <2>1 DEF TokensRefreshed
  <2>3. PICK k : k = issued'
        OBVIOUS
  <2>4. PICK next : next = [p EXCEPT !.latest.token = k, !.fresh = TRUE]
        OBVIOUS
  <2>5. PersisterBecomes(p, next)
        BY <2>1, <2>3, <2>4 DEF TokensRefreshed
  <2>6. p \in Persisters /\ p.latest \in Credentials /\ p.dirty \in Credentials
        BY DEF TypeInv, BackgroundTypes, Persisters
  <2>7. /\ next.stage = p.stage /\ next.dirty = p.dirty
        /\ next.latest = [p.latest EXCEPT !.token = k]
        BY <2>4, <2>6 DEF Persisters
  <2>8. /\ next.latest \in Credentials /\ next.latest.token = k
        /\ next.latest.device = p.latest.device
    <3>1. k \in Nat
          BY <1>2, <2>2, <2>3
    <3> QED BY <2>6, <2>7, <3>1 DEF Credentials
  <2>9. PersisterCreds(p) /\ p.latest.device \in Devices \ gone
        BY <2>6, CredFacts DEF CredInv, PersisterCreds
  <2>10. p.latest.device \in Devices'
        BY <1>2, <2>2, <2>9 DEF Devices
  <2>11. Session(next.latest)' /\ \A w \in Credentials : Safe(w) => NotOlder(next.latest, w)
        BY <1>1, <2>2, <2>3, <2>8, <2>9, <2>10, IssuedIsNewer
  <2>12. PersisterCreds(next)'
    <3>1. \A w \in Credentials : Newer(w) => Newer(w)'
          BY <1>1, <1>2, <2>2, CredsStay
    <3>2. p.stage \in {"saving", "retry", "flushing"} => Newer(p.dirty) /\ Safe(p.dirty)
          BY <2>9 DEF PersisterCreds, Newer
    <3> QED BY <2>6, <2>7, <2>11, <3>1, <3>2 DEF PersisterCreds, NotOlder
  <2>13. \A q \in persisters' : q \in persisters \/ PersisterCreds(q)'
        BY <2>5, <2>12 DEF PersisterBecomes
  <2> QED BY <1>1, <2>2, <2>13, TaskCreds
<1>6. CASE PersisterStep
  <2>1. PICK p \in persisters :
            \/ PersisterStores(p) \/ PersisterRetries(p)
            \/ ListenerEnds(p) \/ PersisterFlushes(p) \/ PersisterEnds(p)
        BY <1>6 DEF PersisterStep
  <2>2. UNCHANGED <<inbox, issued>>
        BY <2>1 DEF PersisterStores, PersisterRetries, ListenerEnds, PersisterFlushes,
                    PersisterEnds, BackgroundRest
  <2>3. p \in Persisters /\ p.latest \in Credentials /\ p.dirty \in Credentials
        BY DEF TypeInv, BackgroundTypes, Persisters
  <2>4. PersisterCreds(p)
        BY DEF CredInv
  <2>5. CASE PersisterStores(p)
    <3>1. PICK next : next = [p EXCEPT !.fresh = FALSE, !.dirty = p.latest, !.stage = "saving"]
          OBVIOUS
    <3>2. next.latest = p.latest /\ next.dirty = p.latest /\ next.stage = "saving"
          BY <2>3, <3>1 DEF Persisters
    <3>3. /\ p.stage \in {"idle", "retry"} /\ PersisterBecomes(p, next)
          /\ Enqueue(Write("persister", p.session, p.latest))
          BY <2>5, <3>1 DEF PersisterStores
    <3>4. Newer(p.latest)
          BY <2>4 DEF PersisterCreds, Session
    <3>5. PersisterCreds(next)
      <4>1. NotOlder(p.latest, p.latest)
        <5>1. p.latest.token \in Nat
              BY <2>3 DEF Credentials
        <5> QED BY <5>1 DEF NotOlder
      <4> QED BY <2>4, <3>2, <3>4, <4>1 DEF PersisterCreds
    <3> QED BY <1>1, <2>2, <2>3, <3>2, <3>3, <3>4, <3>5, PersisterSavesCreds
  <2>6. CASE PersisterRetries(p) \/ PersisterFlushes(p)
    <3>1. PICK stage \in {"saving", "flushing"} :
              /\ p.stage = "retry" /\ PersisterBecomes(p, [p EXCEPT !.stage = stage])
              /\ Enqueue(Write("persister", p.session, p.dirty))
          BY <2>6 DEF PersisterRetries, PersisterFlushes
    <3>2. PICK next : next = [p EXCEPT !.stage = stage]
          OBVIOUS
    <3>3. next.latest = p.latest /\ next.dirty = p.dirty /\ next.stage = stage
          BY <2>3, <3>2 DEF Persisters
    <3>4. Newer(p.dirty) /\ NotOlder(p.latest, p.dirty)
          BY <2>4, <3>1 DEF PersisterCreds
    <3>5. PersisterCreds(next)
          BY <2>4, <3>3, <3>4 DEF PersisterCreds
    <3>6. p.stage \in {"idle", "retry"} /\ PersisterBecomes(p, next)
          BY <3>1, <3>2
    <3> QED BY <1>1, <2>2, <2>3, <3>1, <3>3, <3>4, <3>5, <3>6, PersisterSavesCreds
  <2>7. CASE ListenerEnds(p)
    <3>1. PICK next : next = [p EXCEPT !.listening = FALSE]
          OBVIOUS
    <3>2. next.latest = p.latest /\ next.dirty = p.dirty /\ next.stage = p.stage
          BY <2>3, <3>1 DEF Persisters
    <3>3. PersisterBecomes(p, next) /\ UNCHANGED lane
          BY <2>7, <3>1 DEF ListenerEnds
    <3>4. PersisterCreds(next)'
      <4>1. \A w \in Credentials : (Newer(w) => Newer(w)') /\ (Session(w) => Session(w)')
            BY <1>1, <1>2, <2>2, CredsStay
      <4> QED BY <2>3, <2>4, <3>2, <4>1 DEF PersisterCreds, NotOlder
    <3>5. \A q \in persisters' : q \in persisters \/ PersisterCreds(q)'
          BY <3>3, <3>4 DEF PersisterBecomes
    <3> QED BY <1>1, <2>2, <3>3, <3>5, TaskCreds
  <2>8. CASE PersisterEnds(p)
    <3>1. persisters' \subseteq persisters /\ UNCHANGED lane
          BY <2>8 DEF PersisterEnds
    <3> QED BY <1>1, <2>2, <3>1, TaskCreds
  <2> QED BY <2>1, <2>5, <2>6, <2>7, <2>8
<1> QED BY <1>3, <1>4, <1>5, <1>6

\* The rest of a handler that waited, the end of the grace period, and the user.
LEMMA ResumeCreds ==
    ASSUME TypeInv, PhaseInv, LaneInv, CredInv, Resume \/ AbortStragglers \/ UserSends
    PROVE  CredInv'
<1> USE DEF operations, background, storage, environment, history
<1>1. CASE UserSends
  <2>1. PICK command \in Commands : Send(Event(command, 0, 0))
        BY <1>1 DEF UserSends
  <2>2. Event(command, 0, 0) \in Message /\ Event(command, 0, 0).kind = command
        BY MessageFacts
  <2>3. PICK m \in Message : m = Event(command, 0, 0)
        BY <2>2
  <2>4. MessageCreds(m)'
    <3>1. command \notin {"Restored", "LoggedIn", "Resumed"}
          BY DEF Commands
    <3> QED BY <2>2, <2>3, <3>1, PlainMessages
  <2>5. UNCHANGED <<lane, keyring, gone, issued, held, serving, after, signIns, restores, erasures,
                    persisters>>
        BY <1>1 DEF UserSends
  <2> QED BY <2>1, <2>3, <2>4, <2>5, TaskCreds
<1>2. CASE AbortStragglers
  <2>1. /\ UNCHANGED <<inbox, lane, keyring, gone, issued, held, serving, after>>
        /\ signIns' \subseteq signIns /\ restores' \subseteq restores
        /\ erasures' \subseteq erasures /\ persisters' \subseteq persisters
        BY <1>2 DEF AbortStragglers, loop
  <2> QED BY <2>1, TaskCreds
<1>3. CASE Resume
  <2>1. UNCHANGED <<inbox, lane, keyring, gone, issued, persisters, signIns, restores, after>>
        BY <1>3 DEF Resume, LoginUndone, WoundDown
  <2>2. Waiting' = Waiting /\ (Quitting' <=> Quitting)
        BY <2>1, InboxStays DEF Quitting
  <2>3. serving' \in {"next", "stopped"}
        BY <1>3 DEF Resume, LoginUndone, WoundDown
  <2>4. LaneCreds'
        BY <2>1, <2>3, LaneCredsStay
  <2>5. CASE LoginUndone
    <3>1. serving \in {"undone", "stuck"} /\ UNCHANGED <<held, erasures>>
          BY <2>5 DEF LoginUndone
    <3>2. HeldCreds'
          BY <2>1, <2>3, <3>1, HeldCredsStay DEF Steady, WindsDown
    <3> QED BY <2>1, <2>2, <2>4, <3>1, <3>2, CredFrame
  <2>6. CASE WoundDown
    <3>1. /\ serving = "winding" /\ (Quitting \/ WindsDown)
          BY <2>6 DEF WoundDown, PhaseInv, ServingInv, WindsDown
    <3>2. Devices' = Devices
          BY <2>1 DEF Devices
    <3>3. CASE Quitting
      <4>1. serving' = "stopped" /\ UNCHANGED <<held, erasures>>
            BY <2>6, <3>3 DEF WoundDown, Quitting
      <4>2. HeldCreds'
            BY <2>1, <4>1, HeldCredsStay DEF Steady, WindsDown
      <4> QED BY <2>1, <2>2, <2>4, <4>1, <4>2, CredFrame
    <3>4. CASE WindsDown
      <4>1. after.n \in Devices \ gone /\ after.then # "quit"
            BY <3>4 DEF CredInv, HeldCreds, WindsDown
      <4>2. /\ serving' = "next" /\ held' = WhatIsHeldAfter(after)
            /\ UNCHANGED erasures \/ erasures' = {Erasure(session, after.n)}
            BY <2>6, <4>1 DEF WoundDown
      <4>3. held'.kind = "None" \/ held'.device = after.n
            BY <4>2 DEF WhatIsHeldAfter
      <4>4. HeldCreds'
            BY <2>1, <3>2, <4>1, <4>2, <4>3 DEF HeldCreds, WindsDown
      <4>5. \A e \in erasures' : e \in erasures \/ e.device \in Devices
            BY <4>1, <4>2 DEF Erasure
      <4> QED BY <2>1, <2>2, <2>4, <4>4, <4>5, CredFrame
    <3> QED BY <3>1, <3>3, <3>4
  <2> QED BY <1>3, <2>5, <2>6 DEF Resume
<1> QED BY <1>1, <1>2, <1>3


\* The call that is run: a persister's, or the only one.
LEMMA NextCallFacts ==
    ASSUME TypeInv, PhaseInv, LaneInv, CredInv, RunCall
    PROVE  /\ NextCall \in Calls /\ lane # <<>>
           /\ NextCall.op = "set" => Newer(NextCall.cred)
           /\ NextCall.who = "persister" =>
                 /\ NextCall \in PersisterCalls
                 /\ \/ lane = <<NextCall>> /\ lane' = <<>>
                    \/ \E c \in OwnCalls : lane = <<NextCall, c>> /\ lane' = <<c>>
           /\ NextCall.who # "persister" => NextCall \in OwnCalls /\ lane = <<NextCall>> /\ lane' = <<>>
<1>1. NextCall \in Calls /\ lane # <<>>
      BY RanCall
<1>2. /\ \A c \in PersisterCalls : c \in Calls /\ c.who = "persister"
      /\ \A c \in OwnCalls : c \in Calls /\ c.who # "persister"
      BY DEF PersisterCalls, OwnCalls
<1>3. \/ \E w \in PersisterCalls : lane = <<w>> /\ NextCall = w /\ lane' = <<>>
      \/ \E c \in OwnCalls : lane = <<c>> /\ NextCall = c /\ lane' = <<>>
      \/ \E w \in PersisterCalls, c \in OwnCalls :
            lane = <<w, c>> /\ NextCall = w /\ lane' = <<c>>
      BY LaneRuns DEF LaneInv
<1>4. NextCall.op = "set" => Newer(NextCall.cred)
      BY <1>2, <1>3 DEF CredInv, LaneCreds
<1> QED BY <1>1, <1>2, <1>3, <1>4

\* Whose call it is.
LEMMA CallIsOf ==
    ASSUME TypeInv, PhaseInv, LaneInv, CredInv, RunCall
    PROVE  /\ \A p \in persisters : /\ p.stage \in {"saving", "flushing"}
                                    /\ NextCall = Write("persister", p.session, p.dirty)
           /\ \A r \in restores : \/ r.stage = "loading" /\ NextCall = Read("restore")
                                  \/ r.stage = "forgetting" /\ NextCall.who = "restore"
           /\ \A e \in erasures :
                 NextCall.who # "persister" => NextCall = Write("erasure", e.session, NoSession)
           /\ \A t \in signIns : NextCall.who # "persister" =>
                 \/ t.stage = "saving" /\ NextCall = Write("signIn", t.attempt, t.cred)
                 \/ /\ t.stage = "puttingBack" /\ t.method \in LoginMethods
                    /\ NextCall = Write("signIn", t.attempt, t.was)
           /\ NextCall.who = "service" => serving = "undoing"
           /\ serving = "undoing" => lane = <<NextCall>> /\ NextCall.who = "service"
<1>1. /\ NextCall \in Calls /\ lane # <<>>
      /\ NextCall.who = "persister" =>
            /\ NextCall \in PersisterCalls
            /\ lane = <<NextCall>> \/ \E c \in OwnCalls : lane = <<NextCall, c>>
      /\ NextCall.who # "persister" => NextCall \in OwnCalls /\ lane = <<NextCall>>
      BY NextCallFacts
<1>2. \A d : lane = <<d>> => d = NextCall
      BY <1>1, ShortQueues
<1>3. NextCall.who # "persister" => ~OnlyPersister
  <2>1. \A w \in PersisterCalls : w.who = "persister"
        BY DEF PersisterCalls
  <2> QED BY <1>1, <1>2, <2>1 DEF OnlyPersister
<1>4. NextCall.who # "persister" => \A d : Behind(d) => d = NextCall
      BY <1>1, ShortQueues DEF Behind
<1>5. \A p \in persisters : /\ p.stage \in {"saving", "flushing"}
                            /\ NextCall = Write("persister", p.session, p.dirty)
  <2>1. \A p \in persisters : p.stage \in {"idle", "saving", "retry", "flushing", "flushed"}
        BY DEF TypeInv, BackgroundTypes, Persisters
  <2> QED BY <1>1, <1>2, <2>1 DEF LaneInv, PersisterLane
<1>6. \A r \in restores : \/ r.stage = "loading" /\ NextCall = Read("restore")
                          \/ r.stage = "forgetting" /\ NextCall.who = "restore"
  <2>1. \A r \in restores : r.stage \in {"loading", "loaded", "absent", "unreadable", "forgetting"}
        BY DEF TypeInv, TaskTypes, Restores
  <2>2. Write("restore", 0, NoSession).who = "restore"
        BY DEF Write
  <2> QED BY <1>1, <1>2, <2>1, <2>2 DEF LaneInv, RestoreLane
<1>7. \A e \in erasures :
          NextCall.who # "persister" => NextCall = Write("erasure", e.session, NoSession)
  <2>1. \A e \in erasures : e.stage \in {"leaving", "clearing", "cleared"}
        BY DEF TypeInv, TaskTypes, Erasures
  <2> QED BY <1>1, <1>3, <1>4, <2>1 DEF LaneInv, ErasureLane
<1>8. \A t \in signIns : NextCall.who # "persister" =>
          \/ t.stage = "saving" /\ NextCall = Write("signIn", t.attempt, t.cred)
          \/ /\ t.stage = "puttingBack" /\ t.method \in LoginMethods
             /\ NextCall = Write("signIn", t.attempt, t.was)
  <2>1. \A t \in signIns : t.stage \in SignInStages
        BY DEF TypeInv, TaskTypes, SignIns
  <2> QED BY <1>1, <1>3, <1>4, <2>1 DEF LaneInv, SignInLane, SignInStages
<1>9. NextCall.who = "service" => serving = "undoing"
  <2>1. /\ Count(lane', ServiceCalls) \in Nat
        /\ Count(lane, ServiceCalls) =
              Count(lane', ServiceCalls) + (IF NextCall.who = "service" THEN 1 ELSE 0)
        BY RanCall
  <2>2. Count(lane, ServiceCalls) = IF serving = "undoing" THEN 1 ELSE 0
        BY DEF PhaseInv, CallsInv
  <2> QED BY <2>1, <2>2
<1>10. serving = "undoing" => lane = <<NextCall>> /\ NextCall.who = "service"
      BY <1>2 DEF LaneInv, ServiceLane
<1> QED BY <1>5, <1>6, <1>7, <1>8, <1>9, <1>10

\* What a call takes away for good is nobody's any more.
LEMMA GoneIsNobodys ==
    ASSUME TypeInv, PhaseInv, LaneInv, CredInv, RunCall
    PROVE  /\ GoneAfter(NextCall) \subseteq Devices
           /\ NextCall.cred.device \notin GoneAfter(NextCall)
           /\ NextCall.who \in {"persister", "restore"} \/ NextCall.op = "get" => GoneAfter(NextCall) = {}
           /\ persisters # {} \/ restores # {} => GoneAfter(NextCall) = {}
           /\ \A t \in signIns : t.stage # "puttingBack" => GoneAfter(NextCall) = {}
           /\ (held.kind # "None" /\ Steady) \/ WindsDown => GoneAfter(NextCall) = {}
<1> DEFINE lost == GoneAfter(NextCall)
<1>1. /\ \A p \in persisters : NextCall = Write("persister", p.session, p.dirty)
      /\ \A r \in restores : NextCall = Read("restore") \/ NextCall.who = "restore"
      /\ \A e \in erasures :
            NextCall.who # "persister" => NextCall = Write("erasure", e.session, NoSession)
      /\ \A t \in signIns : NextCall.who # "persister" =>
            \/ t.stage = "saving" /\ NextCall = Write("signIn", t.attempt, t.cred)
            \/ /\ t.stage = "puttingBack" /\ t.method \in LoginMethods
               /\ NextCall = Write("signIn", t.attempt, t.was)
      /\ NextCall.who = "service" => serving = "undoing"
      /\ serving = "undoing" => lane = <<NextCall>> /\ NextCall.who = "service"
      BY CallIsOf
<1>2. NextCall \in Calls /\ 0 \notin Devices
      BY NextCallFacts, CredFacts
<1>3. /\ NextCall.who \notin {"erasure", "service", "signIn"} => lost = {}
      /\ NextCall.who = "erasure" =>
            lost = {e.device : e \in {f \in erasures : f.session = NextCall.n}}
      /\ NextCall.who = "service" => lost = {NextCall.n}
      /\ NextCall.who = "signIn" =>
            lost = {t.cred.device : t \in {u \in signIns : u.attempt = NextCall.n
                                                    /\ u.stage = "puttingBack"}}
      BY DEF GoneAfter
<1> HIDE DEF lost
<1>4. \A p \in persisters : lost = {}
      BY <1>1, <1>3 DEF Write
<1>5. \A r \in restores : lost = {}
      BY <1>1, <1>3 DEF Read
<1>6. signIns # {} => phase \in AuthPhases
      BY OneKindOfTask
<1>7. CASE lost = {}
      BY <1>7 DEF lost
<1>8. CASE NextCall.who = "erasure" /\ lost # {}
  <2>1. PICK e \in erasures : TRUE
        BY <1>3, <1>8
  <2>2. NextCall = Write("erasure", e.session, NoSession)
        BY <1>1, <1>8
  <2>3. NextCall.cred = NoSession /\ NextCall.op = "set"
        BY <2>2 DEF Write
  <2>4. lost \subseteq Devices
        BY <1>3, <1>8 DEF CredInv
  <2>5. NextCall.cred.device \notin lost
        BY <1>2, <2>3, <2>4, NoSessionTypes
  <2>6. signIns = {}
        BY <2>1, TasksAlone
  <2>7. ~(held.kind # "None" /\ Steady) /\ ~WindsDown
    <3>1. phase \in EndPhases /\ ~WindsToErase /\ (WindsDown /\ phase \in EndPhases => WindsToErase)
          BY <2>1, OneKindOfTask
    <3>2. Steady => held.kind = "None"
      <4>1. phase # "Syncing" /\ phase \notin SoftPhases
            BY <3>1, PhaseFacts
      <4>2. held.kind \in {"None", "Running", "Suspended"}
            BY DEF TypeInv, LifecycleTypes
      <4> QED BY <4>1, <4>2 DEF PhaseInv, HeldInv
    <3> QED BY <3>1, <3>2
  <2> QED BY <1>4, <1>5, <1>8, <2>3, <2>4, <2>5, <2>6, <2>7 DEF lost
<1>9. CASE NextCall.who = "service"
  <2>1. serving = "undoing" /\ lane = <<NextCall>> /\ lost = {NextCall.n}
        BY <1>1, <1>3, <1>9
  <2>2. NextCall.n \in Devices /\ NextCall.cred.device # NextCall.n
        BY <1>2, <2>1 DEF CredInv, LaneCreds
  <2>3. signIns = {}
        BY <2>1, TasksAlone
  <2>4. ~(held.kind # "None" /\ Steady) /\ ~WindsDown
    <3>1. phase \in FirstAuth /\ ~WindsDown
          BY <2>1, OneKindOfTask DEF WindsDown
    <3>2. Steady => held.kind = "None"
      <4>1. phase # "Syncing" /\ phase \notin SoftPhases
            BY <3>1, PhaseFacts
      <4>2. held.kind \in {"None", "Running", "Suspended"}
            BY DEF TypeInv, LifecycleTypes
      <4> QED BY <4>1, <4>2 DEF PhaseInv, HeldInv
    <3> QED BY <3>1, <3>2
  <2>5. NextCall.op = "set"
    <3>1. \E c \in OwnCalls : lane = <<c>> /\ c.op = "set"
          BY <2>1 DEF LaneInv, ServiceLane
    <3> QED BY <2>1, <3>1, ShortQueues
  <2> QED BY <1>4, <1>5, <1>9, <2>1, <2>2, <2>3, <2>4, <2>5 DEF lost
<1>10. CASE NextCall.who = "signIn" /\ lost # {}
  <2>1. PICK t \in signIns : t.stage = "puttingBack"
        BY <1>3, <1>10
  <2>2. t.method \in LoginMethods /\ NextCall = Write("signIn", t.attempt, t.was)
        BY <1>1, <1>10, <2>1
  <2>3. signIns = {t}
        BY TasksAlone
  <2>4. lost = {t.cred.device}
        BY <1>3, <1>10, <2>3
  <2>5. t.cred.device \in Devices /\ t.was.device # t.cred.device
        BY <2>1, <2>2 DEF CredInv, SignInCreds, LoginCreds
  <2>6. NextCall.cred = t.was /\ NextCall.op = "set"
        BY <2>2 DEF Write
  <2>7. ~(held.kind # "None" /\ Steady) /\ ~WindsDown
    <3>1. phase \in FirstAuth
      <4>1. phase \in PhasesOf(t.method)
            BY DEF PhaseInv, AuthInv
      <4> QED BY <2>2, <4>1 DEF PhasesOf, LoginMethods
    <3>2. ~WindsDown
          BY <3>1, OneKindOfTask DEF FirstAuth
    <3>3. Steady => held.kind = "None"
      <4>1. phase # "Syncing" /\ phase \notin SoftPhases
            BY <3>1, PhaseFacts
      <4>2. held.kind \in {"None", "Running", "Suspended"}
            BY DEF TypeInv, LifecycleTypes
      <4> QED BY <4>1, <4>2 DEF PhaseInv, HeldInv
    <3> QED BY <3>2, <3>3
  <2> QED BY <1>4, <1>5, <1>10, <2>1, <2>3, <2>4, <2>5, <2>6, <2>7 DEF lost
<1> QED BY <1>3, <1>7, <1>8, <1>9, <1>10


\* What the keyring holds after a call, and what is gone.
LEMMA CallWrites ==
    ASSUME TypeInv, PhaseInv, LaneInv, CredInv, RunCall
    PROVE  \E ok \in BOOLEAN :
              /\ Answer(NextCall, ok)
              /\ keyring' = IF ok /\ NextCall.op = "set" THEN NextCall.cred ELSE keyring
              /\ gone' = IF ok THEN gone \cup GoneAfter(NextCall) ELSE gone
              /\ UNCHANGED <<issued, inbox, after, held, phase>>
<1>1. CASE /\ keyring' = IF NextCall.op = "set" THEN NextCall.cred ELSE keyring
           /\ Answer(NextCall, TRUE) /\ gone' = gone \cup GoneAfter(NextCall)
  <2>1. UNCHANGED <<issued, inbox, after, held, phase>>
        BY DEF RunCall, lifecycle
  <2> QED BY <1>1, <2>1
<1>2. CASE Answer(NextCall, FALSE) /\ UNCHANGED <<keyring, gone>>
  <2>1. UNCHANGED <<issued, inbox, after, held, phase>>
        BY DEF RunCall, lifecycle
  <2> QED BY <1>2, <2>1
<1> QED BY <1>1, <1>2 DEF RunCall

\* The records of a sign-in and a persister after their call.
LEMMA HeardCreds ==
    ASSUME keyring \in Credentials, NEW ok \in BOOLEAN
    PROVE  /\ \A t \in SignIns : t.stage = "saving" =>
                 /\ SignInHeard(t, ok).stage = (IF ok THEN "saved" ELSE "unsaved")
                 /\ SignInHeard(t, ok).was = keyring
           /\ \A t \in SignIns : t.stage # "saving" =>
                 SignInHeard(t, ok).stage \in {"undone", "stuck"}
           /\ \A p \in Persisters :
                 /\ PersisterHeard(p, ok).stage \notin {"saving", "flushing"}
                 /\ PersisterHeard(p, ok).stage = "retry" => ~ok /\ PersisterHeard(p, ok).dirty = p.dirty
           /\ \A r \in Restores : RestoreHeard(r, ok).stage = "loaded" =>
                 r.stage = "loading" /\ RestoreHeard(r, ok).cred = keyring /\ keyring # NoSession
<1>1. \A t \in SignIns : t.stage = "saving" =>
          /\ SignInHeard(t, ok).stage = (IF ok THEN "saved" ELSE "unsaved")
          /\ SignInHeard(t, ok).was = keyring
      BY DEF SignInHeard, SignIns
<1>2. \A t \in SignIns : t.stage # "saving" => SignInHeard(t, ok).stage \in {"undone", "stuck"}
      BY DEF SignInHeard, SignIns
<1>3. \A p \in Persisters :
          /\ PersisterHeard(p, ok).stage \notin {"saving", "flushing"}
          /\ PersisterHeard(p, ok).stage = "retry" => ~ok /\ PersisterHeard(p, ok).dirty = p.dirty
      BY DEF PersisterHeard, Persisters
<1>4. \A r \in Restores : RestoreHeard(r, ok).stage = "loaded" =>
          r.stage = "loading" /\ RestoreHeard(r, ok).cred = keyring /\ keyring # NoSession
      BY DEF RestoreHeard, Restores
<1> QED BY <1>1, <1>2, <1>3, <1>4

\* A call that is run writes what is newer, of a device that is not gone.
LEMMA RunCallCreds ==
    ASSUME TypeInv, PhaseInv, LaneInv, CredInv, RunCall
    PROVE  CredInv'
<1>1. PICK ok \in BOOLEAN :
          /\ Answer(NextCall, ok)
          /\ keyring' = IF ok /\ NextCall.op = "set" THEN NextCall.cred ELSE keyring
          /\ gone' = IF ok THEN gone \cup GoneAfter(NextCall) ELSE gone
          /\ UNCHANGED <<issued, inbox, after, held, phase>>
      BY CallWrites
<1>2. /\ signIns' = {IF NextCall.who = "signIn" /\ t.attempt = NextCall.n
                     THEN SignInHeard(t, ok) ELSE t : t \in signIns}
      /\ restores' = {IF NextCall.who = "restore" THEN RestoreHeard(r, ok) ELSE r : r \in restores}
      /\ persisters' = {IF NextCall.who = "persister" /\ p.session = NextCall.n
                        THEN PersisterHeard(p, ok) ELSE p : p \in persisters}
      /\ erasures' = {IF NextCall.who = "erasure" /\ e.session = NextCall.n
                      THEN [e EXCEPT !.stage = "cleared"] ELSE e : e \in erasures}
      /\ serving' = IF NextCall.who # "service" THEN serving ELSE IF ok THEN "undone" ELSE "stuck"
      BY <1>1 DEF Answer
<1>3. /\ NextCall \in Calls /\ lane # <<>>
      /\ NextCall.op = "set" => Newer(NextCall.cred)
      /\ NextCall.who = "persister" =>
            /\ NextCall \in PersisterCalls
            /\ \/ lane = <<NextCall>> /\ lane' = <<>>
               \/ \E c \in OwnCalls : lane = <<NextCall, c>> /\ lane' = <<c>>
      /\ NextCall.who # "persister" => NextCall \in OwnCalls /\ lane = <<NextCall>> /\ lane' = <<>>
      BY NextCallFacts
<1>4. /\ \A p \in persisters : /\ p.stage \in {"saving", "flushing"}
                               /\ NextCall = Write("persister", p.session, p.dirty)
      /\ \A r \in restores : \/ r.stage = "loading" /\ NextCall = Read("restore")
                             \/ r.stage = "forgetting" /\ NextCall.who = "restore"
      /\ \A t \in signIns : NextCall.who # "persister" =>
            \/ t.stage = "saving" /\ NextCall = Write("signIn", t.attempt, t.cred)
            \/ /\ t.stage = "puttingBack" /\ t.method \in LoginMethods
               /\ NextCall = Write("signIn", t.attempt, t.was)
      /\ NextCall.who = "service" => serving = "undoing"
      /\ serving = "undoing" => lane = <<NextCall>> /\ NextCall.who = "service"
      BY CallIsOf
<1>5. /\ GoneAfter(NextCall) \subseteq Devices
      /\ NextCall.cred.device \notin GoneAfter(NextCall)
      /\ NextCall.who \in {"persister", "restore"} \/ NextCall.op = "get" => GoneAfter(NextCall) = {}
      /\ persisters # {} \/ restores # {} => GoneAfter(NextCall) = {}
      /\ \A t \in signIns : t.stage # "puttingBack" => GoneAfter(NextCall) = {}
      /\ (held.kind # "None" /\ Steady) \/ WindsDown => GoneAfter(NextCall) = {}
      BY GoneIsNobodys
<1>6. /\ signIns \subseteq SignIns /\ restores \subseteq Restores /\ erasures \subseteq Erasures
      /\ persisters \subseteq Persisters /\ keyring \in Credentials
      BY DEF TypeInv, TaskTypes, BackgroundTypes, StorageTypes
<1>7. /\ keyring.token \in Nat /\ Newer(keyring) /\ (keyring.device = 0 => keyring = NoSession)
      /\ \A cred \in Credentials : Session(cred) => cred.device \in Devices \ gone
      /\ NextCall.cred \in Credentials /\ NextCall.cred.token \in Nat
      BY <1>3, CredFacts DEF Calls, Credentials
<1>8. Devices' = Devices
      BY <1>1 DEF Devices
<1>9. GoneAfter(NextCall) = {} => gone' = gone
      BY <1>1
<1>10. ASSUME GoneAfter(NextCall) = {}
       PROVE  \A cred \in Credentials : Safe(cred) => Safe(cred)'
       BY <1>1, <1>9, <1>10 DEF Safe, Known
<1>11. Safe(keyring)'
  <2>1. PICK cred \in Credentials :
            /\ keyring' = cred /\ Newer(cred)
            /\ ok => cred.device \notin GoneAfter(NextCall)
    <3>1. CASE ok /\ NextCall.op = "set"
          BY <1>1, <1>3, <1>5, <1>7, <3>1
    <3>2. CASE ~(ok /\ NextCall.op = "set")
      <4>1. ok => keyring.device \notin GoneAfter(NextCall)
            BY <1>3, <1>5, <3>2 DEF Calls
      <4> QED BY <1>1, <1>6, <1>7, <3>2, <4>1
    <3> QED BY <3>1, <3>2
  <2>2. Known(cred) /\ cred.device \notin gone'
        BY <1>1, <2>1 DEF Newer, Safe
  <2>3. Safe(cred)'
        BY <1>1, <2>2 DEF Safe, Known
  <2> QED BY <2>1, <2>3 DEF Safe, Known
<1>12. (gone \subseteq Devices)'
       BY <1>1, <1>5, <1>8 DEF CredInv
<1>13. LaneCreds'
  <2>1. CASE lane' = <<>>
        BY <2>1, ShortQueues DEF LaneCreds
  <2>2. CASE \E c \in OwnCalls : lane = <<NextCall, c>> /\ lane' = <<c>>
    <3>1. PICK c \in OwnCalls : lane = <<NextCall, c>> /\ lane' = <<c>>
          BY <2>2
    <3>2. c \in Calls /\ c.cred \in Credentials
          BY DEF OwnCalls, Calls
    <3>3. NextCall.who = "persister"
          BY <1>3, <3>1, ShortQueues
    <3>4. NextCall.op = "set" /\ GoneAfter(NextCall) = {}
          BY <1>3, <1>5, <3>3 DEF PersisterCalls
    <3>5. c.op = "set" => Newer(c.cred) /\ NotOlder(c.cred, NextCall.cred)
          BY <1>3, <3>1, <3>2 DEF CredInv, LaneCreds
    <3>6. c.op = "set" => Newer(c.cred)'
      <4>1. keyring' = keyring \/ keyring' = NextCall.cred
            BY <1>1
      <4> QED BY <1>10, <3>2, <3>4, <3>5, <4>1 DEF Newer, NotOlder
    <3>7. serving' # "undoing"
          BY <1>2, <1>4, <3>3
    <3> QED BY <3>1, <3>6, <3>7, ShortQueues DEF LaneCreds
  <2> QED BY <1>3, <2>1, <2>2
<1>14. HeldCreds'
  <2>1. (Steady' => Steady) /\ (WindsDown' => WindsDown)
        BY <1>1, <1>2, <1>4 DEF Steady, WindsDown
  <2> QED BY <1>1, <1>5, <1>8, <1>9, <2>1 DEF CredInv, HeldCreds
<1>15. \A q \in persisters' : PersisterCreds(q)'
  <2> TAKE q \in persisters'
  <2>1. PICK p \in persisters : q = IF NextCall.who = "persister" /\ p.session = NextCall.n
                                    THEN PersisterHeard(p, ok) ELSE p
        BY <1>2
  <2>2. /\ NextCall = Write("persister", p.session, p.dirty) /\ GoneAfter(NextCall) = {}
        /\ p \in Persisters /\ p.latest \in Credentials /\ p.dirty \in Credentials
        /\ p.stage \in {"saving", "flushing"}
        BY <1>4, <1>5, <1>6 DEF Persisters
  <2>3. NextCall.who = "persister" /\ NextCall.n = p.session /\ NextCall.cred = p.dirty
        BY <2>2 DEF Write
  <2>4. q = PersisterHeard(p, ok)
        BY <2>1, <2>3
  <2>5. Session(p.latest) /\ NotOlder(p.latest, p.dirty) /\ Newer(p.dirty)
        BY <2>2 DEF CredInv, PersisterCreds
  <2>6. q.latest = p.latest
        BY <2>2, <2>4, HeardPersister
  <2>7. /\ q.stage \notin {"saving", "flushing"}
        /\ q.stage = "retry" => ~ok /\ q.dirty = p.dirty
        BY <1>6, <2>2, <2>4, HeardCreds
  <2>8. keyring' = keyring \/ keyring' = p.dirty
        BY <1>1, <2>3
  <2>9. Session(p.latest)'
        BY <1>10, <2>2, <2>5, <2>8 DEF Session, Newer, NotOlder
  <2>10. q.stage = "retry" => NotOlder(p.latest, q.dirty) /\ Newer(q.dirty)'
    <3>1. ~ok => keyring' = keyring
          BY <1>1
    <3> QED BY <1>10, <2>2, <2>5, <2>7, <3>1 DEF Newer, NotOlder
  <2>11. NotOlder(p.latest, q.dirty) => NotOlder(p.latest, q.dirty)'
        BY DEF NotOlder
  <2> QED BY <2>6, <2>7, <2>9, <2>10, <2>11 DEF PersisterCreds
<1>16. \A q \in restores' : RestoreCreds(q)'
  <2> SUFFICES ASSUME NEW q \in restores', q.stage = "loaded"
               PROVE  keyring' = q.cred /\ q.cred.device # 0
      BY DEF RestoreCreds
  <2>1. PICK r \in restores : q = IF NextCall.who = "restore" THEN RestoreHeard(r, ok) ELSE r
        BY <1>2
  <2>2. r \in Restores
        BY <1>6
  <2>3. NextCall.who = "restore"
        BY <1>4 DEF Read
  <2>4. r.stage = "loading" /\ q.cred = keyring /\ keyring # NoSession
        BY <1>6, <2>1, <2>2, <2>3, HeardCreds
  <2>5. NextCall.op = "get"
        BY <1>4, <2>4 DEF Read
  <2> QED BY <1>1, <1>7, <2>4, <2>5
<1>17. \A q \in signIns' : SignInCreds(q)'
  <2> TAKE q \in signIns'
  <2>1. PICK t \in signIns : q = IF NextCall.who = "signIn" /\ t.attempt = NextCall.n
                                 THEN SignInHeard(t, ok) ELSE t
        BY <1>2
  <2>2. /\ t \in SignIns /\ t.cred \in Credentials /\ t.was \in Credentials
        /\ t.stage \in SignInStages /\ SignInCreds(t) /\ SignInLane(t)
        BY <1>6 DEF SignIns, CredInv, LaneInv
  <2>3. CASE NextCall.who = "persister"
    <3>1. q = t /\ GoneAfter(NextCall) = {}
          BY <1>5, <2>1, <2>3
    <3>2. t.stage \in {"asking", "saving", "puttingBack"}
          BY <1>3, <2>2 DEF SignInLane, SignInStages
    <3>3. CASE t.stage = "asking"
          BY <1>8, <1>9, <2>2, <3>1, <3>3 DEF SignInCreds, LoginCreds
    <3>4. CASE t.stage # "asking"
      <4>1. PICK d : Behind(d) /\ (t.stage = "saving" => d = Write("signIn", t.attempt, t.cred))
                               /\ (t.stage = "puttingBack" => d = Write("signIn", t.attempt, t.was))
            BY <2>2, <3>2, <3>4 DEF SignInLane
      <4>2. d.who = "signIn"
            BY <3>2, <3>4, <4>1 DEF Write
      <4>3. lane = <<NextCall, d>>
        <5>1. lane # <<d>>
              BY <1>3, <2>3, <4>2, ShortQueues
        <5>2. PICK w : lane = <<w, d>>
              BY <4>1, <5>1 DEF Behind
        <5> QED BY <1>3, <2>3, <5>2, ShortQueues
      <4>4. phase \notin Fresh
        <5>1. lane # <<>> /\ \A c : lane # <<c>>
              BY <4>3, ShortQueues
        <5> QED BY <5>1 DEF LaneInv, LaneShape
      <4>5. t.method \notin LoginMethods \cup {"check"}
        <5>1. phase \in PhasesOf(t.method)
              BY DEF PhaseInv, AuthInv
        <5> QED BY <4>4, <5>1 DEF PhasesOf, LoginMethods, Fresh
      <4>6. t.stage = "saving" /\ d.cred = t.cred /\ d.op = "set"
        <5>1. t.stage # "puttingBack"
              BY <2>2, <4>5 DEF SignInLane
        <5>2. t.stage = "saving"
              BY <3>2, <3>4, <5>1
        <5> QED BY <4>1, <5>2 DEF Write
      <4>7. NotOlder(t.cred, NextCall.cred)
        <5>1. d \in Calls
              BY <1>3, <2>3, <4>3, ShortQueues DEF OwnCalls
        <5> QED BY <1>3, <4>3, <4>6, <5>1 DEF CredInv, LaneCreds
      <4>8. Session(t.cred)
            BY <2>2, <4>6 DEF SignInCreds
      <4>9. Session(t.cred)'
        <5>1. keyring' = keyring \/ keyring' = NextCall.cred
              BY <1>1
        <5> QED BY <1>10, <2>2, <3>1, <4>7, <4>8, <5>1 DEF Session, Newer, NotOlder
      <4> QED BY <1>8, <1>9, <2>2, <3>1, <4>5, <4>9 DEF SignInCreds
    <3> QED BY <3>3, <3>4
  <2>4. CASE NextCall.who # "persister" /\ t.stage = "saving"
    <3>1. NextCall = Write("signIn", t.attempt, t.cred) /\ GoneAfter(NextCall) = {}
          BY <1>4, <1>5, <2>4
    <3>2. /\ NextCall.who = "signIn" /\ NextCall.n = t.attempt /\ NextCall.cred = t.cred
          /\ NextCall.op = "set"
          BY <3>1 DEF Write
    <3>3. q = SignInHeard(t, ok)
          BY <2>1, <3>2
    <3>4. /\ q.method = t.method /\ q.device = t.device /\ q.cred = t.cred
          /\ q.stage = (IF ok THEN "saved" ELSE "unsaved") /\ q.was = keyring
          BY <1>6, <2>2, <2>4, <3>3, HeardSignIn, HeardCreds
    <3>5. keyring' = IF ok THEN t.cred ELSE keyring
          BY <1>1, <3>2
    <3>6. Session(t.cred)
          BY <2>2, <2>4 DEF SignInCreds
    <3>7. Session(t.cred)'
      <4>1. t.cred.token \in Nat
            BY <2>2 DEF Credentials
      <4> QED BY <1>10, <2>2, <3>1, <3>5, <3>6, <4>1 DEF Session, Newer, NotOlder
    <3>8. t.method \in LoginMethods => LoginCreds(q)'
      <4> SUFFICES ASSUME t.method \in LoginMethods PROVE LoginCreds(q)'
          OBVIOUS
      <4>1. t.device = 0 /\ keyring.device # t.cred.device
            BY <2>2, <2>4 DEF SignInCreds, LoginCreds
      <4>2. t.cred.device \in Devices /\ Safe(keyring)
            BY <1>7, <2>2, <3>6 DEF Newer
      <4>3. PICK held0 \in Credentials : held0 = keyring
            BY <1>6
      <4>4. Safe(held0)' /\ q.was = held0
            BY <1>10, <3>1, <3>4, <4>2, <4>3
      <4> QED BY <1>8, <3>4, <3>5, <4>1, <4>2, <4>3, <4>4 DEF LoginCreds
    <3>9. t.method \notin LoginMethods \cup {"check"} => t.device \in Devices' \ gone'
          BY <1>8, <1>9, <2>2, <3>1 DEF SignInCreds
    <3>10. t.method = "check" => t.device = 0
          BY <2>2 DEF SignInCreds
    <3> QED BY <3>4, <3>7, <3>8, <3>9, <3>10 DEF SignInCreds
  <2>5. CASE NextCall.who # "persister" /\ t.stage # "saving"
    <3>1. t.method \in LoginMethods /\ NextCall = Write("signIn", t.attempt, t.was)
          BY <1>4, <2>5
    <3>2. NextCall.who = "signIn" /\ NextCall.n = t.attempt
          BY <3>1 DEF Write
    <3>3. q = SignInHeard(t, ok)
          BY <2>1, <3>2
    <3>4. /\ q.method = t.method /\ q.device = t.device /\ q.stage \in {"undone", "stuck"}
          BY <1>6, <2>2, <2>5, <3>3, HeardSignIn, HeardCreds
    <3>5. t.device = 0
          BY <2>2, <3>1 DEF SignInCreds, LoginCreds
    <3> QED BY <3>1, <3>4, <3>5 DEF SignInCreds, LoginCreds
  <2> QED BY <2>3, <2>4, <2>5
<1>18. \A f \in erasures' : f.device \in Devices'
  <2>1. \A e \in erasures : e \in Erasures /\ e.device \in Devices
        BY <1>6 DEF CredInv
  <2> TAKE f \in erasures'
  <2>2. PICK e \in erasures : f = IF NextCall.who = "erasure" /\ e.session = NextCall.n
                                  THEN [e EXCEPT !.stage = "cleared"] ELSE e
        BY <1>2
  <2>3. f.device = e.device
        BY <2>1, <2>2, HeardErasure
  <2> QED BY <1>8, <2>1, <2>2, <2>3
<1>19. ~Quitting' => \A m \in Waiting' : MessageCreds(m)'
  <2>1. Waiting' = Waiting /\ (Quitting' <=> Quitting)
        BY <1>1, InboxStays DEF Quitting
  <2> SUFFICES ASSUME ~Quitting, NEW m \in Waiting PROVE MessageCreds(m)'
      BY <2>1
  <2>2. m.kind \notin {"Restored", "LoggedIn", "Resumed"}
    <3> SUFFICES ASSUME m.kind \in {"Restored", "LoggedIn", "Resumed"} PROVE FALSE
        OBVIOUS
    <3>1. serving = "undoing"
          BY <1>3, NothingBeforeSession
    <3>2. phase \in FirstAuth /\ Undoing
          BY <3>1, OneKindOfTask DEF Undoing
    <3>3. m.kind # "Restored"
          BY <3>2, WaitingPhases DEF RestoreEvents, FirstAuth
    <3>4. m.kind \in Verdicts
          BY <3>3 DEF Verdicts
    <3>5. Pending(Verdicts) # 0
      <4>1. inbox \in Seq(Message)
            BY DEF TypeInv, LoopTypes
      <4> QED BY <3>4, <4>1, NonePending
    <3> QED BY <3>2, <3>5 DEF PhaseInv, OneAuth
  <2> QED BY <2>2, PlainMessages
<1> QED BY <1>11, <1>12, <1>13, <1>14, <1>15, <1>16, <1>17, <1>18, <1>19 DEF CredInv

\* Every step keeps what is written.
LEMMA StepCreds ==
    TypeInv /\ PhaseInv /\ LaneInv /\ CredInv /\ [Next]_vars => CredInv'
<1> SUFFICES ASSUME TypeInv, PhaseInv, LaneInv, CredInv, [Next]_vars PROVE CredInv'
    OBVIOUS
<1>1. CASE HandleCommand \/ HandleEvent
      BY <1>1, CommandStores, EventStores, HandlerCreds
<1>2. CASE Resume \/ AbortStragglers \/ UserSends
      BY <1>2, ResumeCreds
<1>3. CASE SignInStep
      BY <1>3, SignInStepCreds
<1>4. CASE RestoreStep
      BY <1>4, RestoreStepCreds
<1>5. CASE SyncStep \/ Refresh \/ PersisterStep \/ LogoutRisksRead
      BY <1>5, BackgroundCreds
<1>6. CASE ErasureStep
      BY <1>6, ErasureStepCreds
<1>7. CASE RunCall
      BY <1>7, RunCallCreds
<1>8. CASE UNCHANGED vars
  <2>1. /\ UNCHANGED <<lane, keyring, gone, held, serving, after, issued, inbox>>
        /\ UNCHANGED <<persisters, signIns, restores, erasures>>
        BY <1>8 DEF vars, loop, operations, background, storage, environment, history
  <2> QED BY <2>1, TaskCreds
<1> QED BY <1>1, <1>2, <1>3, <1>4, <1>5, <1>6, <1>7, <1>8 DEF Next

\* What is written is always so.
LEMMA CredsAlways == Spec => [](TypeInv /\ PhaseInv /\ LaneInv /\ CredInv)
<1>1. Init => CredInv
      BY InitCredInv
<1>2. TypeInv /\ PhaseInv /\ LaneInv /\ CredInv /\ [Next]_vars => CredInv'
      BY StepCreds
<1> QED BY <1>1, <1>2, LaneAlways, PTL DEF Spec

\* A device whose saved session was erased, or put away by the undoing of its
\* login, is never saved again: no write of its persister, finished, aborted or
\* still in the lane, comes after.
THEOREM GoneIsNeverSaved == Spec => []GoneStaysGone
<1>1. CredInv => GoneStaysGone
      BY DEF CredInv, Safe, GoneStaysGone
<1> QED BY <1>1, CredsAlways, PTL

\* Only the lane writes to the keyring.
LEMMA OnlyCallsWrite ==
    ASSUME [Next]_vars, ~RunCall
    PROVE  UNCHANGED keyring
<1> USE DEF storage
<1>1. CASE HandleCommand
      BY <1>1 DEF HandleCommand, RefuseCommand, RestoreSession, Authenticate, Reauthenticate, CancelOAuth,
                  CheckLogout, LogoutUnchecked, ConfirmLogout, CancelLogout, Quit
<1>2. CASE HandleEvent
      BY <1>2 DEF HandleEvent, SettleRestore, SettleRestoreFailure, SettleDiscovery, SettleAuthFailure,
                  SettleLogin, UndoSupersededLogin, SettleUnresolved, SettleResume, SuspendSession,
                  ExpireSession, LogoutChecked, SettleErasure, Rest
<1>3. CASE Resume \/ AbortStragglers
      BY <1>3 DEF Resume, LoginUndone, WoundDown, AbortStragglers
<1>4. CASE SignInStep
      BY <1>4 DEF SignInStep, SignInCancelled, SignInRefused, ServerChecked, SignInGranted,
                  LoginEstablished, LoginRollsBack, LoginRolledBack, LoginStuck, SessionResumed,
                  SignInRest
<1>5. CASE RestoreStep \/ ErasureStep \/ UserSends
      BY <1>5 DEF RestoreStep, RestoreFails, RestorePauses, RestoreSucceeds, RestoreForgets, RestoreRest,
                  ErasureStep, ErasureBegins, ErasureEnds, ErasureRest, UserSends
<1>6. CASE SyncStep \/ Refresh \/ PersisterStep \/ LogoutRisksRead
      BY <1>6 DEF SyncStep, SyncEnds, SessionLost, Refresh, TokensRefreshed, PersisterStep,
                  PersisterStores, PersisterRetries, ListenerEnds, PersisterFlushes, PersisterEnds,
                  LogoutRisksRead, BackgroundRest
<1>7. CASE UNCHANGED vars
      BY <1>7 DEF vars
<1> QED BY <1>1, <1>2, <1>3, <1>4, <1>5, <1>6, <1>7 DEF Next

\* A saved session is only replaced by newer tokens of the same device, whoever
\* writes them: the persister, an aborted one, or the task that signed in again.
THEOREM TokensOnlyGoForward == Spec => TokensNeverGoBack
<1>1. ASSUME TypeInv, PhaseInv, LaneInv, CredInv, [Next]_vars
      PROVE  keyring'.device = keyring.device => keyring'.token >= keyring.token
  <2>1. keyring.token \in Nat
        BY <1>1, CredFacts
  <2>2. CASE RunCall
    <3>1. keyring' = keyring \/ (NextCall.op = "set" /\ keyring' = NextCall.cred)
          BY <1>1, <2>2, CallWrites
    <3>2. NextCall.op = "set" => NotOlder(NextCall.cred, keyring)
          BY <1>1, <2>2, NextCallFacts DEF Newer
    <3> QED BY <2>1, <3>1, <3>2 DEF NotOlder
  <2>3. CASE ~RunCall
    <3>1. UNCHANGED keyring
          BY <1>1, <2>3, OnlyCallsWrite
    <3> QED BY <2>1, <3>1
  <2> QED BY <2>2, <2>3
<1>2. TypeInv /\ PhaseInv /\ LaneInv /\ CredInv /\ [Next]_vars
          => (keyring'.device = keyring.device => keyring'.token >= keyring.token)
      BY <1>1
<1> QED BY <1>2, CredsAlways, PTL DEF Spec, TokensNeverGoBack

=============================================================================
