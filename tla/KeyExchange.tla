------------------------------ MODULE KeyExchange ------------------------------
(* The media keys of one encrypted call of u2dm-client: KeyExchange           *)
(* (domain/call/keys.rs) driven by the call it belongs to (app/calls/         *)
(* joined.rs, app/calls/in_call.rs).                                          *)
(*                                                                            *)
(* The device sends its own key to the other members of the call and makes a  *)
(* new one when someone leaves, or when someone joins and the key is old. A   *)
(* new key is installed and sent at once and used KEY_SWITCH_DELAY later, so  *)
(* that the members have it by then. Keys of others are installed as they     *)
(* arrive, in any order, and wait while their member is not in the list.      *)
(*                                                                            *)
(* A member is held against its membership: KeyHolder is the member with the  *)
(* time it joined, here the number of its session in this call. Own keys are  *)
(* numbered as they are made; sent_ms of a key of another member is the       *)
(* number of its sending. Time is counted in ticks and only as ages and       *)
(* delays. The key material, the to-device encryption and the frame cryptor   *)
(* are not modelled: a key sent is what Effect::SendKey hands to its task,    *)
(* and slots and inUse are the commands OwnKey and UseOwnKey of the media.    *)
EXTENDS Integers, Sequences, FiniteSets, Queues

CONSTANTS
    Others,         \* the members of the room that may join the call
    Slots,          \* key indexes the others send under
    IndexSpan,      \* indexes before KeyIndex wraps, 256 in the code
    KeyReuseWindow, \* KEY_REUSE_WINDOW, in ticks
    KeySwitchDelay, \* KEY_SWITCH_DELAY, in ticks
    QueuedKeysMax,  \* QUEUED_KEYS_MAX
    Never,          \* no switch is pending
    MaxSessions,    \* bound: times a member joins
    MaxKeys,        \* bound: own keys made
    MaxChurn,       \* bound: own keys made while one switch is pending
    MaxSent         \* bound: keys the others send

ASSUME ParametersAssumption ==
    /\ IndexSpan \in Nat /\ KeyReuseWindow \in Nat /\ KeySwitchDelay \in Nat
    /\ QueuedKeysMax \in Nat \ {0}
    /\ Never \notin Int
    /\ MaxSessions \in Nat /\ MaxKeys \in Nat \ {0} /\ MaxSent \in Nat
    /\ MaxChurn \in Nat /\ MaxChurn < IndexSpan

VARIABLES
    \* KeyExchange
    own, switch, holders, newest, queued,
    \* the media's own keys: what each index holds, the index in use
    slots, inUse,
    \* Joined: its membership is sent, the members it knows, its wake timers
    joined, seen, wakes,
    \* keys of others on their way, and how many were sent
    inFlight, sent,
    \* history: members the newest own key went to, the last key to arrive per slot
    audience, due

exchange == <<own, switch, holders, slots, inUse, audience>>
received == <<newest, queued, due>>
call == <<joined, seen>>
network == <<inFlight, sent>>
vars == <<exchange, received, call, wakes, network>>

-----------------------------------------------------------------------------
Sessions == 1..MaxSessions
Absent == 0
\* The list of members without us, with the session each is in.
Lists == [Others -> Sessions \cup {Absent}]
Holders == Others \X Sessions
HoldersOf(list) == {h \in Holders : list[h[1]] = h[2]}

Keys == 1..MaxKeys
NoKey == 0
Indexes == 0..(IndexSpan - 1)
\* Mutant of NextIndex: the index does not wrap.
NextIndexGrows(i) == i + 1
\* Mutant of NextIndex: two indexes in turn.
NextOfTwo(i) == IF i = 0 THEN 1 ELSE 0
NextIndex(i) == IF i = IndexSpan - 1 THEN 0 ELSE i + 1

OwnKeys == [index: Indexes, key: Keys, age: 0..KeyReuseWindow]
Switches == [index: Indexes, left: 0..KeySwitchDelay \cup {Never}]
NoSwitch == [index |-> 0, left |-> Never]
Pending == switch.left # Never

KeySlots == Others \X Slots
ReceivedKeys == [slot: KeySlots, sent: 1..MaxSent]

Larger(a, b) == IF a >= b THEN a ELSE b

-----------------------------------------------------------------------------
(* Own keys *)

\* The first key goes to the members listed, nobody when the call starts.
FirstKey(others) ==
    /\ own = [index |-> 0, key |-> 1, age |-> 0]
    /\ switch = NoSwitch
    /\ holders = others
    /\ slots = [i \in Indexes |-> IF i = 0 THEN 1 ELSE NoKey]
    /\ inUse = 0
    /\ audience = others

\* Mutant of Rotate: a switch that is pending is left as it is.
RotateKeepingSwitch(others) ==
    LET index == NextIndex(own.index)
        key == own.key + 1
    IN /\ key \in Keys /\ key - slots[inUse] <= MaxChurn
       /\ own' = [index |-> index, key |-> key, age |-> 0]
       /\ holders' = others
       /\ switch' = IF Pending THEN switch
                    ELSE [index |-> index, left |-> KeySwitchDelay]
       /\ slots' = [slots EXCEPT ![index] = key]
       /\ audience' = others
       /\ wakes' = wakes \cup {KeySwitchDelay}
       /\ UNCHANGED inUse

\* Mutant of Rotate: the timer of the switch before is relied on.
RotateUnwoken(others) ==
    LET index == NextIndex(own.index)
        key == own.key + 1
    IN /\ key \in Keys /\ key - slots[inUse] <= MaxChurn
       /\ own' = [index |-> index, key |-> key, age |-> 0]
       /\ holders' = others
       /\ switch' = [index |-> index, left |-> KeySwitchDelay]
       /\ slots' = [slots EXCEPT ![index] = key]
       /\ audience' = others
       /\ UNCHANGED <<inUse, wakes>>

\* A new key is installed under the next index and sent to everyone listed; it
\* replaces the switch that is pending, and its timer is added to the others.
Rotate(others) ==
    LET index == NextIndex(own.index)
        key == own.key + 1
    IN /\ key \in Keys /\ key - slots[inUse] <= MaxChurn
       /\ own' = [index |-> index, key |-> key, age |-> 0]
       /\ holders' = others
       /\ switch' = [index |-> index, left |-> KeySwitchDelay]
       /\ slots' = [slots EXCEPT ![index] = key]
       /\ audience' = others
       /\ wakes' = wakes \cup {KeySwitchDelay}
       /\ UNCHANGED inUse

\* Whoever joins a young key gets it as it is.
SendToJoiners(joiners) ==
    /\ holders' = holders \cup joiners
    /\ audience' = audience \cup joiners
    /\ UNCHANGED <<own, switch, slots, inUse, wakes>>

\* Mutant of SomeoneLeft: members are compared without the session they are in.
SomeoneGone(others) ==
    {h[1] : h \in holders} \ {h[1] : h \in others} # {}
SomeoneLeft(others) == holders \ others # {}
Joiners(others) == others \ holders
KeyIsOld == own.age >= KeyReuseWindow
MustRotate(others) ==
    SomeoneLeft(others) \/ (Joiners(others) # {} /\ KeyIsOld)

-----------------------------------------------------------------------------
(* Keys of others *)

IsStale(key) == newest[key.slot] >= key.sent

\* A key for the same slot is replaced, whichever was sent first; over the
\* limit the longest waiting one is dropped.
Queue(key) ==
    LET kept == Retain(queued, {k \in ReceivedKeys : k.slot # key.slot})
        full == Len(kept) >= QueuedKeysMax
    IN /\ queued' = Append(IF full THEN Tail(kept) ELSE kept, key)
       /\ due' = [s \in KeySlots |->
                    IF s = key.slot THEN key.sent
                    ELSE IF full /\ s = Head(kept).slot THEN 0 ELSE due[s]]

\* Mutant of ReleaseQueued: what waited is installed without asking if it is stale.
ReleaseAll(list) ==
    LET ready == {k \in {queued[i] : i \in 1..Len(queued)} :
                    list[k.slot[1]] # Absent}
    IN /\ queued' = Retain(queued, {k \in ReceivedKeys : list[k.slot[1]] = Absent})
       /\ newest' = [s \in KeySlots |->
            IF \E k \in ready : k.slot = s
            THEN (CHOOSE k \in ready : k.slot = s).sent
            ELSE newest[s]]
       /\ UNCHANGED due

\* Keys that waited for a member who is listed now are installed, the stale
\* ones dropped. The queue holds one key per slot.
ReleaseQueued(list) ==
    LET ready == {k \in {queued[i] : i \in 1..Len(queued)} :
                    list[k.slot[1]] # Absent}
    IN /\ queued' = Retain(queued, {k \in ReceivedKeys : list[k.slot[1]] = Absent})
       /\ newest' = [s \in KeySlots |->
            IF \E k \in ready : k.slot = s
            THEN Larger(newest[s], (CHOOSE k \in ready : k.slot = s).sent)
            ELSE newest[s]]
       /\ UNCHANGED due

-----------------------------------------------------------------------------
(* The call *)

\* Joined::start makes the first key before its membership is sent, and the
\* members it is started with are not told to the exchange yet.
Init ==
    /\ FirstKey({})
    /\ newest = [s \in KeySlots |-> 0]
    /\ queued = <<>>
    /\ joined = FALSE
    /\ seen \in [Others -> {Absent, 1} \cap (Sessions \cup {Absent})]
    /\ wakes = {}
    /\ inFlight = {} /\ sent = 0
    /\ due = [s \in KeySlots |-> 0]

\* Mutant of ExchangeMembers: when a new key is made, nothing is released.
ExchangeOrRelease(list) ==
    LET others == HoldersOf(list)
    IN \/ MustRotate(others) /\ Rotate(others) /\ UNCHANGED received
       \/ /\ ~MustRotate(others) /\ SendToJoiners(Joiners(others))
          /\ ReleaseQueued(list)

\* KeyExchange::members_changed
ExchangeMembers(list) ==
    LET others == HoldersOf(list)
    IN /\ ReleaseQueued(list)
       /\ \/ MustRotate(others) /\ Rotate(others)
          \/ ~MustRotate(others) /\ SendToJoiners(Joiners(others))

\* The first time the lane reports its membership sent.
LaneJoined ==
    /\ ~joined
    /\ joined' = TRUE
    /\ ExchangeMembers(seen)
    /\ UNCHANGED <<seen, network>>

\* The room's list changed: members leave, join, or left and joined again
\* between two lists. Before the membership is sent only the list is kept.
MembersChanged(list) ==
    /\ list # seen
    /\ seen' = list
    /\ IF joined THEN ExchangeMembers(list) ELSE UNCHANGED <<exchange, received, wakes>>
    /\ UNCHANGED <<joined, network>>

\* A key of another member arrives, however long it was on its way.
Receive(key) ==
    /\ key \in inFlight
    /\ inFlight' = inFlight \ {key}
    /\ \/ /\ IsStale(key)
          /\ UNCHANGED received
       \/ /\ ~IsStale(key) /\ seen[key.slot[1]] = Absent
          /\ Queue(key)
          /\ UNCHANGED newest
       \/ /\ ~IsStale(key) /\ seen[key.slot[1]] # Absent
          /\ newest' = [newest EXCEPT ![key.slot] = key.sent]
          /\ due' = [due EXCEPT ![key.slot] = key.sent]
          /\ UNCHANGED queued
    /\ UNCHANGED <<exchange, call, wakes, sent>>


\* A wake timer ran out and its event is handled: a switch that is due takes
\* place, one that is not is woken for again.
KeyWake ==
    /\ 0 \in wakes
    /\ IF switch.left = 0
       THEN /\ inUse' = switch.index
            /\ switch' = NoSwitch
            /\ wakes' = wakes \ {0}
       ELSE /\ wakes' = (wakes \ {0}) \cup (IF Pending THEN {switch.left} ELSE {})
            /\ UNCHANGED <<inUse, switch>>
    /\ UNCHANGED <<own, holders, slots, audience, received, call, network>>

\* Time passes; a timer that ran out may be handled any time later.
Minus1(n) == IF n = 0 THEN 0 ELSE n - 1
Tick ==
    /\ own' = [own EXCEPT !.age = IF @ < KeyReuseWindow THEN @ + 1 ELSE @]
    /\ switch' = [switch EXCEPT !.left = IF Pending THEN Minus1(@) ELSE @]
    /\ wakes' = {Minus1(w) : w \in wakes}
    /\ <<own, switch, wakes>>' # <<own, switch, wakes>>
    /\ UNCHANGED <<holders, slots, inUse, audience, received, call, network>>

\* Another member sends a key of its own, listed here yet or not.
OtherSends(slot) ==
    /\ sent < MaxSent
    /\ sent' = sent + 1
    /\ inFlight' = inFlight \cup {[slot |-> slot, sent |-> sent + 1]}
    /\ UNCHANGED <<exchange, received, call, wakes>>

Next ==
    \/ LaneJoined
    \/ \E list \in Lists : MembersChanged(list)
    \/ \E key \in inFlight : Receive(key)
    \/ KeyWake
    \/ Tick
    \/ \E slot \in KeySlots : OtherSends(slot)

Spec == Init /\ [][Next]_vars

\* Timers of tokio fire and the events they send are handled.
Fairness == WF_vars(KeyWake) /\ WF_vars(Tick)
FairSpec == Spec /\ Fairness

-----------------------------------------------------------------------------
(* Properties *)

\* Every variable holds what its declaration says.
TypeOK ==
    /\ own \in OwnKeys /\ switch \in Switches
    /\ holders \subseteq Holders
    /\ newest \in [KeySlots -> 0..MaxSent] /\ due \in [KeySlots -> 0..MaxSent]
    /\ queued \in Seq(ReceivedKeys) /\ Len(queued) <= QueuedKeysMax
    /\ slots \in [Indexes -> Keys \cup {NoKey}] /\ inUse \in Indexes
    /\ joined \in BOOLEAN /\ seen \in Lists
    /\ wakes \subseteq 0..KeySwitchDelay
    /\ inFlight \subseteq ReceivedKeys /\ sent \in 0..MaxSent
    /\ audience \subseteq Holders

\* Once the call is joined, the newest own key went to exactly the members
\* listed, each in the membership it is listed with: whoever left, or left and
\* came back between two lists, does not hold it, and whoever joined does.
NewestKeyReachesMembersOnly ==
    joined => audience = HoldersOf(seen)

\* When no switch is pending, the media is sent under the newest own key: so
\* nobody who left can read it, and everybody listed can.
MediaIsForMembersOnly ==
    ~Pending => /\ slots[inUse] = own.key
                /\ joined => audience = HoldersOf(seen)

\* A pending switch has a timer that goes off when it is due or before, also
\* when a later rotation replaced the switch its timer was set for.
SwitchIsWoken == Pending => \E w \in wakes : w <= switch.left

\* While the media is sent under an own key, no other key is put under the
\* index it is sent under, as the index wraps or as keys are made before the one
\* before is switched to: at most MaxChurn of them, fewer than there are indexes.
\* KeyExchange sets no such limit, and past it the index does come back.
KeyInUseStays == [][inUse' = inUse => slots'[inUse] = slots[inUse]]_vars

\* A key of another member that arrived last for its slot is installed, or a
\* newer one is, or it waits for its member, who in a joined call is not listed;
\* it is lost only when QUEUED_KEYS_MAX later ones wait.
LastArrivalIsKept ==
    \A s \in KeySlots :
        \/ newest[s] >= due[s]
        \/ /\ \E i \in 1..Len(queued) : queued[i] = [slot |-> s, sent |-> due[s]]
           /\ joined => seen[s[1]] = Absent

\* A slot never goes back to a key that was sent before the one it holds, by
\* whichever way the older one arrived.
SlotsNeverGoBack == [][\A s \in KeySlots : newest'[s] >= newest[s]]_vars

\* Every own key made is used in the end, or a newer one was made before.
NewKeyIsUsed ==
    \A k \in Keys : own.key = k ~> (slots[inUse] = k \/ own.key # k)

=============================================================================
