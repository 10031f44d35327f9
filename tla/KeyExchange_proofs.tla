--------------------------- MODULE KeyExchange_proofs ---------------------------
(* Proofs about KeyExchange: who holds the newest own key, under which key    *)
(* the media is sent, that the key in use is not overwritten, and what        *)
(* becomes of the keys of others, for any members, any index span, any delays *)
(* and any length of the queue.                                               *)
EXTENDS KeyExchange, Queues_proofs

\* The key each index holds, told from the newest key alone: the index counts
\* the keys made, so the keys before the newest lie below its index, and those
\* of the round before above it.
KeyAt(i) ==
    IF i <= own.index THEN own.key - (own.index - i)
    ELSE IF own.key - own.index + i - IndexSpan > 0
         THEN own.key - own.index + i - IndexSpan ELSE NoKey

\* Own keys: the index follows the key, and a pending switch is to the newest.
OwnInv ==
    /\ own \in OwnKeys /\ own.key > own.index
    /\ slots \in [Indexes -> Nat]
    /\ \A i \in Indexes : slots[i] = KeyAt(i)
    /\ inUse \in Indexes /\ slots[inUse] > 0
    /\ switch \in Switches
    /\ Pending => switch.index = own.index
    /\ ~Pending => inUse = own.index

\* Members: the holders are who the newest key went to, and in a joined call
\* who is listed.
MemberInv ==
    /\ audience = holders
    /\ joined => holders = HoldersOf(seen)

\* Timers.
WakeInv == wakes \subseteq 0..KeySwitchDelay /\ SwitchIsWoken

KeyInv == OwnInv /\ MemberInv /\ WakeInv

-----------------------------------------------------------------------------
(* Rotation *)

\* The index a new key takes is not the one in use, as fewer keys are made
\* while a switch is pending than there are indexes.
LEMMA NextIsFree ==
    ASSUME OwnInv, own.key + 1 - slots[inUse] <= MaxChurn
    PROVE  NextIndex(own.index) \in Indexes /\ NextIndex(own.index) # inUse
<1>1. /\ IndexSpan \in Nat /\ MaxChurn \in Nat /\ MaxChurn < IndexSpan
      /\ own.index \in Nat /\ own.index < IndexSpan /\ own.key \in Nat
      /\ inUse \in Nat /\ inUse < IndexSpan
      BY ParametersAssumption DEF OwnInv, OwnKeys, Indexes, Keys
<1>2. slots[inUse] = KeyAt(inUse) /\ slots[inUse] > 0 /\ own.key > own.index
      BY DEF OwnInv
<1>3. CASE own.index = IndexSpan - 1
      BY <1>1, <1>2, <1>3 DEF NextIndex, Indexes, KeyAt, NoKey
<1>4. CASE own.index # IndexSpan - 1
      BY <1>1, <1>2, <1>4 DEF NextIndex, Indexes, KeyAt, NoKey
<1> QED BY <1>3, <1>4

\* A rotation keeps the shape of the own keys and leaves the key in use.
LEMMA RotateKeeps ==
    ASSUME OwnInv, WakeInv, NEW others, Rotate(others)
    PROVE  OwnInv' /\ WakeInv' /\ slots'[inUse] = slots[inUse]
<1> DEFINE next == NextIndex(own.index)
<1>1. /\ own' = [index |-> next, key |-> own.key + 1, age |-> 0]
      /\ switch' = [index |-> next, left |-> KeySwitchDelay]
      /\ slots' = [slots EXCEPT ![next] = own.key + 1]
      /\ inUse' = inUse
      /\ wakes' = wakes \cup {KeySwitchDelay}
      /\ own.key + 1 \in Keys
      /\ own.key + 1 - slots[inUse] <= MaxChurn
  <2>1. own' = [index |-> next, key |-> own.key + 1, age |-> 0]
        BY DEF Rotate
  <2>2. switch' = [index |-> next, left |-> KeySwitchDelay]
        BY DEF Rotate
  <2>3. slots' = [slots EXCEPT ![next] = own.key + 1]
        BY DEF Rotate
  <2>4. inUse' = inUse /\ wakes' = wakes \cup {KeySwitchDelay}
        BY DEF Rotate
  <2>5. own.key + 1 \in Keys
        BY DEF Rotate
  <2>6. own.key + 1 - slots[inUse] <= MaxChurn
        BY DEF Rotate, OwnInv, OwnKeys, Keys
  <2> QED BY <2>1, <2>2, <2>3, <2>4, <2>5, <2>6
<1>2. next \in Indexes /\ next # inUse
      BY <1>1, NextIsFree
<1> HIDE DEF next
<1>3. /\ IndexSpan \in Nat /\ KeyReuseWindow \in Nat /\ KeySwitchDelay \in Nat
      /\ Never \notin Int
      BY ParametersAssumption
<1>4. own' \in OwnKeys /\ switch' \in Switches
      BY <1>1, <1>2, <1>3 DEF OwnKeys, Switches
<1>5. slots' \in [Indexes -> Nat] /\ slots'[inUse] = slots[inUse]
      /\ inUse' \in Indexes /\ slots'[inUse'] > 0
      BY <1>1, <1>2 DEF OwnInv, Keys
<1>6. own'.key > own'.index /\ \A i \in Indexes : slots'[i] = KeyAt(i)'
  <2>1. own.index \in 0..(IndexSpan - 1) /\ own.key \in Nat /\ own.key > own.index
        BY DEF OwnInv, OwnKeys, Indexes, Keys
  <2>2. own'.key = own.key + 1 /\ own'.index = next
        BY <1>1
  <2>3. next = IF own.index = IndexSpan - 1 THEN 0 ELSE own.index + 1
        BY DEF next, NextIndex
  <2>4. own'.key > own'.index
        BY <1>3, <2>1, <2>2, <2>3
  <2>5. ASSUME NEW i \in Indexes PROVE slots'[i] = KeyAt(i)'
    <3>1. i \in 0..(IndexSpan - 1)
          BY DEF Indexes
    <3>2. slots[i] = KeyAt(i) /\ slots' = [slots EXCEPT ![next] = own.key + 1]
          BY <1>1 DEF OwnInv
    <3>3. CASE i = next
      <4>1. slots'[i] = own.key + 1
            BY <1>1, <3>3 DEF OwnInv
      <4> QED BY <4>1, <3>1, <3>3, <1>3, <2>1, <2>2 DEF KeyAt
    <3>4. CASE i # next
      <4>1. slots'[i] = KeyAt(i)
            BY <3>2, <3>4 DEF OwnInv
      <4> QED BY <4>1, <3>1, <3>4, <1>3, <2>1, <2>2, <2>3 DEF KeyAt, NoKey
    <3> QED BY <3>3, <3>4
  <2> QED BY <2>4, <2>5
<1>7. Pending' /\ switch'.index = own'.index
      BY <1>1, <1>3 DEF Pending
<1>8. WakeInv'
      BY <1>1, <1>3 DEF WakeInv, SwitchIsWoken
<1> QED BY <1>4, <1>5, <1>6, <1>7, <1>8 DEF OwnInv

\* Telling the exchange of a list makes its members the holders.
LEMMA ExchangeKeeps ==
    ASSUME OwnInv, WakeInv, audience = holders, NEW list, ExchangeMembers(list)
    PROVE  /\ OwnInv' /\ WakeInv' /\ audience' = holders'
           /\ holders' = HoldersOf(list)
           /\ slots'[inUse] = slots[inUse]
<1> DEFINE others == HoldersOf(list)
<1>1. CASE MustRotate(others) /\ Rotate(others)
  <2>1. audience' = holders' /\ holders' = others
        BY <1>1 DEF Rotate
  <2> QED BY <1>1, <2>1, RotateKeeps
<1>2. CASE ~MustRotate(others) /\ SendToJoiners(Joiners(others))
  <2>1. holders \ others = {}
        BY <1>2 DEF MustRotate, SomeoneLeft
  <2>2. /\ holders' = holders \cup (others \ holders)
        /\ audience' = audience \cup (others \ holders)
        BY <1>2 DEF SendToJoiners, Joiners
  <2>3. UNCHANGED <<own, switch, slots, inUse, wakes>>
        BY <1>2 DEF SendToJoiners
  <2>4. holders' = others
        BY <2>1, <2>2
  <2>5. OwnInv' /\ WakeInv'
        BY <2>3 DEF OwnInv, WakeInv, SwitchIsWoken, Pending, KeyAt
  <2> QED BY <2>2, <2>3, <2>4, <2>5
<1> QED BY <1>1, <1>2 DEF ExchangeMembers

-----------------------------------------------------------------------------
(* The inductive invariant *)

\* The keys hold at first.
LEMMA InitKeyInv == Init => KeyInv
<1> SUFFICES ASSUME Init PROVE KeyInv
    OBVIOUS
<1>1. IndexSpan \in Nat \ {0} /\ KeyReuseWindow \in Nat /\ MaxKeys \in Nat \ {0}
      /\ KeySwitchDelay \in Nat /\ Never \notin Int
      BY ParametersAssumption
<1>2. /\ own = [index |-> 0, key |-> 1, age |-> 0] /\ switch = NoSwitch
      /\ holders = {} /\ audience = {} /\ inUse = 0
      /\ slots = [i \in Indexes |-> IF i = 0 THEN 1 ELSE NoKey]
      BY DEF Init, FirstKey
<1>3. OwnInv
  <2>1. own \in OwnKeys /\ own.key > own.index /\ switch \in Switches /\ ~Pending
        BY <1>1, <1>2 DEF OwnKeys, Indexes, Keys, Switches, NoSwitch, Pending
  <2>2. slots \in [Indexes -> Nat] /\ inUse \in Indexes /\ slots[inUse] > 0
        BY <1>1, <1>2 DEF Indexes, NoKey
  <2>3. \A i \in Indexes : slots[i] = KeyAt(i)
        BY <1>1, <1>2 DEF Indexes, NoKey, KeyAt
  <2> QED BY <1>2, <2>1, <2>2, <2>3 DEF OwnInv
<1>4. MemberInv /\ WakeInv
      BY <1>1, <1>2 DEF Init, MemberInv, WakeInv, SwitchIsWoken, Pending, NoSwitch
<1> QED BY <1>3, <1>4 DEF KeyInv

\* One step keeps the invariant, and keeps the key in use while its index is.
LEMMA StepKeyInv ==
    ASSUME KeyInv, [Next]_vars
    PROVE  KeyInv' /\ (inUse' = inUse => slots'[inUse] = slots[inUse])
<1> USE DEF KeyInv
<1>1. CASE LaneJoined
  <2>1. ExchangeMembers(seen) /\ seen' = seen
        BY <1>1 DEF LaneJoined
  <2>2. audience = holders
        BY DEF MemberInv
  <2>3. /\ OwnInv' /\ WakeInv' /\ audience' = holders'
        /\ holders' = HoldersOf(seen) /\ slots'[inUse] = slots[inUse]
        BY <2>1, <2>2, ExchangeKeeps
  <2> QED BY <2>1, <2>3 DEF MemberInv
<1>2. ASSUME NEW list \in Lists, MembersChanged(list)
      PROVE  KeyInv' /\ (inUse' = inUse => slots'[inUse] = slots[inUse])
  <2>1. seen' = list /\ joined' = joined
        BY <1>2 DEF MembersChanged
  <2>2. CASE joined
    <3>1. ExchangeMembers(list) /\ audience = holders
          BY <1>2, <2>2 DEF MembersChanged, MemberInv
    <3>2. /\ OwnInv' /\ WakeInv' /\ audience' = holders'
          /\ holders' = HoldersOf(list) /\ slots'[inUse] = slots[inUse]
          BY <3>1, ExchangeKeeps
    <3> QED BY <2>1, <3>2 DEF MemberInv
  <2>3. CASE ~joined
    <3>1. UNCHANGED <<own, switch, holders, slots, inUse, audience, wakes>>
          BY <1>2, <2>3 DEF MembersChanged, exchange
    <3> QED BY <2>1, <2>3, <3>1
            DEF OwnInv, MemberInv, WakeInv, SwitchIsWoken, Pending, KeyAt
  <2> QED BY <2>2, <2>3
<1>3. ASSUME UNCHANGED <<own, switch, holders, slots, inUse, audience, wakes, joined, seen>>
      PROVE  KeyInv' /\ (inUse' = inUse => slots'[inUse] = slots[inUse])
      BY <1>3 DEF OwnInv, MemberInv, WakeInv, SwitchIsWoken, Pending, KeyAt
<1>4. ASSUME NEW key \in inFlight, Receive(key)
      PROVE  KeyInv' /\ (inUse' = inUse => slots'[inUse] = slots[inUse])
      BY <1>3, <1>4 DEF Receive, exchange, call
<1>5. ASSUME NEW slot \in KeySlots, OtherSends(slot)
      PROVE  KeyInv' /\ (inUse' = inUse => slots'[inUse] = slots[inUse])
      BY <1>3, <1>5 DEF OtherSends, exchange, call
<1>6. CASE KeyWake
  <2>1. UNCHANGED <<own, holders, slots, audience, joined, seen>> /\ 0 \in wakes
        BY <1>6 DEF KeyWake, call
  <2>2. KeySwitchDelay \in Nat /\ Never \notin Int /\ IndexSpan \in Nat \ {0}
        BY ParametersAssumption
  <2>3. MemberInv'
        BY <2>1 DEF MemberInv
  <2>4. CASE switch.left = 0
    <3>1. inUse' = switch.index /\ switch' = NoSwitch /\ wakes' = wakes \ {0}
          BY <1>6, <2>4 DEF KeyWake
    <3>2. Pending /\ ~Pending'
          BY <2>2, <2>4, <3>1 DEF Pending, NoSwitch
    <3>3. inUse' = own.index
          BY <3>1, <3>2 DEF OwnInv
    <3>4. own.index \in Indexes /\ own.key \in Nat \ {0} /\ own.index \in Nat
          BY DEF OwnInv, OwnKeys, Indexes, Keys
    <3>5. slots[own.index] = own.key
          BY <3>4 DEF OwnInv, KeyAt
    <3>6. switch' \in Switches
          BY <2>2, <3>1 DEF Switches, NoSwitch, Indexes
    <3>7. OwnInv'
          BY <2>1, <3>2, <3>3, <3>4, <3>5, <3>6 DEF OwnInv, KeyAt
    <3>8. WakeInv'
          BY <3>1, <3>2 DEF WakeInv, SwitchIsWoken
    <3> QED BY <2>1, <2>3, <3>7, <3>8
  <2>5. CASE switch.left # 0
    <3>1. UNCHANGED <<inUse, switch>>
          /\ wakes' = (wakes \ {0}) \cup (IF Pending THEN {switch.left} ELSE {})
          BY <1>6, <2>5 DEF KeyWake
    <3>2. OwnInv'
          BY <2>1, <3>1 DEF OwnInv, Pending, KeyAt
    <3>3. switch.left \in 0..KeySwitchDelay \cup {Never}
          BY DEF OwnInv, Switches
    <3>4. CASE Pending
      <4>1. wakes' = (wakes \ {0}) \cup {switch.left} /\ switch' = switch
            BY <3>1, <3>4
      <4>2. switch.left \in 0..KeySwitchDelay
            BY <3>3, <3>4 DEF Pending
      <4>3. wakes' \subseteq 0..KeySwitchDelay
            BY <4>1, <4>2 DEF WakeInv
      <4>4. switch'.left \in wakes' /\ switch'.left <= switch'.left
            BY <2>2, <4>1, <4>2
      <4>5. WakeInv'
            BY <4>3, <4>4 DEF WakeInv, SwitchIsWoken
      <4> QED BY <2>1, <2>3, <3>1, <3>2, <4>5
    <3>5. CASE ~Pending
      <4>1. wakes' = wakes \ {0} /\ ~Pending'
            BY <3>1, <3>5 DEF Pending
      <4>2. WakeInv'
            BY <4>1 DEF WakeInv, SwitchIsWoken
      <4> QED BY <2>1, <2>3, <3>1, <3>2, <4>2
    <3> QED BY <3>4, <3>5
  <2> QED BY <2>4, <2>5
<1>7. CASE Tick
  <2>1. /\ own' = [own EXCEPT !.age = IF @ < KeyReuseWindow THEN @ + 1 ELSE @]
        /\ switch' = [switch EXCEPT !.left = IF Pending THEN Minus1(@) ELSE @]
        /\ wakes' = {Minus1(w) : w \in wakes}
        /\ UNCHANGED <<holders, slots, inUse, audience, joined, seen>>
        BY <1>7 DEF Tick, call
  <2>2. /\ KeySwitchDelay \in Nat /\ KeyReuseWindow \in Nat /\ Never \notin Int
        BY ParametersAssumption
  <2>3. own \in OwnKeys /\ switch \in Switches
        BY DEF OwnInv
  <2>4. own' \in OwnKeys /\ own'.index = own.index /\ own'.key = own.key
        BY <2>1, <2>2, <2>3 DEF OwnKeys
  <2>5. switch'.index = switch.index /\ switch' \in Switches
        /\ (Pending' <=> Pending)
        /\ (Pending => switch'.left = Minus1(switch.left))
        BY <2>1, <2>2, <2>3 DEF Switches, Minus1, Pending
  <2>6. OwnInv'
        BY <2>1, <2>4, <2>5 DEF OwnInv, KeyAt
  <2>7. MemberInv'
        BY <2>1 DEF MemberInv
  <2>8. WakeInv'
    <3>1. wakes' \subseteq 0..KeySwitchDelay
          BY <2>1, <2>2 DEF WakeInv, Minus1
    <3>2. ASSUME Pending' PROVE \E w \in wakes' : w <= switch'.left
      <4>1. PICK w \in wakes : w <= switch.left
            BY <2>5, <3>2 DEF WakeInv, SwitchIsWoken
      <4>2. w \in 0..KeySwitchDelay /\ switch.left \in 0..KeySwitchDelay
            BY <2>3, <2>5, <3>2 DEF WakeInv, Switches, Pending
      <4>3. Minus1(w) \in wakes' /\ Minus1(w) <= switch'.left
            BY <2>1, <2>2, <2>5, <3>2, <4>1, <4>2 DEF Minus1
      <4> QED BY <4>3
    <3> QED BY <3>1, <3>2 DEF WakeInv, SwitchIsWoken
  <2> QED BY <2>1, <2>6, <2>7, <2>8
<1>8. CASE UNCHANGED vars
      BY <1>3, <1>8 DEF vars, exchange, call
<1> QED BY <1>1, <1>2, <1>4, <1>5, <1>6, <1>7, <1>8 DEF Next

-----------------------------------------------------------------------------
(* Keys of others *)

\* What is received is of its kind.
ReceivedTypes ==
    /\ newest \in [KeySlots -> 0..MaxSent] /\ due \in [KeySlots -> 0..MaxSent]
    /\ queued \in Seq(ReceivedKeys) /\ Len(queued) <= QueuedKeysMax
    /\ seen \in Lists /\ joined \in BOOLEAN
    /\ inFlight \subseteq ReceivedKeys /\ sent \in 0..MaxSent

\* No two keys that wait are for the same slot.
OnePerSlot ==
    \A i, j \in 1..Len(queued) : i < j => queued[i].slot # queued[j].slot

ReceivedInv == ReceivedTypes /\ OnePerSlot /\ LastArrivalIsKept

\* What of the queue is retained is of its kind, and one per slot.
LEMMA RetainedKeys ==
    ASSUME ReceivedInv, NEW set, NEW kept, kept = Retain(queued, set)
    PROVE  /\ kept \in Seq(ReceivedKeys) /\ Len(kept) <= Len(queued)
           /\ \A i, j \in 1..Len(kept) : i < j => kept[i].slot # kept[j].slot
           /\ \A i \in 1..Len(kept) : kept[i] \in set
           /\ \A j \in 1..Len(queued) : queued[j] \in set =>
                  \E i \in 1..Len(kept) : kept[i] = queued[j]
<1>1. queued \in Seq(ReceivedKeys)
      BY DEF ReceivedInv, ReceivedTypes
<1>2. /\ kept \in Seq(ReceivedKeys) /\ Len(kept) <= Len(queued)
      /\ \A i \in 1..Len(kept) :
             kept[i] \in set /\ \E j \in 1..Len(queued) : queued[j] = kept[i]
      /\ \A j \in 1..Len(queued) : queued[j] \in set =>
             \E i \in 1..Len(kept) : kept[i] = queued[j]
      /\ \A i1, i2 \in 1..Len(kept) : i1 < i2 =>
             \E j1, j2 \in 1..Len(queued) :
                 j1 < j2 /\ queued[j1] = kept[i1] /\ queued[j2] = kept[i2]
  <2>1. Retains(ReceivedKeys, queued, set, kept)
        BY <1>1, RetainFacts
  <2> QED BY <2>1 DEF Retains
<1>3. ASSUME NEW i \in 1..Len(kept), NEW j \in 1..Len(kept), i < j
      PROVE  kept[i].slot # kept[j].slot
  <2>1. PICK a \in 1..Len(queued), b \in 1..Len(queued) :
            a < b /\ queued[a] = kept[i] /\ queued[b] = kept[j]
        BY <1>2, <1>3
  <2>2. queued[a].slot # queued[b].slot
        BY <2>1 DEF ReceivedInv, OnePerSlot
  <2> QED BY <2>1, <2>2
<1> QED BY <1>2, <1>3

\* A key that has to wait: it is queued, and only what makes room for it goes.
LEMMA QueueKeeps ==
    ASSUME ReceivedInv, NEW key \in ReceivedKeys, Queue(key), UNCHANGED newest,
           seen[key.slot[1]] = Absent, seen' = seen, joined' = joined,
           inFlight' \subseteq ReceivedKeys, sent' \in 0..MaxSent
    PROVE  ReceivedInv'
<1> DEFINE kept == Retain(queued, {k \in ReceivedKeys : k.slot # key.slot})
           rest == IF Len(kept) >= QueuedKeysMax THEN Tail(kept) ELSE kept
<1>1. /\ kept \in Seq(ReceivedKeys) /\ Len(kept) <= Len(queued)
      /\ \A i, j \in 1..Len(kept) : i < j => kept[i].slot # kept[j].slot
      /\ \A i \in 1..Len(kept) : kept[i].slot # key.slot
      /\ \A j \in 1..Len(queued) : queued[j].slot # key.slot =>
             \E i \in 1..Len(kept) : kept[i] = queued[j]
  <2>1. \A j \in 1..Len(queued) : queued[j] \in ReceivedKeys
        BY DEF ReceivedInv, ReceivedTypes
  <2> DEFINE others == {k \in ReceivedKeys : k.slot # key.slot}
  <2>2. /\ kept \in Seq(ReceivedKeys) /\ Len(kept) <= Len(queued)
        /\ \A i, j \in 1..Len(kept) : i < j => kept[i].slot # kept[j].slot
        /\ \A i \in 1..Len(kept) : kept[i] \in others
        /\ \A j \in 1..Len(queued) : queued[j] \in others =>
               \E i \in 1..Len(kept) : kept[i] = queued[j]
    <3> HIDE DEF others
    <3>1. kept = Retain(queued, others)
          BY DEF others
    <3> HIDE DEF kept
    <3> QED BY <3>1, RetainedKeys
  <2> HIDE DEF kept
  <2> QED BY <2>1, <2>2
<1>2. /\ queued' = Append(rest, key)
      /\ due' = [s \in KeySlots |->
                    IF s = key.slot THEN key.sent
                    ELSE IF Len(kept) >= QueuedKeysMax /\ s = Head(kept).slot
                         THEN 0 ELSE due[s]]
      BY DEF Queue
<1> HIDE DEF kept
<1>3. QueuedKeysMax \in Nat \ {0} /\ MaxSent \in Nat
      BY ParametersAssumption
<1>4. /\ rest \in Seq(ReceivedKeys) /\ Len(rest) < QueuedKeysMax
      /\ \A i, j \in 1..Len(rest) : i < j => rest[i].slot # rest[j].slot
      /\ \A i \in 1..Len(rest) : rest[i].slot # key.slot
      /\ \A i \in 1..Len(kept) :
             \/ \E j \in 1..Len(rest) : rest[j] = kept[i]
             \/ Len(kept) >= QueuedKeysMax /\ kept[i] = Head(kept)
  <2>1. CASE Len(kept) >= QueuedKeysMax
    <3>1. kept # <<>> /\ rest = Tail(kept)
          BY <1>1, <1>3, <2>1
    <3>2. /\ rest \in Seq(ReceivedKeys) /\ Len(rest) = Len(kept) - 1
          /\ \A i \in 1..Len(rest) : rest[i] = kept[i + 1]
          BY <1>1, <3>1, HeadTailProperties
    <3>3. Len(kept) \in Nat /\ Len(kept) <= QueuedKeysMax
          BY <1>1, <1>3 DEF ReceivedInv, ReceivedTypes
    <3> HIDE DEF rest
    <3>4. ASSUME NEW i \in 1..Len(rest) PROVE i + 1 \in 1..Len(kept)
          BY <3>2, <3>3
    <3>5. ASSUME NEW i \in 1..Len(rest), NEW j \in 1..Len(rest), i < j
          PROVE  rest[i].slot # rest[j].slot
      <4>1. i + 1 \in 1..Len(kept) /\ j + 1 \in 1..Len(kept) /\ i + 1 < j + 1
            BY <3>4, <3>5
      <4>2. kept[i + 1].slot # kept[j + 1].slot
            BY <1>1, <4>1
      <4> QED BY <3>2, <4>2
    <3>6. ASSUME NEW i \in 1..Len(kept)
          PROVE  (\E j \in 1..Len(rest) : rest[j] = kept[i]) \/ kept[i] = Head(kept)
      <4>1. CASE i = 1
            BY <1>1, <3>1, <4>1
      <4>2. CASE i # 1
        <5>1. i - 1 \in 1..Len(rest) /\ (i - 1) + 1 = i
              BY <3>2, <3>3, <4>2
        <5>2. rest[i - 1] = kept[i]
              BY <3>2, <5>1
        <5> QED BY <5>1, <5>2
      <4> QED BY <4>1, <4>2
    <3>7. \A i \in 1..Len(rest) : rest[i].slot # key.slot
          BY <1>1, <3>2, <3>4
    <3>8. Len(rest) < QueuedKeysMax
          BY <1>3, <3>2, <3>3
    <3> QED BY <2>1, <3>2, <3>5, <3>6, <3>7, <3>8
  <2>2. CASE ~(Len(kept) >= QueuedKeysMax)
    <3>1. rest = kept
          BY <2>2
    <3>2. Len(rest) < QueuedKeysMax
          BY <1>1, <1>3, <2>2, <3>1
    <3> HIDE DEF rest
    <3> QED BY <1>1, <3>1, <3>2
  <2> QED BY <2>1, <2>2
<1> HIDE DEF rest
<1>5. /\ queued' \in Seq(ReceivedKeys) /\ Len(queued') = Len(rest) + 1
      /\ \A i \in 1..Len(rest) : queued'[i] = rest[i]
      /\ queued'[Len(rest) + 1] = key
      BY <1>2, <1>4, AppendProperties
<1>6. Len(rest) \in Nat
      BY <1>4
<1>7. ReceivedTypes'
  <2>1. key.slot \in KeySlots /\ key.sent \in 0..MaxSent /\ 0 \in 0..MaxSent
        BY <1>3 DEF ReceivedKeys
  <2>2. due' \in [KeySlots -> 0..MaxSent]
        BY <1>2, <2>1 DEF ReceivedInv, ReceivedTypes
  <2>3. Len(queued') <= QueuedKeysMax
        BY <1>3, <1>4, <1>5, <1>6
  <2> QED BY <1>5, <2>2, <2>3 DEF ReceivedInv, ReceivedTypes
<1>8. OnePerSlot'
  <2> SUFFICES ASSUME NEW i \in 1..Len(queued'), NEW j \in 1..Len(queued'), i < j
               PROVE  queued'[i].slot # queued'[j].slot
      BY DEF OnePerSlot
  <2>1. i \in 1..Len(rest) /\ (j \in 1..Len(rest) \/ j = Len(rest) + 1)
        BY <1>5, <1>6
  <2> QED BY <1>4, <1>5, <2>1
<1>9. LastArrivalIsKept'
  <2> SUFFICES ASSUME NEW s \in KeySlots
               PROVE  \/ newest'[s] >= due'[s]
                      \/ /\ \E i \in 1..Len(queued') :
                                queued'[i] = [slot |-> s, sent |-> due'[s]]
                         /\ joined => seen[s[1]] = Absent
      BY DEF LastArrivalIsKept
  <2>1. newest[s] \in Nat /\ due[s] \in Nat /\ newest' = newest
        BY DEF ReceivedInv, ReceivedTypes
  <2>2. CASE s = key.slot
    <3>1. due'[s] = key.sent /\ key = [slot |-> s, sent |-> key.sent]
          BY <1>2, <2>2 DEF ReceivedKeys
    <3>2. Len(rest) + 1 \in 1..Len(queued')
          BY <1>5, <1>6
    <3> QED BY <1>5, <2>2, <3>1, <3>2
  <2>3. CASE s # key.slot /\ Len(kept) >= QueuedKeysMax /\ s = Head(kept).slot
    <3>1. due'[s] = 0
          BY <1>2, <2>3
    <3> QED BY <2>1, <3>1
  <2>4. CASE s # key.slot /\ ~(Len(kept) >= QueuedKeysMax /\ s = Head(kept).slot)
    <3>1. due'[s] = due[s]
          BY <1>2, <2>4
    <3>2. CASE newest[s] >= due[s]
          BY <2>1, <3>1, <3>2
    <3>3. CASE /\ \E i \in 1..Len(queued) : queued[i] = [slot |-> s, sent |-> due[s]]
               /\ joined => seen[s[1]] = Absent
      <4>1. PICK i \in 1..Len(queued) : queued[i] = [slot |-> s, sent |-> due[s]]
            BY <3>3
      <4>2. queued[i].slot # key.slot
            BY <2>4, <4>1
      <4>3. PICK j \in 1..Len(kept) : kept[j] = queued[i]
            BY <1>1, <4>2
      <4>4. ~(Len(kept) >= QueuedKeysMax /\ kept[j] = Head(kept))
            BY <2>4, <4>1, <4>3
      <4>5. PICK l \in 1..Len(rest) : rest[l] = kept[j]
            BY <1>4, <4>4
      <4>6. l \in 1..Len(queued') /\ queued'[l] = [slot |-> s, sent |-> due'[s]]
            BY <1>5, <1>6, <3>1, <4>1, <4>3, <4>5
      <4> QED BY <3>3, <4>6
    <3> QED BY <3>2, <3>3 DEF ReceivedInv, LastArrivalIsKept
  <2> QED BY <2>2, <2>3, <2>4
<1> QED BY <1>7, <1>8, <1>9 DEF ReceivedInv

\* What waited is installed unless it is stale, and the rest waits on.
LEMMA ReleaseKeeps ==
    ASSUME ReceivedInv, NEW list \in Lists, ReleaseQueued(list),
           seen' = list, joined' \in BOOLEAN, UNCHANGED network
    PROVE  ReceivedInv' /\ \A s \in KeySlots : newest'[s] >= newest[s]
<1> DEFINE ready == {k \in {queued[i] : i \in 1..Len(queued)} : list[k.slot[1]] # Absent}
           waiting == {k \in ReceivedKeys : list[k.slot[1]] = Absent}
<1>1. /\ queued' = Retain(queued, waiting) /\ due' = due
      /\ newest' = [s \in KeySlots |->
            IF \E k \in ready : k.slot = s
            THEN Larger(newest[s], (CHOOSE k \in ready : k.slot = s).sent)
            ELSE newest[s]]
      BY DEF ReleaseQueued
<1>2. \A j \in 1..Len(queued) : queued[j] \in ReceivedKeys
      BY DEF ReceivedInv, ReceivedTypes
<1>3. /\ queued' \in Seq(ReceivedKeys) /\ Len(queued') <= Len(queued)
      /\ \A i, j \in 1..Len(queued') : i < j => queued'[i].slot # queued'[j].slot
      /\ \A j \in 1..Len(queued) : queued[j] \in waiting =>
             \E i \in 1..Len(queued') : queued'[i] = queued[j]
  <2> HIDE DEF waiting
  <2> QED BY <1>1, RetainedKeys
<1>4. \A k \in ready : k \in ReceivedKeys
      BY <1>2
<1>5. ASSUME NEW k1 \in ready, NEW k2 \in ready, k1.slot = k2.slot PROVE k1 = k2
  <2>1. PICK i1 \in 1..Len(queued), i2 \in 1..Len(queued) :
            queued[i1] = k1 /\ queued[i2] = k2
        OBVIOUS
  <2>2. ~(i1 < i2) /\ ~(i2 < i1)
        BY <1>5, <2>1 DEF ReceivedInv, OnePerSlot
  <2> QED BY <2>1, <2>2
<1>6. \A k \in ReceivedKeys : k.sent \in 1..MaxSent /\ k.slot \in KeySlots
      BY DEF ReceivedKeys
<1>7. MaxSent \in Nat /\ QueuedKeysMax \in Nat /\ Len(queued) \in Nat
      BY ParametersAssumption DEF ReceivedInv, ReceivedTypes
<1>8. ASSUME NEW s \in KeySlots
      PROVE  /\ newest'[s] \in 0..MaxSent /\ newest'[s] >= newest[s]
             /\ \A k \in ready : k.slot = s => newest'[s] >= k.sent
  <2>1. newest[s] \in 0..MaxSent
        BY DEF ReceivedInv, ReceivedTypes
  <2>2. CASE \E k \in ready : k.slot = s
    <3> DEFINE c == CHOOSE k \in ready : k.slot = s
    <3>1. c \in ready /\ c.slot = s
          BY <2>2
    <3>2. newest'[s] = Larger(newest[s], c.sent)
          BY <1>1, <2>2
    <3> HIDE DEF c, ready
    <3>3. c.sent \in 1..MaxSent
          BY <1>4, <1>6, <3>1
    <3>4. newest'[s] \in 0..MaxSent /\ newest'[s] >= newest[s] /\ newest'[s] >= c.sent
          BY <1>7, <2>1, <3>2, <3>3 DEF Larger
    <3>5. \A k \in ready : k.slot = s => k = c
          BY <1>5, <3>1
    <3> QED BY <3>4, <3>5
  <2>3. CASE ~ \E k \in ready : k.slot = s
    <3>1. newest'[s] = newest[s]
          BY <1>1, <2>3
    <3> QED BY <1>7, <2>1, <2>3, <3>1
  <2> QED BY <2>2, <2>3
<1>9. ReceivedTypes'
  <2>1. newest' \in [KeySlots -> 0..MaxSent]
    <3>1. newest' = [s \in KeySlots |-> newest'[s]]
          BY <1>1
    <3> QED BY <1>8, <3>1
  <2>2. Len(queued') <= QueuedKeysMax /\ Len(queued') \in Nat
        BY <1>3, <1>7 DEF ReceivedInv, ReceivedTypes
  <2> QED BY <1>1, <1>3, <2>1, <2>2 DEF ReceivedInv, ReceivedTypes, network
<1>10. OnePerSlot'
      BY <1>3 DEF OnePerSlot
<1>11. LastArrivalIsKept'
  <2> SUFFICES ASSUME NEW s \in KeySlots
               PROVE  \/ newest'[s] >= due'[s]
                      \/ /\ \E i \in 1..Len(queued') :
                                queued'[i] = [slot |-> s, sent |-> due'[s]]
                         /\ joined' => list[s[1]] = Absent
      BY DEF LastArrivalIsKept
  <2>1. newest[s] \in Nat /\ newest'[s] \in Nat /\ due[s] \in Nat /\ due' = due
    <3>1. newest[s] \in 0..MaxSent /\ due[s] \in 0..MaxSent
          BY DEF ReceivedInv, ReceivedTypes
    <3>2. newest'[s] \in 0..MaxSent
          BY <1>8
    <3> QED BY <1>1, <1>7, <3>1, <3>2
  <2>2. CASE newest[s] >= due[s]
        BY <1>8, <2>1, <2>2
  <2>3. CASE \E i \in 1..Len(queued) : queued[i] = [slot |-> s, sent |-> due[s]]
    <3>1. PICK i \in 1..Len(queued) : queued[i] = [slot |-> s, sent |-> due[s]]
          BY <2>3
    <3>2. CASE list[s[1]] = Absent
      <4>1. queued[i] \in waiting
            BY <1>2, <3>1, <3>2
      <4> QED BY <1>3, <2>1, <3>1, <3>2, <4>1
    <3>3. CASE list[s[1]] # Absent
      <4>1. queued[i] \in ready /\ queued[i].slot = s /\ queued[i].sent = due[s]
            BY <3>1, <3>3
      <4> QED BY <1>8, <2>1, <4>1
    <3> QED BY <3>2, <3>3
  <2> QED BY <2>2, <2>3 DEF ReceivedInv, LastArrivalIsKept
<1> QED BY <1>8, <1>9, <1>10, <1>11 DEF ReceivedInv

\* Nothing was received at first.
LEMMA InitReceivedInv == Init => ReceivedInv
<1> SUFFICES ASSUME Init PROVE ReceivedInv
    OBVIOUS
<1>1. MaxSent \in Nat /\ QueuedKeysMax \in Nat
      BY ParametersAssumption
<1>2. ReceivedTypes
  <2>1. seen \in Lists
        BY DEF Init, Lists
  <2>2. queued = <<>> /\ Len(queued) = 0 /\ queued \in Seq(ReceivedKeys)
        BY DEF Init
  <2>3. newest \in [KeySlots -> 0..MaxSent] /\ due \in [KeySlots -> 0..MaxSent]
        BY <1>1 DEF Init
  <2>4. joined \in BOOLEAN
        BY DEF Init
  <2>5. inFlight \subseteq ReceivedKeys /\ sent \in 0..MaxSent
        BY <1>1 DEF Init
  <2> QED BY <1>1, <2>1, <2>2, <2>3, <2>4, <2>5 DEF ReceivedTypes
<1>3. OnePerSlot /\ LastArrivalIsKept
      BY <1>1 DEF Init, OnePerSlot, LastArrivalIsKept
<1> QED BY <1>2, <1>3 DEF ReceivedInv

\* One step keeps the invariant and takes no slot back.
LEMMA StepReceivedInv ==
    ASSUME ReceivedInv, [Next]_vars
    PROVE  ReceivedInv' /\ \A s \in KeySlots : newest'[s] >= newest[s]
<1> DEFINE Forward == \A s \in KeySlots : newest'[s] >= newest[s]
<1>0. \A s \in KeySlots : newest[s] \in Nat
      BY DEF ReceivedInv, ReceivedTypes
<1>1. ASSUME NEW list \in Lists, ExchangeMembers(list), seen' = list,
             joined' \in BOOLEAN, UNCHANGED network
      PROVE  ReceivedInv' /\ Forward
      BY <1>1, ReleaseKeeps DEF ExchangeMembers
<1>2. ASSUME UNCHANGED <<received, joined, inFlight, sent>>, seen' \in Lists,
             joined => seen' = seen
      PROVE  ReceivedInv' /\ Forward
  <2>1. ReceivedTypes' /\ OnePerSlot'
        BY <1>2 DEF ReceivedInv, ReceivedTypes, OnePerSlot, received
  <2>2. LastArrivalIsKept' /\ Forward
        BY <1>0, <1>2 DEF ReceivedInv, LastArrivalIsKept, received
  <2> QED BY <2>1, <2>2 DEF ReceivedInv
<1>3. CASE LaneJoined
      BY <1>1, <1>3 DEF LaneJoined, ReceivedInv, ReceivedTypes
<1>4. ASSUME NEW list \in Lists, MembersChanged(list)
      PROVE  ReceivedInv' /\ Forward
  <2>1. CASE joined
        BY <1>1, <1>4, <2>1 DEF MembersChanged, ReceivedInv, ReceivedTypes
  <2>2. CASE ~joined
        BY <1>2, <1>4, <2>2 DEF MembersChanged, network
  <2> QED BY <2>1, <2>2
<1>5. ASSUME NEW key \in inFlight, Receive(key)
      PROVE  ReceivedInv' /\ Forward
  <2>1. /\ key \in ReceivedKeys /\ inFlight' \subseteq ReceivedKeys /\ sent' \in 0..MaxSent
        /\ seen' = seen /\ joined' = joined
        BY <1>5 DEF Receive, ReceivedInv, ReceivedTypes, call
  <2>2. CASE UNCHANGED received
    <3>1. ReceivedTypes' /\ OnePerSlot'
          BY <2>1, <2>2 DEF ReceivedInv, ReceivedTypes, OnePerSlot, received
    <3>2. LastArrivalIsKept' /\ Forward
          BY <1>0, <2>1, <2>2 DEF ReceivedInv, LastArrivalIsKept, received
    <3> QED BY <3>1, <3>2 DEF ReceivedInv
  <2>3. CASE seen[key.slot[1]] = Absent /\ Queue(key) /\ UNCHANGED newest
    <3>1. ReceivedInv'
          BY <2>1, <2>3, QueueKeeps
    <3>2. Forward
          BY <1>0, <2>3
    <3> QED BY <3>1, <3>2
  <2>4. CASE /\ ~IsStale(key) /\ newest' = [newest EXCEPT ![key.slot] = key.sent]
             /\ due' = [due EXCEPT ![key.slot] = key.sent] /\ UNCHANGED queued
    <3>1. key.slot \in KeySlots /\ key.sent \in 0..MaxSent /\ ~(newest[key.slot] >= key.sent)
          BY <2>1, <2>4 DEF ReceivedKeys, IsStale
    <3>2. MaxSent \in Nat
          BY ParametersAssumption
    <3>3. ReceivedTypes'
          BY <2>1, <2>4, <3>1 DEF ReceivedInv, ReceivedTypes
    <3>4. OnePerSlot'
          BY <2>4 DEF ReceivedInv, OnePerSlot
    <3>5. Forward
          BY <1>0, <2>4, <3>1, <3>2 DEF ReceivedInv, ReceivedTypes
    <3>6. ASSUME NEW s \in KeySlots
          PROVE  \/ newest'[s] >= due'[s]
                 \/ /\ \E i \in 1..Len(queued) :
                           queued[i] = [slot |-> s, sent |-> due'[s]]
                    /\ joined => seen[s[1]] = Absent
      <4>1. CASE s = key.slot
        <5>1. newest'[s] = key.sent /\ due'[s] = key.sent
              BY <2>4, <4>1 DEF ReceivedInv, ReceivedTypes
        <5> QED BY <3>1, <3>2, <5>1
      <4>2. CASE s # key.slot
        <5>1. newest'[s] = newest[s] /\ due'[s] = due[s]
              BY <2>4, <4>2 DEF ReceivedInv, ReceivedTypes
        <5> QED BY <5>1 DEF ReceivedInv, LastArrivalIsKept
      <4> QED BY <4>1, <4>2
    <3>7. LastArrivalIsKept'
          BY <2>1, <2>4, <3>6 DEF LastArrivalIsKept
    <3> QED BY <3>3, <3>4, <3>5, <3>7 DEF ReceivedInv
  <2> QED BY <1>5, <2>2, <2>3, <2>4 DEF Receive
<1>6. CASE KeyWake \/ Tick
      BY <1>2, <1>6 DEF KeyWake, Tick, call, network, ReceivedInv, ReceivedTypes
<1>7. ASSUME NEW slot \in KeySlots, OtherSends(slot)
      PROVE  ReceivedInv' /\ Forward
  <2>1. MaxSent \in Nat /\ sent \in 0..MaxSent
        BY ParametersAssumption DEF ReceivedInv, ReceivedTypes
  <2>2. sent' \in 0..MaxSent /\ [slot |-> slot, sent |-> sent + 1] \in ReceivedKeys
        BY <1>7, <2>1 DEF OtherSends, ReceivedKeys
  <2>3. /\ inFlight' = inFlight \cup {[slot |-> slot, sent |-> sent + 1]}
        /\ UNCHANGED <<newest, queued, due, joined, seen>>
        BY <1>7 DEF OtherSends, received, call
  <2>4. ReceivedTypes' /\ OnePerSlot'
        BY <2>2, <2>3 DEF ReceivedInv, ReceivedTypes, OnePerSlot
  <2>5. LastArrivalIsKept' /\ Forward
        BY <1>0, <2>3 DEF ReceivedInv, LastArrivalIsKept
  <2> QED BY <2>4, <2>5 DEF ReceivedInv
<1>8. CASE UNCHANGED vars
      BY <1>2, <1>8 DEF vars, call, network, ReceivedInv, ReceivedTypes
<1> QED BY <1>3, <1>4, <1>5, <1>6, <1>7, <1>8 DEF Next

-----------------------------------------------------------------------------
(* The theorems *)


\* The inductive invariant holds in every state.
THEOREM KeyInvAlways == Spec => []KeyInv
<1>1. KeyInv /\ [Next]_vars => KeyInv'
      BY StepKeyInv
<1> QED BY InitKeyInv, <1>1, PTL DEF Spec

\* Once the call is joined, the newest own key went to exactly the members
\* listed: whoever left does not hold it, whoever joined does
\* (KeyExchange::members_changed).
THEOREM NewestKeyIsForMembers == Spec => []NewestKeyReachesMembersOnly
<1>1. KeyInv => NewestKeyReachesMembersOnly
      BY DEF KeyInv, MemberInv, NewestKeyReachesMembersOnly
<1> QED BY KeyInvAlways, <1>1, PTL

\* With no switch pending the media is under the newest key, so that nobody
\* who left can read it and everybody listed can (rotate, tick).
THEOREM MediaIsForMembers == Spec => []MediaIsForMembersOnly
<1>1. KeyInv => MediaIsForMembersOnly
  <2> SUFFICES ASSUME KeyInv, ~Pending PROVE
        slots[inUse] = own.key /\ (joined => audience = HoldersOf(seen))
      BY DEF MediaIsForMembersOnly
  <2>1. inUse = own.index /\ slots[inUse] = KeyAt(inUse)
        BY DEF KeyInv, OwnInv
  <2>2. own.index \in Int /\ own.key \in Int
        BY ParametersAssumption DEF KeyInv, OwnInv, OwnKeys, Indexes, Keys
  <2> QED BY <2>1, <2>2 DEF KeyAt, KeyInv, MemberInv
<1> QED BY KeyInvAlways, <1>1, PTL

\* A switch that is pending is woken for, however often it was replaced (WakeAt).
THEOREM SwitchesAreWoken == Spec => []SwitchIsWoken
<1>1. KeyInv => SwitchIsWoken
      BY DEF KeyInv, WakeInv
<1> QED BY KeyInvAlways, <1>1, PTL

\* No key is put over the one in use (KeyIndex::next wraps), while fewer keys
\* are made in a pending switch than there are indexes (ParametersAssumption).
THEOREM KeyInUseIsKept == Spec => KeyInUseStays
<1>1. KeyInv /\ [Next]_vars => [inUse' = inUse => slots'[inUse] = slots[inUse]]_vars
      BY StepKeyInv
<1> QED BY KeyInvAlways, <1>1, PTL DEF Spec, KeyInUseStays

\* The keys of others: what is received is of its kind, and of each slot the last
\* key to arrive is not lost while there is room.
THEOREM ReceivedInvAlways == Spec => []ReceivedInv
<1>1. ReceivedInv /\ [Next]_vars => ReceivedInv'
      BY StepReceivedInv
<1> QED BY InitReceivedInv, <1>1, PTL DEF Spec

\* The holders of the newest key are members with the session they are in.
LEMMA HoldersTyped == Spec => [](holders \subseteq Holders)
<1>1. Init => holders \subseteq Holders
      BY DEF Init, FirstKey
<1>2. holders \subseteq Holders /\ [Next]_vars => (holders \subseteq Holders)'
  <2> SUFFICES ASSUME holders \subseteq Holders, [Next]_vars PROVE holders' \subseteq Holders
      OBVIOUS
  <2>1. ASSUME NEW list, ExchangeMembers(list) PROVE holders' \subseteq Holders
        BY <2>1 DEF ExchangeMembers, Rotate, SendToJoiners, Joiners, HoldersOf
  <2>2. CASE LaneJoined
        BY <2>1, <2>2 DEF LaneJoined
  <2>3. ASSUME NEW list \in Lists, MembersChanged(list) PROVE holders' \subseteq Holders
    <3>1. CASE joined
          BY <2>1, <2>3, <3>1 DEF MembersChanged
    <3>2. CASE ~joined
          BY <2>3, <3>2 DEF MembersChanged, exchange
    <3> QED BY <3>1, <3>2
  <2>4. ASSUME UNCHANGED holders PROVE holders' \subseteq Holders
        BY <2>4
  <2>5. ASSUME NEW key \in inFlight, Receive(key) PROVE holders' \subseteq Holders
        BY <2>5 DEF Receive, exchange
  <2>6. CASE KeyWake \/ Tick
        BY <2>6 DEF KeyWake, Tick
  <2>7. ASSUME NEW slot \in KeySlots, OtherSends(slot) PROVE holders' \subseteq Holders
        BY <2>7 DEF OtherSends, exchange
  <2>8. CASE UNCHANGED vars
        BY <2>8 DEF vars, exchange
  <2> QED BY <2>2, <2>3, <2>5, <2>6, <2>7, <2>8 DEF Next
<1> QED BY <1>1, <1>2, PTL DEF Spec

\* Type correctness: in particular the queue never holds more than
\* QUEUED_KEYS_MAX, and every index holds a key that was made, or none.
THEOREM TypesAreKept == Spec => []TypeOK
<1>1. KeyInv /\ ReceivedInv /\ holders \subseteq Holders => TypeOK
  <2> SUFFICES ASSUME KeyInv, ReceivedInv, holders \subseteq Holders PROVE TypeOK
      OBVIOUS
  <2>1. own \in OwnKeys /\ switch \in Switches /\ inUse \in Indexes
        BY DEF KeyInv, OwnInv
  <2>2. slots \in [Indexes -> Keys \cup {NoKey}]
    <3>1. ASSUME NEW i \in Indexes PROVE slots[i] \in Keys \cup {NoKey}
      <4>1. slots[i] = KeyAt(i) /\ slots[i] \in Nat
            BY DEF KeyInv, OwnInv
      <4>2. own.key \in 1..MaxKeys /\ own.index \in 0..(IndexSpan - 1) /\ i \in 0..(IndexSpan - 1)
            BY <2>1 DEF OwnKeys, Keys, Indexes
      <4>3. IndexSpan \in Nat /\ MaxKeys \in Nat
            BY ParametersAssumption
      <4> QED BY <4>1, <4>2, <4>3 DEF KeyAt, Keys, NoKey
    <3>2. slots \in [Indexes -> Nat]
          BY DEF KeyInv, OwnInv
    <3> QED BY <3>1, <3>2
  <2>3. wakes \subseteq 0..KeySwitchDelay /\ audience \subseteq Holders
        BY DEF KeyInv, WakeInv, MemberInv
  <2> QED BY <2>1, <2>2, <2>3 DEF ReceivedInv, ReceivedTypes, TypeOK
<1> QED BY KeyInvAlways, ReceivedInvAlways, HoldersTyped, <1>1, PTL

\* The key of another member that arrived last for its slot is installed, or
\* waits for a member who is not listed (KeyExchange::received, release_queued).
THEOREM LastArrivalsAreKept == Spec => []LastArrivalIsKept
<1>1. ReceivedInv => LastArrivalIsKept
      BY DEF ReceivedInv
<1> QED BY ReceivedInvAlways, <1>1, PTL

\* No slot goes back to an older key, neither by a key that arrives late nor by
\* one that waited (is_stale).
THEOREM SlotsGoForward == Spec => SlotsNeverGoBack
<1>1. ReceivedInv /\ [Next]_vars => [\A s \in KeySlots : newest'[s] >= newest[s]]_vars
      BY StepReceivedInv
<1> QED BY ReceivedInvAlways, <1>1, PTL DEF Spec, SlotsNeverGoBack

=============================================================================
