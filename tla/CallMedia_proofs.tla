---------------------------- MODULE CallMedia_proofs ----------------------------
(* Proofs about CallMedia: no server hears of a call that does not use it,    *)
(* what is shown as off is neither captured nor published, and what is shown  *)
(* of a link or a device is so once every order is carried out and every      *)
(* report heard, for any servers, moves of the user and faults.               *)
EXTENDS CallMedia, FiniteSetTheorems, SequenceTheorems, TLAPS

-----------------------------------------------------------------------------
(* Orders in a queue *)

\* After the last of the orders off there is no order on.
Ends(q, off, on) ==
    \E i \in 1..Len(q) : q[i] = off /\ \A j \in (i + 1)..Len(q) : q[j] # on
Lacks(q, on) == \A i \in 1..Len(q) : q[i] # on

\* What is put behind the queue, without an order on, changes nothing of what
\* the queue ends with, and makes it end off if it holds an order off.
LEMMA EndsBehind ==
    ASSUME NEW A, NEW q \in Seq(A), NEW r \in Seq(A), NEW off, NEW on, Lacks(r, on)
    PROVE  /\ Ends(q, off, on) => Ends(q \o r, off, on)
           /\ Lacks(q, on) => Lacks(q \o r, on)
           /\ (\E i \in 1..Len(r) : r[i] = off) => Ends(q \o r, off, on)
<1>1. /\ Len(q) \in Nat /\ Len(r) \in Nat /\ Len(q \o r) = Len(q) + Len(r)
      /\ \A i \in 1..(Len(q) + Len(r)) :
             (q \o r)[i] = IF i <= Len(q) THEN q[i] ELSE r[i - Len(q)]
      BY ConcatProperties, LenProperties
<1>2. ASSUME NEW i \in 1..(Len(q) + Len(r)), i > Len(q)
      PROVE  (q \o r)[i] = r[i - Len(q)] /\ (q \o r)[i] # on
  <2>1. i - Len(q) \in 1..Len(r)
        BY <1>1, <1>2
  <2> QED BY <1>1, <1>2, <2>1 DEF Lacks
<1>3. \A i \in 1..Len(q) : (q \o r)[i] = q[i] /\ i \in 1..Len(q \o r)
      BY <1>1
<1>4. ASSUME Ends(q, off, on) PROVE Ends(q \o r, off, on)
  <2>1. PICK i \in 1..Len(q) : q[i] = off /\ \A j \in (i + 1)..Len(q) : q[j] # on
        BY <1>4 DEF Ends
  <2>2. ASSUME NEW j \in (i + 1)..Len(q \o r) PROVE (q \o r)[j] # on
    <3>1. CASE j <= Len(q)
      <4>1. j \in (i + 1)..Len(q) /\ j \in 1..Len(q)
            BY <1>1, <3>1
      <4> QED BY <1>3, <2>1, <4>1
    <3>2. CASE j > Len(q)
      <4>1. j \in 1..(Len(q) + Len(r))
            BY <1>1
      <4> QED BY <1>2, <3>2, <4>1
    <3> QED BY <1>1, <3>1, <3>2
  <2>3. i \in 1..Len(q \o r) /\ (q \o r)[i] = off
        BY <1>3, <2>1
  <2> QED BY <2>2, <2>3 DEF Ends
<1>5. ASSUME Lacks(q, on) PROVE Lacks(q \o r, on)
  <2> SUFFICES ASSUME NEW i \in 1..Len(q \o r) PROVE (q \o r)[i] # on
      BY DEF Lacks
  <2>1. CASE i <= Len(q)
    <3>1. i \in 1..Len(q)
          BY <1>1, <2>1
    <3> QED BY <1>3, <1>5, <3>1 DEF Lacks
  <2>2. CASE i > Len(q)
        BY <1>1, <1>2, <2>2
  <2> QED BY <1>1, <2>1, <2>2
<1>6. ASSUME NEW i \in 1..Len(r), r[i] = off PROVE Ends(q \o r, off, on)
  <2>1. Len(q) + i \in 1..Len(q \o r) /\ Len(q) + i > Len(q) /\ (Len(q) + i) - Len(q) = i
        BY <1>1
  <2>2. (q \o r)[Len(q) + i] = off
        BY <1>1, <1>2, <1>6, <2>1
  <2>3. ASSUME NEW j \in ((Len(q) + i) + 1)..Len(q \o r) PROVE (q \o r)[j] # on
    <3>1. j \in 1..(Len(q) + Len(r)) /\ j > Len(q)
          BY <1>1
    <3> QED BY <1>2, <3>1
  <2> QED BY <2>1, <2>2, <2>3 DEF Ends
<1> QED BY <1>4, <1>5, <1>6

\* The same of one order.
LEMMA EndsBehindOne ==
    ASSUME NEW A, NEW q \in Seq(A), NEW c \in A, NEW off, NEW on, c # on
    PROVE  /\ Ends(q, off, on) => Ends(Append(q, c), off, on)
           /\ Lacks(q, on) => Lacks(Append(q, c), on)
           /\ c = off => Ends(Append(q, c), off, on)
<1> DEFINE r == <<c>>
<1>1. r \in Seq(A) /\ Len(r) = 1 /\ r[1] = c
      OBVIOUS
<1>2. Append(q, c) = q \o r
      BY AppendIsConcat
<1> HIDE DEF r
<1>3. Lacks(r, on)
      BY <1>1 DEF Lacks
<1>4. /\ Ends(q, off, on) => Ends(q \o r, off, on)
      /\ Lacks(q, on) => Lacks(q \o r, on)
      /\ (\E i \in 1..Len(r) : r[i] = off) => Ends(q \o r, off, on)
      BY <1>1, <1>3, EndsBehind
<1>5. c = off => \E i \in 1..Len(r) : r[i] = off
      BY <1>1
<1> QED BY <1>2, <1>4, <1>5

\* What queues of one order and of two lack.
LEMMA LacksOne ==
    ASSUME NEW q, NEW on, Len(q) = 1, q[1] # on
    PROVE  Lacks(q, on)
BY DEF Lacks

\* A queue of two orders of which neither is the one asked about.
LEMMA LacksTwo ==
    ASSUME NEW q, NEW on, Len(q) = 2, q[1] # on, q[2] # on
    PROVE  Lacks(q, on)
BY DEF Lacks

\* Taking the first order away: if it was the last off, no order on is left.
LEMMA EndsAhead ==
    ASSUME NEW A, NEW q \in Seq(A), q # <<>>, NEW off, NEW on
    PROVE  /\ Ends(q, off, on) =>
                  Ends(Tail(q), off, on) \/ (Head(q) = off /\ Lacks(Tail(q), on))
           /\ Lacks(q, on) => Lacks(Tail(q), on) /\ Head(q) # on
<1>1. /\ Len(q) \in Nat \ {0} /\ Len(Tail(q)) = Len(q) - 1 /\ Head(q) = q[1]
      /\ \A i \in 1..Len(Tail(q)) : Tail(q)[i] = q[i + 1]
      BY HeadTailProperties, EmptySeq
<1>2. \A i \in 1..Len(Tail(q)) : i + 1 \in 1..Len(q)
      BY <1>1
<1>3. ASSUME Ends(q, off, on)
      PROVE  Ends(Tail(q), off, on) \/ (Head(q) = off /\ Lacks(Tail(q), on))
  <2>1. PICK i \in 1..Len(q) : q[i] = off /\ \A j \in (i + 1)..Len(q) : q[j] # on
        BY <1>3 DEF Ends
  <2>2. CASE i = 1
    <3>1. \A j \in 1..Len(Tail(q)) : Tail(q)[j] # on
      <4>1. \A j \in 1..Len(Tail(q)) : j + 1 \in (i + 1)..Len(q)
            BY <1>1, <2>2
      <4> QED BY <1>1, <2>1, <4>1
    <3> QED BY <1>1, <2>1, <2>2, <3>1 DEF Lacks
  <2>3. CASE i # 1
    <3>1. i - 1 \in 1..Len(Tail(q)) /\ (i - 1) + 1 = i
          BY <1>1, <2>3
    <3>2. Tail(q)[i - 1] = off
          BY <1>1, <2>1, <3>1
    <3>3. \A j \in ((i - 1) + 1)..Len(Tail(q)) : Tail(q)[j] # on
      <4>1. \A j \in ((i - 1) + 1)..Len(Tail(q)) :
                j \in 1..Len(Tail(q)) /\ j + 1 \in (i + 1)..Len(q)
            BY <1>1, <2>3
      <4> QED BY <1>1, <2>1, <4>1
    <3> QED BY <3>1, <3>2, <3>3 DEF Ends
  <2> QED BY <2>2, <2>3
<1>4. ASSUME Lacks(q, on) PROVE Lacks(Tail(q), on) /\ Head(q) # on
      BY <1>1, <1>2, <1>4 DEF Lacks
<1> QED BY <1>3, <1>4

\* The sequence of a finite set has its members and no other.
LEMMA SetToSeqFacts ==
    ASSUME NEW S, IsFiniteSet(S)
    PROVE  /\ SetToSeq(S) \in Seq(S)
           /\ DOMAIN SetToSeq(S) = 1..Cardinality(S) /\ Cardinality(S) \in Nat
           /\ \A x \in S : \E i \in 1..Cardinality(S) : SetToSeq(S)[i] = x
<1> DEFINE n == Cardinality(S)
           f == SetToSeq(S)
<1>1. n \in Nat /\ ExistsBijection(1..n, S)
      BY FS_CardinalityType
<1>2. \E g \in [1..n -> S] : IsInjective(g)
      BY <1>1 DEF ExistsBijection, Bijection, Injection
<1>3. f \in [1..n -> S] /\ IsInjective(f)
  <2>1. f = CHOOSE g \in [1..n -> S] : IsInjective(g)
        BY DEF SetToSeq
  <2> HIDE DEF f, n
  <2> QED BY <1>2, <2>1
<1>4. f \in Injection(1..n, S)
      BY <1>3 DEF Injection
<1>5. IsFiniteSet(1..n) /\ Cardinality(1..n) = n
      BY <1>1, FS_Interval
<1>6. f \in Surjection(1..n, S)
      BY <1>4, <1>5, FS_Injection
<1>7. f \in Seq(S)
      BY <1>1, <1>3, SeqDef
<1> QED BY <1>1, <1>3, <1>6, <1>7 DEF Surjection

-----------------------------------------------------------------------------
(* Type correctness *)

AppTypes ==
    /\ call \in {"in", "over"} /\ used \subseteq Others
    /\ links \in [Servers -> LinkStates]
ShownTypes ==
    /\ mic \in {"Off", "Starting", "On", "Failed"} /\ published \in BOOLEAN
    /\ camera \in {"Off", "Starting", "On", "Failed"}
    /\ screen \in Choosing \cup {"Off", "On", "Failed", "Unavailable"}
BetweenTypes ==
    /\ grants \in [Servers -> Nat]
    /\ commands \in Seq(Commands) /\ events \in Seq(Events)
SessionTypes ==
    /\ session \in {"waiting", "open", "closed"}
    /\ wants \in [microphone: BOOLEAN, camera: BOOLEAN]
    /\ dialling \subseteq Servers /\ conns \in [Servers -> ConnStates]
DeviceTypes ==
    track \in Tracks /\ capture \in BOOLEAN /\ share \in {"none", "choosing", "sharing"}
BudgetTypes == left \in [Moves -> Nat] /\ hasty \subseteq Servers

\* The types that the lemmas below name are what TypeOK says.
LEMMA TypesOfTypeOK ==
    TypeOK <=> /\ AppTypes /\ ShownTypes /\ BetweenTypes
               /\ SessionTypes /\ DeviceTypes /\ BudgetTypes
BY DEF TypeOK, AppTypes, ShownTypes, BetweenTypes, SessionTypes, DeviceTypes, BudgetTypes

\* The same of the next state.
LEMMA TypesOfTypeOKNext ==
    AppTypes' /\ ShownTypes' /\ BetweenTypes' /\ SessionTypes' /\ DeviceTypes' /\ BudgetTypes'
    => TypeOK'
BY DEF TypeOK, AppTypes, ShownTypes, BetweenTypes, SessionTypes, DeviceTypes, BudgetTypes

\* Every order and every report that is sent is one of those there are.
LEMMA OrdersAreCommands ==
    /\ \A s \in Servers : Order("Connect", s) \in Commands /\ Order("Disconnect", s) \in Commands
    /\ \A on \in BOOLEAN : /\ Order("Microphone", on) \in Commands
                           /\ Order("Camera", on) \in Commands
                           /\ Order("ScreenShare", on) \in Commands
BY DEF Order, Commands

\* What is reported of a device or of a server is an event of a type.
LEMMA ReportsAreEvents ==
    /\ \A s \in Servers, state \in SfuStates : SfuReport(s, state) \in Events
    /\ \A told \in {"On", "Failed"} :
           Report("Microphone", told) \in Events /\ Report("Camera", told) \in Events
    /\ \A told \in {"On", "Off", "Failed", "Unavailable"} : Report("Screen", told) \in Events
BY DEF SfuReport, Report, Events

\* What is told is appended, or dropped when the call is over.
LEMMA TellTypes ==
    ASSUME BetweenTypes, NEW reports \in Seq(Events), Tell(reports)
    PROVE  events' \in Seq(Events)
BY ConcatProperties DEF BetweenTypes, Tell

\* One command more in the queue of the media engine.
LEMMA TellOneTypes ==
    ASSUME BetweenTypes, NEW report \in Events, Tell(<<report>>)
    PROVE  events' \in Seq(Events)
<1>1. <<report>> \in Seq(Events)
      OBVIOUS
<1> QED BY <1>1, TellTypes

\* What the end of a call leaves is of its types.
LEMMA EndCallTypes ==
    ASSUME EndCall
    PROVE  AppTypes' /\ ShownTypes' /\ BetweenTypes'
<1>1. AppTypes' /\ ShownTypes'
      BY DEF EndCall, AppTypes, ShownTypes, NoLinks, LinkStates
<1>2. grants' \in [Servers -> Nat]
      BY DEF EndCall, NoGrants
<1>3. commands' \in Seq(Commands) /\ events' \in Seq(Events)
      BY EmptySeq DEF EndCall
<1> QED BY <1>1, <1>2, <1>3 DEF BetweenTypes

\* A fault that was spent is still within its bound.
LEMMA SpendTypes ==
    ASSUME left \in [Moves -> Nat], NEW move \in Moves, Spend(move)
    PROVE  left' \in [Moves -> Nat]
BY DEF Spend

\* An orderly end of what a plan drops: one Disconnect for each server.
Cuts(servers) == [i \in DOMAIN SetToSeq(servers) |->
                     Order("Disconnect", SetToSeq(servers)[i])]

\* The orders to disconnect from servers: nothing else, and one for each.
LEMMA CutsFacts ==
    ASSUME NEW servers \in SUBSET Servers
    PROVE  /\ Cuts(servers) \in Seq(Commands)
           /\ \A i \in 1..Len(Cuts(servers)) : Cuts(servers)[i].kind = "Disconnect"
           /\ \A s \in servers : \E i \in 1..Len(Cuts(servers)) :
                  Cuts(servers)[i] = Order("Disconnect", s)
<1>1. IsFiniteSet(servers)
  <2>1. IsFiniteSet(Servers)
        BY ServersAssumption, FS_Singleton, FS_Union DEF Servers
  <2> QED BY <2>1, FS_Subset
<1> DEFINE q == SetToSeq(servers)
           n == Cardinality(servers)
<1>2. /\ q \in Seq(servers) /\ DOMAIN q = 1..n /\ n \in Nat
      /\ \A x \in servers : \E i \in 1..n : q[i] = x
      BY <1>1, SetToSeqFacts
<1> HIDE DEF q, n
<1>3. Cuts(servers) = [i \in 1..n |-> Order("Disconnect", q[i])]
      BY <1>2 DEF Cuts, q
<1>4. \A i \in 1..n : q[i] \in servers
      BY <1>2
<1>5. \A i \in 1..n : Order("Disconnect", q[i]) \in Commands
      BY <1>4, OrdersAreCommands
<1>6. Cuts(servers) \in [1..n -> Commands]
      BY <1>3, <1>5
<1>7. Cuts(servers) \in Seq(Commands)
      BY <1>2, <1>6, SeqDef
<1>8. Len(Cuts(servers)) = n
      BY <1>2, <1>6, <1>7, LenProperties
<1>9. \A i \in 1..n : Cuts(servers)[i] = Order("Disconnect", q[i])
      BY <1>3
<1>10. ASSUME NEW i \in 1..n PROVE Cuts(servers)[i].kind = "Disconnect"
  <2>1. Cuts(servers)[i] = [kind |-> "Disconnect", what |-> q[i]]
        BY <1>9 DEF Order
  <2> QED BY <2>1
<1> QED BY <1>2, <1>7, <1>8, <1>9, <1>10

\* The types hold at first.
LEMMA InitTypes == Init => TypeOK
<1> SUFFICES ASSUME Init PROVE TypeOK
    OBVIOUS
<1>1. left \in [Moves -> Nat] /\ hasty = {}
      BY BudgetsAssumption DEF Init
<1>2. used \subseteq Others
      BY DEF Init, Used
<1>3. links \in [Servers -> LinkStates] /\ grants \in [Servers -> Nat]
      BY DEF Init, LinkStates
<1>4. commands \in Seq(Commands) /\ events \in Seq(Events)
  <2>0. \A c \in Commands : <<c>> \in Seq(Commands)
        OBVIOUS
  <2>1. <<Order("Microphone", mic = "Starting")>> \in Seq(Commands)
        BY <2>0, OrdersAreCommands
  <2>2. <<Order("Camera", TRUE)>> \in Seq(Commands) /\ <<>> \in Seq(Commands)
        BY <2>0, OrdersAreCommands, EmptySeq
  <2>3. events \in Seq(Events)
        BY EmptySeq DEF Init
  <2>4. commands = <<Order("Microphone", mic = "Starting")>>
                   \o IF camera = "Starting" THEN <<Order("Camera", TRUE)>> ELSE <<>>
        BY DEF Init
  <2>5. commands \in Seq(Commands)
        BY <2>1, <2>2, <2>4, ConcatProperties
  <2> QED BY <2>3, <2>5
<1>5. AppTypes /\ BetweenTypes
      BY <1>2, <1>3, <1>4 DEF Init, AppTypes, BetweenTypes
<1>6. ShownTypes
      BY DEF Init, ShownTypes, Chosen
<1>7. SessionTypes /\ DeviceTypes
      BY DEF Init, SessionTypes, DeviceTypes, NoConns, ConnStates, Tracks
<1>8. BudgetTypes
      BY <1>1 DEF BudgetTypes
<1> QED BY <1>5, <1>6, <1>7, <1>8, TypesOfTypeOK

\* An order at the head of the queue is of its kind.
LEMMA OrderTypes ==
    ASSUME BetweenTypes, NEW kind, Ordered(kind)
    PROVE  /\ Head(commands) \in Commands /\ Tail(commands) \in Seq(Commands)
           /\ kind \in {"Connect", "Disconnect"} => Wanted \in Servers
           /\ kind \in {"Microphone", "Camera", "ScreenShare"} => Wanted \in BOOLEAN
           /\ Head(commands) = Order(kind, Wanted)
<1>1. Head(commands) \in Commands /\ Tail(commands) \in Seq(Commands)
      BY HeadTailProperties DEF BetweenTypes, Ordered
<1>2. Head(commands).kind = kind
      BY DEF Ordered
<1> QED BY <1>1, <1>2 DEF Commands, Wanted, Order

\* A report at the head of the queue is of its kind.
LEMMA ReportTypes ==
    ASSUME BetweenTypes, NEW kind, Reported(kind)
    PROVE  /\ Tail(events) \in Seq(Events)
           /\ kind = "Sfu" => Told[1] \in Servers /\ Told[2] \in SfuStates
           /\ kind \in {"Microphone", "Camera"} => Told \in {"On", "Failed"}
           /\ kind = "Screen" => Told \in {"On", "Off", "Failed", "Unavailable"}
<1>1. Head(events) \in Events /\ Tail(events) \in Seq(Events)
      BY HeadTailProperties DEF BetweenTypes, Reported
<1>2. Head(events).kind = kind
      BY DEF Reported
<1> QED BY <1>1, <1>2 DEF Events, Told

\* What the user does.
LEMMA UserTypes ==
    ASSUME TypeOK, UserStep
    PROVE  TypeOK'
<1>0. AppTypes /\ ShownTypes /\ BetweenTypes /\ SessionTypes /\ DeviceTypes /\ BudgetTypes
      BY TypesOfTypeOK
<1> USE DEF app, shown, own, sfus
<1>1. ASSUME NEW device \in Moves, UserOrders(device), ShownTypes', commands' \in Seq(Commands)
      PROVE  TypeOK'
  <2>1. AppTypes' /\ BetweenTypes' /\ SessionTypes' /\ DeviceTypes'
        BY <1>0, <1>1 DEF UserOrders, AppTypes, BetweenTypes, SessionTypes, DeviceTypes
  <2>2. BudgetTypes'
        BY <1>0, <1>1, SpendTypes DEF UserOrders, BudgetTypes
  <2> QED BY <1>1, <2>1, <2>2, TypesOfTypeOKNext
<1>2. \A c \in Commands : Append(commands, c) \in Seq(Commands)
      BY <1>0, AppendProperties DEF BetweenTypes
<1>3. {"microphone", "camera", "screen", "members"} \subseteq Moves
      BY DEF Moves
<1>4. ASSUME NEW on \in BOOLEAN, SetMicrophone(on) PROVE TypeOK'
  <2>1. ShownTypes' /\ commands' \in Seq(Commands)
        BY <1>0, <1>2, <1>4, OrdersAreCommands DEF SetMicrophone, SwitchedMicrophone, ShownTypes
  <2> QED BY <1>1, <1>3, <1>4, <2>1 DEF SetMicrophone
<1>5. ASSUME NEW on \in BOOLEAN, SetCamera(on) PROVE TypeOK'
  <2>1. ShownTypes' /\ commands' \in Seq(Commands)
        BY <1>0, <1>2, <1>5, OrdersAreCommands DEF SetCamera, ShownTypes
  <2> QED BY <1>1, <1>3, <1>5, <2>1 DEF SetCamera
<1>6. ASSUME NEW on \in BOOLEAN, SetScreenShare(on) PROVE TypeOK'
  <2>1. ShownTypes' /\ commands' \in Seq(Commands)
        BY <1>0, <1>2, <1>6, OrdersAreCommands DEF SetScreenShare, ShownTypes, Choosing
  <2> QED BY <1>1, <1>3, <1>6, <2>1 DEF SetScreenShare
<1>7. CASE ChangeScreenShare
  <2>1. ShownTypes'
        BY <1>0, <1>7 DEF ChangeScreenShare, ShownTypes, Choosing
  <2>2. <<Order("ScreenShare", FALSE), Order("ScreenShare", TRUE)>> \in Seq(Commands)
    <3>1. \A c, d \in Commands : <<c, d>> \in Seq(Commands)
          OBVIOUS
    <3> QED BY <3>1, OrdersAreCommands
  <2>3. commands' \in Seq(Commands)
        BY <1>0, <1>7, <2>2, ConcatProperties DEF ChangeScreenShare, BetweenTypes
  <2> QED BY <1>1, <1>3, <1>7, <2>1, <2>3 DEF ChangeScreenShare
<1>8. CASE LeaveCall
  <2>1. AppTypes' /\ ShownTypes' /\ BetweenTypes'
        BY <1>8, EndCallTypes DEF LeaveCall
  <2>2. SessionTypes' /\ DeviceTypes' /\ BudgetTypes'
        BY <1>0, <1>8 DEF LeaveCall, SessionTypes, DeviceTypes, BudgetTypes
  <2> QED BY <2>1, <2>2, TypesOfTypeOKNext
<1>9. ASSUME NEW members \in SUBSET Others, MembersChanged(members) PROVE TypeOK'
  <2>1. AppTypes'
        BY <1>0, <1>9 DEF MembersChanged, Replan, AppTypes, LinkStates
  <2>2. ShownTypes' /\ SessionTypes' /\ DeviceTypes'
        BY <1>0, <1>9 DEF MembersChanged, ShownTypes, SessionTypes, DeviceTypes
  <2>3. BudgetTypes'
    <3>1. left' \in [Moves -> Nat]
          BY <1>0, <1>3, <1>9, SpendTypes DEF MembersChanged, BudgetTypes
    <3>2. hasty' \subseteq Servers
      <4>1. Unlinked(members) \subseteq Servers /\ Retried(members) \subseteq Servers
            BY DEF Unlinked, Retried, Targets, Servers
      <4> QED BY <1>0, <1>9, <4>1 DEF MembersChanged, Replan, BudgetTypes
    <3> QED BY <3>1, <3>2 DEF BudgetTypes
  <2>4. BetweenTypes'
    <3>1. grants' \in [Servers -> Nat]
          BY <1>0, <1>9 DEF MembersChanged, Replan, BetweenTypes
    <3>2. commands' = (commands \o Cuts(Dropped(members))) \o Cuts(Retried(members))
          BY <1>9 DEF MembersChanged, Replan, Cuts
    <3>3. Dropped(members) \subseteq Servers /\ Retried(members) \subseteq Servers
          BY DEF Dropped, Retried, Targets, Servers
    <3>4. /\ Cuts(Dropped(members)) \in Seq(Commands)
          /\ Cuts(Retried(members)) \in Seq(Commands)
          BY <3>3, CutsFacts
    <3>5. commands' \in Seq(Commands)
          BY <1>0, <3>2, <3>4, ConcatProperties DEF BetweenTypes
    <3> QED BY <1>0, <1>9, <3>1, <3>5 DEF MembersChanged, BetweenTypes
  <2> QED BY <2>1, <2>2, <2>3, <2>4, TypesOfTypeOKNext
<1> QED BY <1>4, <1>5, <1>6, <1>7, <1>8, <1>9 DEF UserStep

\* What the app makes of grants and reports.
LEMMA AppStepTypes ==
    ASSUME TypeOK, AppStep
    PROVE  TypeOK'
<1>0. AppTypes /\ ShownTypes /\ BetweenTypes /\ SessionTypes /\ DeviceTypes /\ BudgetTypes
      BY TypesOfTypeOK
<1> USE DEF app, shown, own, sfus
<1>1. \A c \in Commands : Append(commands, c) \in Seq(Commands)
      BY <1>0, AppendProperties DEF BetweenTypes
<1>2. ASSUME AppTypes', ShownTypes', BetweenTypes',
             UNCHANGED <<session, wants, sfus, own, left, hasty>>
      PROVE  TypeOK'
  <2>1. SessionTypes' /\ DeviceTypes' /\ BudgetTypes'
        BY <1>0, <1>2 DEF SessionTypes, DeviceTypes, BudgetTypes
  <2> QED BY <1>2, <2>1, TypesOfTypeOKNext
<1>3. ASSUME NEW s \in Servers, Granted(s) PROVE TypeOK'
  <2>1. AppTypes' /\ ShownTypes'
        BY <1>0, <1>3 DEF Granted, ConnectGranted, AppTypes, ShownTypes, LinkStates
  <2>2. commands' \in Seq(Commands)
        BY <1>0, <1>1, <1>3, OrdersAreCommands DEF Granted, ConnectGranted, BetweenTypes
  <2>3. BetweenTypes'
        BY <1>0, <1>3, <2>2 DEF Granted, BetweenTypes
  <2> QED BY <1>2, <1>3, <2>1, <2>3 DEF Granted
<1>4. ASSUME NEW s \in Servers, GrantRefused(s) PROVE TypeOK'
  <2>1. CASE s = Own
        BY <1>2, <1>4, <2>1, EndCallTypes DEF GrantRefused
  <2>2. CASE s # Own
    <3>1. AppTypes' /\ ShownTypes'
          BY <1>0, <1>4, <2>2 DEF GrantRefused, AppTypes, ShownTypes, LinkStates
    <3>2. BetweenTypes'
          BY <1>0, <1>4, <2>2 DEF GrantRefused, BetweenTypes
    <3> QED BY <1>2, <1>4, <3>1, <3>2 DEF GrantRefused
  <2> QED BY <2>1, <2>2
<1>5. CASE SfuReported
  <2>1. Reported("Sfu")
        BY <1>5 DEF SfuReported
  <2>2. Told[1] \in Servers /\ Told[2] \in SfuStates /\ Tail(events) \in Seq(Events)
        BY <1>0, <2>1, ReportTypes
  <2>3. CASE EndCall /\ UNCHANGED <<session, wants, sfus, own, left, hasty>>
        BY <1>2, <2>3, EndCallTypes
  <2>4. CASE /\ links' = [links EXCEPT ![Told[1]] = IF @ = "none" THEN @ ELSE LinkAfter(Told[2])]
             /\ HandlesReport /\ UNCHANGED <<shown, commands>>
    <3>1. LinkAfter(Told[2]) \in LinkStates
          BY <2>2 DEF LinkAfter, SfuStates, LinkStates
    <3>2. AppTypes' /\ ShownTypes'
          BY <1>0, <2>4, <3>1 DEF HandlesReport, AppTypes, ShownTypes
    <3>3. BetweenTypes'
          BY <1>0, <2>2, <2>4 DEF HandlesReport, BetweenTypes
    <3> QED BY <1>2, <2>4, <3>2, <3>3 DEF HandlesReport
  <2> QED BY <1>5, <2>3, <2>4 DEF SfuReported
<1>6. CASE MicrophoneReported
  <2>1. Told \in {"On", "Failed"} /\ Tail(events) \in Seq(Events)
        BY <1>0, <1>6, ReportTypes DEF MicrophoneReported
  <2>2. published' \in BOOLEAN
        BY <1>6 DEF MicrophoneReported
  <2>3. ShownTypes'
        BY <1>0, <1>6, <2>2 DEF MicrophoneReported, ShownTypes
  <2>4. AppTypes' /\ BetweenTypes'
        BY <1>0, <1>6, <2>1 DEF MicrophoneReported, HandlesReport, AppTypes, BetweenTypes
  <2> QED BY <1>2, <1>6, <2>3, <2>4 DEF MicrophoneReported, HandlesReport
<1>7. CASE CameraReported
  <2>1. Told \in {"On", "Failed"} /\ Tail(events) \in Seq(Events)
        BY <1>0, <1>7, ReportTypes DEF CameraReported
  <2>2. AppTypes' /\ ShownTypes'
        BY <1>0, <1>7 DEF CameraReported, HandlesReport, AppTypes, ShownTypes
  <2>3. commands' \in Seq(Commands)
        BY <1>0, <1>1, <1>7, OrdersAreCommands DEF CameraReported, CameraGivesUp, BetweenTypes
  <2>4. BetweenTypes'
        BY <1>0, <1>7, <2>1, <2>3 DEF CameraReported, HandlesReport, BetweenTypes
  <2> QED BY <1>2, <1>7, <2>2, <2>4 DEF CameraReported, HandlesReport
<1>8. CASE ScreenReported
  <2>1. Told \in {"On", "Off", "Failed", "Unavailable"} /\ Tail(events) \in Seq(Events)
        BY <1>0, <1>8, ReportTypes DEF ScreenReported
  <2>2. screen' \in Choosing \cup {"Off", "On", "Failed", "Unavailable"}
        BY <1>0, <1>8, <2>1 DEF ScreenReported, ScreenAfter, ShownTypes
  <2>3. ShownTypes' /\ AppTypes'
        BY <1>0, <1>8, <2>2 DEF ScreenReported, HandlesReport, AppTypes, ShownTypes
  <2>4. BetweenTypes'
        BY <1>0, <1>8, <2>1 DEF ScreenReported, HandlesReport, BetweenTypes
  <2> QED BY <1>2, <1>8, <2>3, <2>4 DEF ScreenReported, HandlesReport
<1> QED BY <1>3, <1>4, <1>5, <1>6, <1>7, <1>8 DEF AppStep

\* What may become of the microphone and of the camera, and what is told.
LEMMA MicrophonesTypes ==
    ASSUME DeviceTypes, NEW on \in BOOLEAN, NEW publishing, NEW m \in Microphones(on, publishing)
    PROVE  m.to \in Tracks /\ m.told \in Seq(Events)
<1>1. <<>> \in Seq(Events)
      BY EmptySeq
<1>2. \A e, f \in Events : <<e>> \in Seq(Events) /\ <<e, f>> \in Seq(Events)
      OBVIOUS
<1>3. Report("Microphone", "On") \in Events /\ Report("Microphone", "Failed") \in Events
      BY ReportsAreEvents
<1>4. <<Report("Microphone", "On")>> \in Seq(Events)
      BY <1>2, <1>3
<1>5. <<Report("Microphone", "Failed")>> \in Seq(Events)
      BY <1>2, <1>3
<1>6. <<Report("Microphone", "Failed"), Report("Microphone", "On")>> \in Seq(Events)
      BY <1>2, <1>3
<1>7. \/ m = [to |-> "live", told |-> <<Report("Microphone", "On")>>]
      \/ m = [to |-> "none", told |-> <<Report("Microphone", "Failed")>>]
      \/ m = [to |-> "none", told |-> <<>>]
      \/ m = [to |-> "live",
              told |-> <<Report("Microphone", "Failed"), Report("Microphone", "On")>>]
      \/ m = [to |-> track, told |-> <<Report("Microphone", "Failed")>>]
      \/ m = [to |-> "muted", told |-> <<>>]
      \/ m = [to |-> "muted", told |-> <<Report("Microphone", "Failed")>>]
      BY DEF Microphones
<1>8. track \in Tracks /\ "live" \in Tracks /\ "none" \in Tracks /\ "muted" \in Tracks
      BY DEF DeviceTypes, Tracks
<1>9. \A to \in Tracks, told \in Seq(Events) :
          m = [to |-> to, told |-> told] => m.to \in Tracks /\ m.told \in Seq(Events)
      OBVIOUS
<1> QED BY <1>1, <1>4, <1>5, <1>6, <1>7, <1>8, <1>9, Zenon

\* The steps of the cameras leave everything of its types.
LEMMA CamerasTypes ==
    ASSUME DeviceTypes, NEW on \in BOOLEAN, NEW publishing, NEW c \in Cameras(on, publishing)
    PROVE  c.to \in BOOLEAN /\ c.told \in Seq(Events)
<1>1. <<>> \in Seq(Events)
      BY EmptySeq
<1>2. \A e \in Events : <<e>> \in Seq(Events)
      OBVIOUS
<1>3. Report("Camera", "On") \in Events /\ Report("Camera", "Failed") \in Events
      BY ReportsAreEvents
<1>4. <<Report("Camera", "On")>> \in Seq(Events)
      BY <1>2, <1>3
<1>5. <<Report("Camera", "Failed")>> \in Seq(Events)
      BY <1>2, <1>3
<1>6. \/ c = [to |-> FALSE, told |-> <<>>] \/ c = [to |-> TRUE, told |-> <<>>]
      \/ c = [to |-> TRUE, told |-> <<Report("Camera", "On")>>]
      \/ c = [to |-> FALSE, told |-> <<Report("Camera", "Failed")>>]
      BY DEF Cameras
<1>7. \A to \in BOOLEAN, told \in Seq(Events) :
          c = [to |-> to, told |-> told] => c.to \in BOOLEAN /\ c.told \in Seq(Events)
      OBVIOUS
<1> QED BY <1>1, <1>4, <1>5, <1>6, <1>7, Zenon

\* The last words of a share that ends are reports of its types.
LEMMA LastWordsTypes ==
    ASSUME DeviceTypes, NEW words \in LastWords
    PROVE  [i \in DOMAIN words |-> Report("Screen", words[i])] \in Seq(Events)
<1> DEFINE Told3 == {"On", "Off", "Failed"}
<1>1. words \in Seq(Told3)
  <2>1. /\ <<>> \in Seq(Told3) /\ <<"On">> \in Seq(Told3) /\ <<"On", "Off">> \in Seq(Told3)
        /\ <<"Off">> \in Seq(Told3) /\ <<"Failed">> \in Seq(Told3)
        OBVIOUS
  <2> QED BY <2>1 DEF LastWords, DeviceTypes
<1>2. /\ DOMAIN words = 1..Len(words) /\ Len(words) \in Nat
      /\ \A i \in 1..Len(words) : words[i] \in Told3
      BY <1>1, LenProperties, ElementOfSeq
<1>3. \A i \in 1..Len(words) : Report("Screen", words[i]) \in Events
      BY <1>2, ReportsAreEvents
<1>4. [i \in DOMAIN words |-> Report("Screen", words[i])] \in [1..Len(words) -> Events]
      BY <1>2, <1>3
<1> QED BY <1>2, <1>4, SeqDef

\* What the session makes of its turn and its orders, and what its tasks, the
\* devices, the media servers and the desktop do.
LEMMA SessionStepTypes ==
    ASSUME TypeOK, SessionStep \/ Surroundings
    PROVE  TypeOK'
<1>0. AppTypes /\ ShownTypes /\ BetweenTypes /\ SessionTypes /\ DeviceTypes /\ BudgetTypes
      BY TypesOfTypeOK
<1> USE DEF app, shown, own, sfus
<1>1. ASSUME UNCHANGED <<app, grants, left, hasty>>, commands' \in Seq(Commands),
             events' \in Seq(Events), SessionTypes', DeviceTypes'
      PROVE  TypeOK'
  <2>1. AppTypes' /\ ShownTypes' /\ BudgetTypes' /\ BetweenTypes'
        BY <1>0, <1>1 DEF AppTypes, ShownTypes, BudgetTypes, BetweenTypes
  <2> QED BY <1>1, <2>1, TypesOfTypeOKNext
<1>2. commands \in Seq(Commands) /\ events \in Seq(Events)
      BY <1>0 DEF BetweenTypes
<1>3. CASE Open
  <2>1. SessionTypes' /\ DeviceTypes'
        BY <1>0, <1>3 DEF Open, SessionMoves, SessionTypes, DeviceTypes
  <2> QED BY <1>1, <1>2, <1>3, <2>1 DEF Open, SessionMoves
<1>4. CASE OpenFails
  <2>1. SessionTypes' /\ DeviceTypes' /\ BudgetTypes'
        BY <1>0, <1>4 DEF OpenFails, SessionTypes, DeviceTypes, BudgetTypes
  <2>2. CASE EndCall
        BY <2>1, <2>2, EndCallTypes, TypesOfTypeOKNext
  <2>3. CASE UNCHANGED <<app, grants, commands, events>>
    <3>1. AppTypes' /\ ShownTypes' /\ BetweenTypes'
          BY <1>0, <2>3 DEF AppTypes, ShownTypes, BetweenTypes
    <3> QED BY <2>1, <3>1, TypesOfTypeOKNext
  <2> QED BY <1>4, <2>2, <2>3 DEF OpenFails
<1>5. CASE Connect
  <2>1. Wanted \in Servers /\ Tail(commands) \in Seq(Commands)
        BY <1>0, <1>5, OrderTypes DEF Connect
  <2>2. SessionTypes' /\ DeviceTypes'
        BY <1>0, <1>5, <2>1 DEF Connect, Applies, SessionMoves, SessionTypes, DeviceTypes
  <2>3. SfuReport(Wanted, "Connecting") \in Events
        BY <2>1, ReportsAreEvents DEF SfuStates
  <2>4. events' \in Seq(Events)
        BY <1>0, <1>2, <1>5, <2>3, TellOneTypes DEF Connect
  <2> QED BY <1>1, <1>5, <2>1, <2>2, <2>4 DEF Connect, Applies, SessionMoves
<1>6. CASE Disconnect
  <2>1. Wanted \in Servers /\ Tail(commands) \in Seq(Commands)
        BY <1>0, <1>6, OrderTypes DEF Disconnect
  <2>2. SessionTypes' /\ DeviceTypes'
        BY <1>0, <1>6, <2>1
           DEF Disconnect, Applies, SessionMoves, SessionTypes, DeviceTypes, ConnStates
  <2>3. SfuReport(Wanted, "Disconnected") \in Events
        BY <2>1, ReportsAreEvents DEF SfuStates
  <2>4. events' \in Seq(Events)
        BY <1>0, <1>2, <1>6, <2>3, TellOneTypes DEF Disconnect
  <2> QED BY <1>1, <1>6, <2>1, <2>2, <2>4 DEF Disconnect, Applies, SessionMoves
<1>7. CASE SwitchMicrophone
  <2>1. Wanted \in BOOLEAN /\ Tail(commands) \in Seq(Commands)
        BY <1>0, <1>7, OrderTypes DEF SwitchMicrophone
  <2>2. PICK m \in Microphones(Wanted, Publishing) : track' = m.to /\ Tell(m.told)
        BY <1>7 DEF SwitchMicrophone
  <2>3. m.to \in Tracks /\ m.told \in Seq(Events)
        BY <1>0, <2>1, MicrophonesTypes
  <2>4. events' \in Seq(Events)
        BY <1>0, <2>2, <2>3, TellTypes
  <2>5. SessionTypes'
        BY <1>0, <1>7, <2>1 DEF SwitchMicrophone, Follow, Applies, SessionTypes
  <2>6. DeviceTypes'
        BY <1>0, <1>7, <2>2, <2>3 DEF SwitchMicrophone, DeviceTypes
  <2> QED BY <1>1, <1>7, <2>1, <2>4, <2>5, <2>6 DEF SwitchMicrophone, Applies, SessionMoves
<1>8. CASE SwitchCamera
  <2>1. Wanted \in BOOLEAN /\ Tail(commands) \in Seq(Commands)
        BY <1>0, <1>8, OrderTypes DEF SwitchCamera
  <2>2. PICK c \in Cameras(Wanted, Publishing) : capture' = c.to /\ Tell(c.told)
        BY <1>8 DEF SwitchCamera
  <2>3. c.to \in BOOLEAN /\ c.told \in Seq(Events)
        BY <1>0, <2>1, CamerasTypes
  <2>4. events' \in Seq(Events)
        BY <1>0, <2>2, <2>3, TellTypes
  <2>5. SessionTypes'
        BY <1>0, <1>8, <2>1 DEF SwitchCamera, Follow, Applies, SessionTypes
  <2>6. DeviceTypes'
        BY <1>0, <1>8, <2>2, <2>3 DEF SwitchCamera, DeviceTypes
  <2> QED BY <1>1, <1>8, <2>1, <2>4, <2>5, <2>6 DEF SwitchCamera, Applies, SessionMoves
<1>9. CASE SwitchScreen
  <2>1. Wanted \in BOOLEAN /\ Tail(commands) \in Seq(Commands)
        BY <1>0, <1>9, OrderTypes DEF SwitchScreen
  <2>2. events' \in Seq(Events)
    <3>1. ASSUME NEW words \in LastWords,
                 Tell([i \in DOMAIN words |-> Report("Screen", words[i])])
          PROVE  events' \in Seq(Events)
          BY <1>0, <3>1, LastWordsTypes, TellTypes
    <3>2. ASSUME Tell(<<Report("Screen", "Failed")>>) PROVE events' \in Seq(Events)
      <4>1. Report("Screen", "Failed") \in Events
            BY ReportsAreEvents
      <4> QED BY <1>0, <3>2, <4>1, TellOneTypes
    <3> QED BY <1>2, <1>9, <3>1, <3>2 DEF SwitchScreen
  <2>3. SessionTypes'
        BY <1>0, <1>9 DEF SwitchScreen, Applies, SessionTypes
  <2>4. DeviceTypes'
        BY <1>0, <1>9 DEF SwitchScreen, DeviceTypes
  <2> QED BY <1>1, <1>9, <2>1, <2>2, <2>3, <2>4 DEF SwitchScreen, Applies, SessionMoves
<1>10. CASE Close
  <2>1. SessionTypes' /\ DeviceTypes'
        BY <1>0, <1>10 DEF Close, SessionTypes, DeviceTypes, NoConns, ConnStates, Tracks
  <2> QED BY <1>1, <1>2, <1>10, <2>1 DEF Close, SessionMoves
<1>11. ASSUME NEW s \in Servers, Adopt(s) PROVE TypeOK'
  <2>1. PICK m \in IF s = Own /\ wants.microphone THEN Microphones(TRUE, TRUE)
                   ELSE {[to |-> track, told |-> <<>>]},
             c \in IF s = Own /\ wants.camera THEN Cameras(TRUE, TRUE)
                   ELSE {[to |-> capture, told |-> <<>>]} :
                track' = m.to /\ capture' = c.to /\ Tell(m.told \o c.told)
        BY <1>11 DEF Adopt
  <2>2. m.to \in Tracks /\ m.told \in Seq(Events)
    <3>1. CASE m \in Microphones(TRUE, TRUE)
          BY <1>0, <3>1, MicrophonesTypes
    <3>2. CASE m = [to |-> track, told |-> <<>>]
      <4>1. m.to = track /\ m.told = <<>>
            BY <3>2
      <4> QED BY <1>0, <4>1, EmptySeq DEF DeviceTypes
    <3> QED BY <3>1, <3>2
  <2>3. c.to \in BOOLEAN /\ c.told \in Seq(Events)
    <3>1. CASE c \in Cameras(TRUE, TRUE)
          BY <1>0, <3>1, CamerasTypes
    <3>2. CASE c = [to |-> capture, told |-> <<>>]
      <4>1. c.to = capture /\ c.told = <<>>
            BY <3>2
      <4> QED BY <1>0, <4>1, EmptySeq DEF DeviceTypes
    <3> QED BY <3>1, <3>2
  <2>4. events' \in Seq(Events)
        BY <1>0, <2>1, <2>2, <2>3, TellTypes, ConcatProperties
  <2>5. SessionTypes' /\ DeviceTypes'
    <3>1. SessionTypes'
          BY <1>0, <1>11 DEF Adopt, SessionTypes, ConnStates
    <3>2. DeviceTypes'
          BY <1>0, <1>11, <2>1, <2>2, <2>3 DEF Adopt, DeviceTypes
    <3> QED BY <3>1, <3>2
  <2> QED BY <1>1, <1>2, <1>11, <2>4, <2>5 DEF Adopt, SessionMoves
<1>12. ASSUME NEW s \in Servers, DialFails(s) PROVE TypeOK'
  <2>1. SfuReport(s, "Disconnected") \in Events
        BY ReportsAreEvents DEF SfuStates
  <2>2. events' \in Seq(Events)
        BY <1>0, <1>12, <2>1, TellOneTypes DEF DialFails
  <2>3. SessionTypes' /\ DeviceTypes'
        BY <1>0, <1>12 DEF DialFails, SessionTypes, DeviceTypes
  <2> QED BY <1>1, <1>2, <1>12, <2>2, <2>3 DEF DialFails, SessionMoves
<1>13. ASSUME UNCHANGED <<app, grants, commands, session, wants, dialling, hasty>>,
              events' \in Seq(Events), conns' \in [Servers -> ConnStates], DeviceTypes',
              left' \in [Moves -> Nat]
       PROVE  TypeOK'
  <2>1. AppTypes' /\ ShownTypes' /\ BudgetTypes' /\ BetweenTypes' /\ SessionTypes'
        BY <1>0, <1>13 DEF AppTypes, ShownTypes, BudgetTypes, BetweenTypes, SessionTypes
  <2> QED BY <1>13, <2>1, TypesOfTypeOKNext
<1>14. /\ left \in [Moves -> Nat] /\ conns \in [Servers -> ConnStates]
       /\ \A move \in {"faults", "refusal"} : Spend(move) => left' \in [Moves -> Nat]
      BY <1>0, SpendTypes DEF BudgetTypes, SessionTypes, Moves
<1>15. ASSUME NEW s \in Servers, NEW from, NEW to \in ConnStates, NEW told \in SfuStates,
              Pump(s, from, to, told), left' = left \/ Fault
       PROVE  TypeOK'
  <2>1. SfuReport(s, told) \in Events
        BY ReportsAreEvents
  <2>2. events' \in Seq(Events)
        BY <1>0, <1>15, <2>1, TellOneTypes DEF Pump
  <2>3. left' \in [Moves -> Nat]
        BY <1>14, <1>15 DEF Fault
  <2>4. DeviceTypes'
        BY <1>0, <1>15 DEF Pump, DeviceTypes
  <2>5. conns' \in [Servers -> ConnStates]
        BY <1>14, <1>15 DEF Pump
  <2>6. UNCHANGED <<app, grants, commands, session, wants, dialling, hasty>>
        BY <1>15 DEF Pump
  <2> QED BY <1>13, <2>2, <2>3, <2>4, <2>5, <2>6
<1>16. ASSUME NEW s \in Servers, PumpStarts(s) \/ Reconnects(s) \/ Wavers(s) \/ CutOff(s)
       PROVE  TypeOK'
  <2>1. {"up", "reconnecting", "dead"} \subseteq ConnStates
        /\ {"Connected", "Reconnecting", "Disconnected"} \subseteq SfuStates
        BY DEF ConnStates, SfuStates
  <2> QED BY <1>15, <1>16, <2>1 DEF PumpStarts, Reconnects, Wavers, CutOff
<1>17. ASSUME OnItsOwn, events' \in Seq(Events), DeviceTypes', left' \in [Moves -> Nat]
       PROVE  TypeOK'
      BY <1>13, <1>14, <1>17 DEF OnItsOwn
<1>18. CASE MicrophoneLost
  <2>1. Report("Microphone", "Failed") \in Events
        BY ReportsAreEvents
  <2>2. events' \in Seq(Events) /\ left' \in [Moves -> Nat]
        BY <1>0, <1>14, <1>18, <2>1, TellOneTypes DEF MicrophoneLost, Fault
  <2>3. DeviceTypes'
        BY <1>0, <1>18 DEF MicrophoneLost, DeviceTypes, Tracks
  <2> QED BY <1>17, <1>18, <2>2, <2>3 DEF MicrophoneLost
<1>19. CASE MicrophoneReturns
  <2>1. DeviceTypes'
        BY <1>0, <1>19 DEF MicrophoneReturns, DeviceTypes, Tracks
  <2> QED BY <1>2, <1>14, <1>17, <1>19, <2>1 DEF MicrophoneReturns
<1>20. CASE CameraLost
  <2>1. Report("Camera", "Failed") \in Events
        BY ReportsAreEvents
  <2>2. events' \in Seq(Events) /\ left' \in [Moves -> Nat]
        BY <1>0, <1>14, <1>20, <2>1, TellOneTypes DEF CameraLost, Fault
  <2>3. DeviceTypes'
        BY <1>0, <1>20 DEF CameraLost, DeviceTypes
  <2> QED BY <1>17, <1>20, <2>2, <2>3 DEF CameraLost
<1>21. ASSUME NEW from, NEW to \in {"none", "choosing", "sharing"},
              NEW told \in {"On", "Off", "Failed", "Unavailable"}, ShareGoesOn(from, to, told)
       PROVE  TypeOK'
  <2>1. Report("Screen", told) \in Events
        BY ReportsAreEvents
  <2>2. events' \in Seq(Events) /\ left' \in [Moves -> Nat]
        BY <1>0, <1>14, <1>21, <2>1, TellOneTypes DEF ShareGoesOn
  <2>3. DeviceTypes'
        BY <1>0, <1>21 DEF ShareGoesOn, DeviceTypes
  <2> QED BY <1>17, <1>21, <2>2, <2>3 DEF ShareGoesOn
<1>22. CASE ShareStarts \/ ShareFails \/ ShareEnds
      BY <1>21, <1>22 DEF ShareStarts, ShareFails, ShareEnds
<1>23. CASE SharingRefused
  <2>1. Report("Screen", "Unavailable") \in Events
        BY ReportsAreEvents
  <2>2. events' \in Seq(Events) /\ left' \in [Moves -> Nat]
        BY <1>0, <1>14, <1>23, <2>1, TellOneTypes DEF SharingRefused
  <2>3. DeviceTypes'
        BY <1>0, <1>23 DEF SharingRefused, DeviceTypes
  <2> QED BY <1>17, <1>23, <2>2, <2>3 DEF SharingRefused
<1> QED BY <1>3, <1>4, <1>5, <1>6, <1>7, <1>8, <1>9, <1>10, <1>11, <1>12, <1>16, <1>18,
           <1>19, <1>20, <1>22, <1>23 DEF SessionStep, Surroundings

\* Type correctness (MediaCommand, MediaEvent, LinkState and what Joined keeps).
THEOREM TypeCorrect == Spec => []TypeOK
<1>1. TypeOK /\ [Next]_vars => TypeOK'
  <2> SUFFICES ASSUME TypeOK, [Next]_vars PROVE TypeOK'
      OBVIOUS
  <2>1. CASE UNCHANGED vars
        BY <2>1 DEF TypeOK, vars, app, shown, own, sfus
  <2>2. CASE Next
        BY <2>2, UserTypes, AppStepTypes, SessionStepTypes DEF Next
  <2> QED BY <2>1, <2>2
<1> QED BY InitTypes, <1>1, PTL DEF Spec

-----------------------------------------------------------------------------
(* Servers that are not used *)

\* What is left of a server without a link: nothing, or all that there is ends
\* with a Disconnect that waits.
Cut(s) == \/ Ends(commands, Order("Disconnect", s), Order("Connect", s))
          \/ /\ Lacks(commands, Order("Connect", s))
             /\ s \notin dialling /\ conns[s] = "none"

ClosedInv == session # "open" => dialling = {} /\ conns = NoConns
LinkInv == call = "in" => \A s \in Servers \ Targets(used) : links[s] = "none"
CutInv == call = "in" => \A s \in Servers : links[s] = "none" => Cut(s)
ServerInv == ClosedInv /\ LinkInv /\ CutInv

\* Another order behind the queue leaves a server as it is.
LEMMA CutBehindOne ==
    ASSUME BetweenTypes, NEW s \in Servers, Cut(s),
           NEW c \in Commands, c # Order("Connect", s),
           commands' = Append(commands, c), UNCHANGED sfus
    PROVE  Cut(s)'
<1> DEFINE off == Order("Disconnect", s)
           on == Order("Connect", s)
<1>1. commands \in Seq(Commands)
      BY DEF BetweenTypes
<1>2. /\ Ends(commands, off, on) => Ends(Append(commands, c), off, on)
      /\ Lacks(commands, on) => Lacks(Append(commands, c), on)
      BY <1>1, EndsBehindOne
<1> QED BY <1>2 DEF Cut, sfus

\* No order that is carried out, but a Disconnect, is the last that waits for a
\* server without a link, and none of them is its Connect when nothing waits.
LEMMA CutAhead ==
    ASSUME BetweenTypes, NEW s \in Servers, Cut(s), NEW kind, Ordered(kind)
    PROVE  \/ Ends(Tail(commands), Order("Disconnect", s), Order("Connect", s))
           \/ /\ Lacks(Tail(commands), Order("Connect", s))
              /\ kind = "Disconnect" /\ Wanted = s
           \/ /\ Lacks(Tail(commands), Order("Connect", s))
              /\ s \notin dialling /\ conns[s] = "none"
              /\ kind = "Connect" => Wanted # s
<1> DEFINE off == Order("Disconnect", s)
           on == Order("Connect", s)
<1>1. commands \in Seq(Commands) /\ commands # <<>>
      BY DEF BetweenTypes, Ordered
<1>2. /\ Ends(commands, off, on) =>
             Ends(Tail(commands), off, on) \/ (Head(commands) = off /\ Lacks(Tail(commands), on))
      /\ Lacks(commands, on) => Lacks(Tail(commands), on) /\ Head(commands) # on
      BY <1>1, EndsAhead
<1>3. Head(commands) = Order(kind, Wanted)
  <2>1. Head(commands) \in Commands /\ Head(commands).kind = kind
        BY <1>1, HeadTailProperties DEF Ordered
  <2> QED BY <2>1 DEF Commands, Order, Wanted
<1>4. Head(commands) = off => kind = "Disconnect" /\ Wanted = s
      BY <1>3 DEF Order
<1>5. Head(commands) # on => (kind = "Connect" => Wanted # s)
      BY <1>3
<1> QED BY <1>2, <1>4, <1>5 DEF Cut

\* At first only the servers that are used have links, and nothing is ordered.
LEMMA InitServerInv == Init => ServerInv
<1> SUFFICES ASSUME Init PROVE ServerInv
    OBVIOUS
<1>1. ClosedInv /\ LinkInv
      BY DEF Init, ClosedInv, LinkInv
<1>2. ASSUME NEW s \in Servers PROVE Cut(s)
  <2>1. s \notin dialling /\ conns[s] = "none"
        BY DEF Init, NoConns
  <2>2. Lacks(commands, Order("Connect", s))
    <3> DEFINE one == <<Order("Microphone", mic = "Starting")>>
               on == Order("Connect", s)
    <3>1. one \in Seq(Commands) /\ Len(one) = 1 /\ one[1] = Order("Microphone", mic = "Starting")
      <4>1. \A c \in Commands : <<c>> \in Seq(Commands)
            OBVIOUS
      <4> QED BY <4>1, OrdersAreCommands
    <3>2. Order("Microphone", mic = "Starting") # on /\ Order("Camera", TRUE) # on
          BY DEF Order
    <3> HIDE DEF one
    <3>3. Lacks(one, on)
          BY <3>1, <3>2 DEF Lacks
    <3>4. commands = one \/ commands = Append(one, Order("Camera", TRUE))
      <4>1. commands = one \o IF camera = "Starting" THEN <<Order("Camera", TRUE)>> ELSE <<>>
            BY DEF Init, one
      <4>2. one \o <<>> = one
            BY <3>1, ConcatEmptySeq
      <4>3. one \o <<Order("Camera", TRUE)>> = Append(one, Order("Camera", TRUE))
            BY <3>1, OrdersAreCommands, AppendIsConcat
      <4> QED BY <4>1, <4>2, <4>3
    <3>5. Lacks(Append(one, Order("Camera", TRUE)), on)
          BY <3>1, <3>2, <3>3, OrdersAreCommands, EndsBehindOne
    <3> QED BY <3>3, <3>4, <3>5
  <2> QED BY <2>1, <2>2 DEF Cut
<1> QED BY <1>1, <1>2 DEF CutInv, ServerInv

\* Nothing that concerns a server changes, and its orders wait as they did.
LEMMA ServersAsTheyWere ==
    ASSUME ServerInv, UNCHANGED <<call, used, links, commands, sfus, session>>
    PROVE  ServerInv'
BY DEF ServerInv, ClosedInv, LinkInv, CutInv, Cut, sfus

\* A link that becomes another, or an order of another kind, changes nothing.
LEMMA ServersOfAnotherOrder ==
    ASSUME BetweenTypes, ServerInv, NEW c \in Commands, c.kind # "Connect",
           commands' = Append(commands, c), UNCHANGED <<call, used, links, sfus, session>>
    PROVE  ServerInv'
<1>1. ClosedInv' /\ LinkInv'
      BY DEF ServerInv, ClosedInv, LinkInv, sfus
<1>2. CutInv'
  <2> SUFFICES ASSUME call = "in", NEW s \in Servers, links[s] = "none" PROVE Cut(s)'
      BY DEF CutInv
  <2>1. Cut(s)
        BY DEF ServerInv, CutInv
  <2>2. c # Order("Connect", s)
        BY DEF Order
  <2> QED BY <2>1, <2>2, CutBehindOne
<1> QED BY <1>1, <1>2 DEF ServerInv

\* When a call is over, nothing is asked of its servers but that they be closed.
LEMMA ServersAtTheEnd ==
    ASSUME ServerInv, EndCall, UNCHANGED <<session, sfus>>
    PROVE  ServerInv'
BY DEF ServerInv, EndCall, ClosedInv, LinkInv, CutInv, sfus

\* Links that change from one state to another.
LEMMA ServersOfALink ==
    ASSUME ServerInv, UNCHANGED <<call, used, commands, sfus, session>>,
           \A s \in Servers : links'[s] = "none" <=> links[s] = "none"
    PROVE  ServerInv'
<1>1. ClosedInv' /\ LinkInv'
      BY DEF ServerInv, ClosedInv, LinkInv, Targets, sfus
<1>2. CutInv'
      BY DEF ServerInv, CutInv, Cut, sfus
<1> QED BY <1>1, <1>2 DEF ServerInv

\* The user: a plan that drops a server puts its Disconnect behind all else.
LEMMA UserServerInv ==
    ASSUME TypeOK, ServerInv, UserStep
    PROVE  ServerInv'
<1>0. BetweenTypes
      BY TypesOfTypeOK
<1> USE DEF app, own, sfus
<1>1. ASSUME NEW device, UserOrders(device), NEW c \in Commands, c.kind # "Connect",
             commands' = Append(commands, c)
      PROVE  ServerInv'
      BY <1>0, <1>1, ServersOfAnotherOrder DEF UserOrders
<1>2. \A on \in BOOLEAN, kind \in {"Microphone", "Camera", "ScreenShare"} :
          Order(kind, on) \in Commands /\ Order(kind, on).kind # "Connect"
      BY OrdersAreCommands DEF Order
<1>3. ASSUME NEW on \in BOOLEAN, SetMicrophone(on) \/ SetCamera(on) \/ SetScreenShare(on)
      PROVE  ServerInv'
      BY <1>1, <1>2, <1>3 DEF SetMicrophone, SetCamera, SetScreenShare
<1>4. CASE ChangeScreenShare
  <2> DEFINE r == <<Order("ScreenShare", FALSE), Order("ScreenShare", TRUE)>>
  <2>1. r \in Seq(Commands) /\ Len(r) = 2 /\ r[1] = Order("ScreenShare", FALSE)
        /\ r[2] = Order("ScreenShare", TRUE)
    <3>1. \A c, d \in Commands : <<c, d>> \in Seq(Commands)
          OBVIOUS
    <3> QED BY <3>1, OrdersAreCommands
  <2>2. commands' = commands \o r
        BY <1>4 DEF ChangeScreenShare
  <2> HIDE DEF r
  <2>3. UNCHANGED <<call, used, links, sfus, session>>
        BY <1>4 DEF ChangeScreenShare, UserOrders
  <2>4. ASSUME NEW s \in Servers, Cut(s) PROVE Cut(s)'
    <3>1. Lacks(r, Order("Connect", s))
          BY <2>1 DEF Lacks, Order
    <3>2. commands \in Seq(Commands)
          BY <1>0 DEF BetweenTypes
    <3>3. /\ Ends(commands, Order("Disconnect", s), Order("Connect", s))
                => Ends(commands', Order("Disconnect", s), Order("Connect", s))
          /\ Lacks(commands, Order("Connect", s)) => Lacks(commands', Order("Connect", s))
          BY <2>1, <2>2, <3>1, <3>2, EndsBehind
    <3> QED BY <2>3, <2>4, <3>3 DEF Cut
  <2> QED BY <2>3, <2>4 DEF ServerInv, ClosedInv, LinkInv, CutInv
<1>5. CASE LeaveCall
      BY <1>5, ServersAtTheEnd DEF LeaveCall
<1>6. ASSUME NEW members \in SUBSET Others, MembersChanged(members) PROVE ServerInv'
  <2> DEFINE dropped == Dropped(members)
             retried == Retried(members)
             r == Cuts(dropped) \o Cuts(retried)
  <2>1. dropped \subseteq Servers /\ retried \subseteq Servers
        BY DEF Dropped, Retried, Targets, Servers
  <2>2. /\ Cuts(dropped) \in Seq(Commands) /\ Cuts(retried) \in Seq(Commands)
        /\ \A i \in 1..Len(Cuts(dropped)) : Cuts(dropped)[i].kind = "Disconnect"
        /\ \A i \in 1..Len(Cuts(retried)) : Cuts(retried)[i].kind = "Disconnect"
        /\ \A s \in dropped : \E i \in 1..Len(Cuts(dropped)) :
               Cuts(dropped)[i] = Order("Disconnect", s)
        BY <2>1, CutsFacts
  <2>3. commands \in Seq(Commands)
        BY <1>0 DEF BetweenTypes
  <2>4. commands' = (commands \o Cuts(dropped)) \o Cuts(retried)
        BY <1>6 DEF MembersChanged, Replan, Cuts
  <2>5. UNCHANGED <<call, session, sfus>> /\ used' = members
        BY <1>6 DEF MembersChanged
  <2>6. \A s \in Servers : links'[s] = "none" <=>
            s \in dropped \/ (links[s] = "none" /\ s \notin Targets(members))
        BY <1>6 DEF MembersChanged, Replan, Dropped, Unlinked, Retried, GaveUp
  <2> HIDE DEF dropped, retried
  <2>7. ASSUME NEW s \in Servers,
               Cut(s) \/ s \in dropped
        PROVE  Cut(s)'
    <3> DEFINE off == Order("Disconnect", s)
               on == Order("Connect", s)
    <3>1. Lacks(Cuts(dropped), on) /\ Lacks(Cuts(retried), on)
          BY <2>2 DEF Lacks, Order
    <3>2. /\ Ends(commands, off, on) => Ends(commands \o Cuts(dropped), off, on)
          /\ Lacks(commands, on) => Lacks(commands \o Cuts(dropped), on)
          /\ (\E i \in 1..Len(Cuts(dropped)) : Cuts(dropped)[i] = off)
                => Ends(commands \o Cuts(dropped), off, on)
          BY <2>2, <2>3, <3>1, EndsBehind
    <3>3. commands \o Cuts(dropped) \in Seq(Commands)
          BY <2>2, <2>3, ConcatProperties
    <3>4. /\ Ends(commands \o Cuts(dropped), off, on) => Ends(commands', off, on)
          /\ Lacks(commands \o Cuts(dropped), on) => Lacks(commands', on)
          BY <2>2, <2>4, <3>1, <3>3, EndsBehind
    <3>5. s \in dropped => Ends(commands', off, on)
          BY <2>2, <3>2, <3>4
    <3> QED BY <2>5, <2>7, <3>2, <3>4, <3>5 DEF Cut
  <2>8. ClosedInv'
        BY <2>5 DEF ServerInv, ClosedInv
  <2>9. LinkInv'
    <3> SUFFICES ASSUME NEW s \in Servers \ Targets(members) PROVE links'[s] = "none"
        BY <2>5 DEF LinkInv, Targets
    <3>1. s \in dropped \/ links[s] = "none"
          BY DEF dropped, Dropped
    <3> QED BY <2>6, <3>1
  <2>10. CutInv'
    <3> SUFFICES ASSUME call = "in", NEW s \in Servers, links'[s] = "none" PROVE Cut(s)'
        BY <2>5 DEF CutInv
    <3>1. s \in dropped \/ Cut(s)
          BY <2>6 DEF ServerInv, CutInv
    <3> QED BY <2>7, <3>1
  <2> QED BY <2>8, <2>9, <2>10 DEF ServerInv
<1> QED BY <1>3, <1>4, <1>5, <1>6 DEF UserStep

\* The app: a grant for a server that was dropped meanwhile orders nothing.
LEMMA AppServerInv ==
    ASSUME TypeOK, ServerInv, AppStep
    PROVE  ServerInv'
<1>0. BetweenTypes /\ AppTypes
      BY TypesOfTypeOK
<1> USE DEF app, own, sfus
<1>1. ASSUME NEW s \in Servers, Granted(s) PROVE ServerInv'
  <2>1. CASE links[s] = "none"
        BY <1>1, <2>1, ServersAsTheyWere DEF Granted, ConnectGranted
  <2>2. CASE links[s] # "none"
    <3>1. /\ commands' = Append(commands, Order("Connect", s))
          /\ UNCHANGED <<call, used, session, sfus>>
          /\ \A r \in Servers : links'[r] = "none" <=> links[r] = "none"
          BY <1>0, <1>1, <2>2 DEF Granted, ConnectGranted, AppTypes
    <3>2. ClosedInv' /\ LinkInv'
          BY <3>1 DEF ServerInv, ClosedInv, LinkInv, Targets
    <3>3. CutInv'
      <4> SUFFICES ASSUME call = "in", NEW r \in Servers, links[r] = "none" PROVE Cut(r)'
          BY <3>1 DEF CutInv
      <4>1. Cut(r)
            BY DEF ServerInv, CutInv
      <4>2. Order("Connect", s) # Order("Connect", r)
            BY <2>2 DEF Order
      <4> QED BY <1>0, <3>1, <4>1, <4>2, OrdersAreCommands, CutBehindOne
    <3> QED BY <3>2, <3>3 DEF ServerInv
  <2> QED BY <2>1, <2>2
<1>2. ASSUME NEW s \in Servers, GrantRefused(s) PROVE ServerInv'
  <2>1. CASE s = Own
        BY <1>2, <2>1, ServersAtTheEnd DEF GrantRefused
  <2>2. CASE s # Own
    <3>1. /\ UNCHANGED <<call, used, commands, session, sfus>>
          /\ \A r \in Servers : links'[r] = "none" <=> links[r] = "none"
          BY <1>0, <1>2, <2>2 DEF GrantRefused, AppTypes
    <3> QED BY <3>1, ServersOfALink
  <2> QED BY <2>1, <2>2
<1>3. CASE SfuReported
  <2>1. CASE EndCall /\ UNCHANGED <<session, sfus>>
        BY <2>1, ServersAtTheEnd
  <2>2. CASE /\ links' = [links EXCEPT ![Told[1]] = IF @ = "none" THEN @ ELSE LinkAfter(Told[2])]
             /\ HandlesReport /\ UNCHANGED <<shown, commands>>
    <3>1. Told[2] \in SfuStates
          BY <1>0, <1>3, ReportTypes DEF SfuReported
    <3>2. LinkAfter(Told[2]) # "none"
          BY <3>1 DEF LinkAfter, SfuStates
    <3>3. /\ UNCHANGED <<call, used, commands, session, sfus>>
          /\ \A r \in Servers : links'[r] = "none" <=> links[r] = "none"
          BY <1>0, <2>2, <3>2 DEF HandlesReport, AppTypes
    <3> QED BY <3>3, ServersOfALink
  <2> QED BY <1>3, <2>1, <2>2 DEF SfuReported
<1>4. CASE MicrophoneReported \/ ScreenReported
      BY <1>4, ServersAsTheyWere DEF MicrophoneReported, ScreenReported, HandlesReport
<1>5. CASE CameraReported
  <2>1. UNCHANGED <<call, used, links, session, sfus>>
        BY <1>5 DEF CameraReported, HandlesReport
  <2>2. commands' = commands \/ commands' = Append(commands, Order("Camera", FALSE))
        BY <1>5 DEF CameraReported, CameraGivesUp
  <2>3. Order("Camera", FALSE) \in Commands /\ Order("Camera", FALSE).kind # "Connect"
        BY OrdersAreCommands DEF Order
  <2> QED BY <1>0, <2>1, <2>2, <2>3, ServersAsTheyWere, ServersOfAnotherOrder
<1> QED BY <1>1, <1>2, <1>3, <1>4, <1>5 DEF AppStep

\* The session: only a Connect of a server that has a link dials.
LEMMA SessionServerInv ==
    ASSUME TypeOK, ServerInv, SessionStep \/ Surroundings
    PROVE  ServerInv'
<1>0. BetweenTypes /\ SessionTypes
      BY TypesOfTypeOK
<1> USE DEF app, shown, own, sfus
<1>1. CASE Open
  <2>1. CutInv' /\ LinkInv'
        BY <1>1 DEF Open, SessionMoves, ServerInv, LinkInv, CutInv, Cut, Targets
  <2> QED BY <1>1, <2>1 DEF Open, ServerInv, ClosedInv
<1>2. CASE OpenFails
  <2>1. ClosedInv'
        BY <1>2 DEF OpenFails, ServerInv, ClosedInv
  <2>2. CASE call = "in"
        BY <1>2, <2>1, <2>2 DEF OpenFails, EndCall, ServerInv, LinkInv, CutInv
  <2>3. CASE call # "in"
        BY <1>2, <2>1, <2>3 DEF OpenFails, ServerInv, LinkInv, CutInv
  <2> QED BY <2>2, <2>3
<1>3. CASE Close
      BY <1>3 DEF Close, SessionMoves, ServerInv, ClosedInv, LinkInv, CutInv
\* An order of the session, given what becomes of each server.
<1>4. ASSUME NEW kind, Ordered(kind), Applies,
             \A s \in Servers : links[s] = "none" /\ Cut(s) => Cut(s)'
      PROVE  ServerInv'
  <2>1. UNCHANGED <<call, used, links, session>> /\ session = "open"
        BY <1>4 DEF Applies, SessionMoves, Ordered
  <2> QED BY <1>4, <2>1 DEF ServerInv, ClosedInv, LinkInv, CutInv, Targets
<1>5. ASSUME NEW kind, Ordered(kind), Applies, NEW s \in Servers, Cut(s)
      PROVE  /\ commands' = Tail(commands)
             /\ \/ Ends(commands', Order("Disconnect", s), Order("Connect", s))
                \/ /\ Lacks(commands', Order("Connect", s))
                   /\ kind = "Disconnect" /\ Wanted = s
                \/ /\ Lacks(commands', Order("Connect", s))
                   /\ s \notin dialling /\ conns[s] = "none"
                   /\ kind = "Connect" => Wanted # s
      BY <1>0, <1>5, CutAhead DEF Applies
<1>6. CASE Connect
  <2>1. Ordered("Connect") /\ Applies
        BY <1>6 DEF Connect
  <2>2. UNCHANGED conns /\ dialling' \subseteq dialling \cup {Wanted}
        BY <1>6 DEF Connect
  <2>3. ASSUME NEW s \in Servers, Cut(s) PROVE Cut(s)'
        BY <1>5, <2>1, <2>2, <2>3 DEF Cut
  <2> QED BY <1>4, <2>1, <2>3
<1>7. CASE Disconnect
  <2>1. Ordered("Disconnect") /\ Applies
        BY <1>7 DEF Disconnect
  <2>2. dialling' = dialling \ {Wanted} /\ conns' = [conns EXCEPT ![Wanted] = "none"]
        BY <1>7 DEF Disconnect
  <2>3. ASSUME NEW s \in Servers, Cut(s) PROVE Cut(s)'
    <3>1. (s \notin dialling /\ conns[s] = "none") \/ Wanted = s
             => s \notin dialling' /\ conns'[s] = "none"
          BY <1>0, <2>2 DEF SessionTypes
    <3> QED BY <1>5, <2>1, <2>3, <3>1 DEF Cut
  <2> QED BY <1>4, <2>1, <2>3
<1>8. CASE SwitchMicrophone \/ SwitchCamera \/ SwitchScreen
  <2>1. PICK kind \in {"Microphone", "Camera", "ScreenShare"} : Ordered(kind) /\ Applies
        BY <1>8 DEF SwitchMicrophone, SwitchCamera, SwitchScreen
  <2>2. UNCHANGED sfus
        BY <1>8 DEF SwitchMicrophone, SwitchCamera, SwitchScreen
  <2>3. ASSUME NEW s \in Servers, Cut(s) PROVE Cut(s)'
        BY <1>5, <2>1, <2>2, <2>3 DEF Cut
  <2> QED BY <1>4, <2>1, <2>3
\* A server that is dialled or connected and has no link waits for a Disconnect.
<1>9. ASSUME NEW s \in Servers, s \in dialling \/ conns[s] # "none", session = "open",
             UNCHANGED <<call, used, links, commands, session>>,
             dialling' \subseteq dialling,
             \A r \in Servers : r # s => conns'[r] = conns[r]
      PROVE  ServerInv'
  <2>1. ASSUME NEW r \in Servers, Cut(r) PROVE Cut(r)'
        BY <1>9, <2>1 DEF Cut
  <2>2. ClosedInv' /\ LinkInv'
        BY <1>9 DEF ServerInv, ClosedInv, LinkInv, Targets
  <2>3. CASE s \in dialling \/ conns[s] # "none"
    <3> SUFFICES ASSUME call = "in", NEW r \in Servers, links[r] = "none" PROVE Cut(r)'
        BY <1>9, <2>2 DEF ServerInv, CutInv
    <3> QED BY <2>1 DEF ServerInv, CutInv
  <2> QED BY <1>9, <2>3
<1>10. ASSUME NEW s \in Servers, Adopt(s) \/ DialFails(s) PROVE ServerInv'
      BY <1>0, <1>9, <1>10 DEF Adopt, DialFails, Idle, SessionMoves, SessionTypes
<1>11. ASSUME NEW s \in Servers, PumpStarts(s) \/ Reconnects(s) \/ Wavers(s) \/ CutOff(s)
       PROVE  ServerInv'
  <2>1. PICK from, to, told : "none" \notin from /\ Pump(s, from, to, told)
        BY <1>11 DEF PumpStarts, Reconnects, Wavers, CutOff
  <2>2. conns[s] # "none"
        BY <2>1 DEF Pump
  <2>3. session = "open"
        BY <2>2 DEF ServerInv, ClosedInv, NoConns
  <2> QED BY <1>0, <1>9, <2>1, <2>2, <2>3 DEF Pump, SessionTypes
<1>12. CASE \/ MicrophoneLost \/ MicrophoneReturns \/ CameraLost
            \/ ShareStarts \/ ShareFails \/ ShareEnds \/ SharingRefused
      BY <1>12, ServersAsTheyWere
      DEF MicrophoneLost, MicrophoneReturns, CameraLost, ShareStarts, ShareFails, ShareEnds,
          ShareGoesOn, SharingRefused, OnItsOwn
<1> QED BY <1>1, <1>2, <1>3, <1>6, <1>7, <1>8, <1>10, <1>11, <1>12 DEF SessionStep, Surroundings

\* A server that the engine has, or is about to connect to, is one the call
\* still wants, or the order to disconnect from it is behind it in the queue.
THEOREM ServersAreCut == Spec => []ServerInv
<1>1. TypeOK /\ ServerInv /\ [Next]_vars => ServerInv'
  <2> SUFFICES ASSUME TypeOK, ServerInv, [Next]_vars PROVE ServerInv'
      OBVIOUS
  <2>1. CASE UNCHANGED vars
        BY <2>1, ServersAsTheyWere DEF vars, app, sfus
  <2>2. CASE Next
        BY <2>2, UserServerInv, AppServerInv, SessionServerInv DEF Next
  <2> QED BY <2>1, <2>2
<1> QED BY InitServerInv, <1>1, TypeCorrect, PTL DEF Spec

\* ConnectionsAreWanted always: whatever order grants, connections and the
\* leaving of members come in, no connection stays to a server that no member
\* of the call uses.
THEOREM OnlyWantedConnections == Spec => []ConnectionsAreWanted
<1>1. TypeOK /\ ServerInv => ConnectionsAreWanted
  <2> SUFFICES ASSUME TypeOK, ServerInv, NEW s \in Servers, s \in dialling \/ conns[s] # "none"
               PROVE  /\ session = "open"
                      /\ call = "in" /\ s \notin Targets(used) =>
                          Order("Disconnect", s) \in Range(commands)
      BY DEF ConnectionsAreWanted
  <2>1. session = "open"
        BY DEF ServerInv, ClosedInv, NoConns
  <2>2. ASSUME call = "in", s \notin Targets(used)
        PROVE  Order("Disconnect", s) \in Range(commands)
    <3>1. Ends(commands, Order("Disconnect", s), Order("Connect", s))
          BY <2>2 DEF ServerInv, LinkInv, CutInv, Cut
    <3>2. PICK i \in 1..Len(commands) : commands[i] = Order("Disconnect", s)
          BY <3>1 DEF Ends
    <3>3. i \in DOMAIN commands
          BY LenProperties DEF TypeOK
    <3> QED BY <3>2, <3>3 DEF Range
  <2> QED BY <2>1, <2>2
<1> QED BY <1>1, TypeCorrect, ServersAreCut, PTL

-----------------------------------------------------------------------------
(* Devices that are off *)

\* A device that is off, and is wanted by no order that waits; or the last of
\* the orders for it that wait switches it off.
MicOff == \/ Ends(commands, Order("Microphone", FALSE), Order("Microphone", TRUE))
          \/ /\ Lacks(commands, Order("Microphone", TRUE))
             /\ ~wants.microphone /\ track \in {"none", "muted"}
CamOff == \/ Ends(commands, Order("Camera", FALSE), Order("Camera", TRUE))
          \/ /\ Lacks(commands, Order("Camera", TRUE))
             /\ ~wants.camera /\ ~capture

MicInv == call = "in" /\ mic = "Off" => MicOff
CamInv == call = "in" /\ camera \in {"Off", "Failed"} => CamOff
DeviceInv == MicInv /\ CamInv

\* A command behind a queue, as the devices see it.
LEMMA DevicesBehindOne ==
    ASSUME BetweenTypes, NEW c \in Commands, commands' = Append(commands, c),
           UNCHANGED <<wants, own>>
    PROVE  /\ MicOff /\ c # Order("Microphone", TRUE) => MicOff'
           /\ CamOff /\ c # Order("Camera", TRUE) => CamOff'
           /\ c = Order("Microphone", FALSE) => MicOff'
           /\ c = Order("Camera", FALSE) => CamOff'
<1>1. commands \in Seq(Commands)
      BY DEF BetweenTypes
<1>2. Order("Microphone", FALSE) # Order("Microphone", TRUE)
      /\ Order("Camera", FALSE) # Order("Camera", TRUE)
      BY DEF Order
<1>3. ASSUME NEW kind, c # Order(kind, TRUE)
      PROVE  /\ Ends(commands, Order(kind, FALSE), Order(kind, TRUE))
                  => Ends(commands', Order(kind, FALSE), Order(kind, TRUE))
             /\ Lacks(commands, Order(kind, TRUE)) => Lacks(commands', Order(kind, TRUE))
             /\ c = Order(kind, FALSE) => Ends(commands', Order(kind, FALSE), Order(kind, TRUE))
      BY <1>1, <1>3, EndsBehindOne
<1> QED BY <1>2, <1>3 DEF MicOff, CamOff, own

\* An order for a device is carried out: if the device is off, or is to be, it
\* was no order to switch it on.
LEMMA DevicesAhead ==
    ASSUME BetweenTypes, NEW kind, Ordered(kind), NEW device \in {"Microphone", "Camera"}
    PROVE  LET off == Order(device, FALSE)
               on == Order(device, TRUE)
           IN /\ Ends(commands, off, on) =>
                    \/ Ends(Tail(commands), off, on)
                    \/ kind = device /\ ~Wanted /\ Lacks(Tail(commands), on)
              /\ Lacks(commands, on) =>
                    Lacks(Tail(commands), on) /\ (kind = device => ~Wanted)
<1> DEFINE off == Order(device, FALSE)
           on == Order(device, TRUE)
<1>1. commands \in Seq(Commands) /\ commands # <<>>
      BY DEF BetweenTypes, Ordered
<1>2. /\ Ends(commands, off, on) =>
             Ends(Tail(commands), off, on) \/ (Head(commands) = off /\ Lacks(Tail(commands), on))
      /\ Lacks(commands, on) => Lacks(Tail(commands), on) /\ Head(commands) # on
      BY <1>1, EndsAhead
<1>3. /\ Head(commands) = Order(kind, Wanted)
      /\ kind = device => Wanted \in BOOLEAN
      BY OrderTypes
<1>4. Head(commands) = off => kind = device /\ ~Wanted
      BY <1>3 DEF Order
<1>5. Head(commands) # on => (kind = device => ~Wanted)
      BY <1>3
<1> QED BY <1>2, <1>4, <1>5

\* A call starts with the devices off and with orders for those that are chosen.
LEMMA InitDeviceInv == Init => DeviceInv
<1> SUFFICES ASSUME Init PROVE DeviceInv
    OBVIOUS
<1> DEFINE first == Order("Microphone", mic = "Starting")
           one == <<first>>
           cameraOn == Order("Camera", TRUE)
<1>1. one \in Seq(Commands) /\ Len(one) = 1 /\ one[1] = first
  <2>1. \A c \in Commands : <<c>> \in Seq(Commands)
        OBVIOUS
  <2> QED BY <2>1, OrdersAreCommands
<1>2. commands = one \/ (camera = "Starting" /\ commands = Append(one, cameraOn))
  <2>1. commands = one \o IF camera = "Starting" THEN <<cameraOn>> ELSE <<>>
        BY DEF Init
  <2>2. one \o <<>> = one
        BY <1>1, ConcatEmptySeq
  <2>3. one \o <<cameraOn>> = Append(one, cameraOn)
        BY <1>1, OrdersAreCommands, AppendIsConcat
  <2> QED BY <2>1, <2>2, <2>3
<1>3. cameraOn \in Commands /\ cameraOn # Order("Microphone", TRUE) /\ first # cameraOn
      BY OrdersAreCommands DEF Order
<1>4. ~wants.microphone /\ ~wants.camera /\ track = "none" /\ ~capture
      BY DEF Init
<1> HIDE DEF one, cameraOn
<1>5. MicInv
  <2> SUFFICES ASSUME mic = "Off" PROVE MicOff
      BY DEF MicInv
  <2>1. first # Order("Microphone", TRUE)
        BY DEF Order
  <2> HIDE DEF first
  <2>2. Lacks(one, Order("Microphone", TRUE))
        BY <1>1, <2>1, LacksOne
  <2>3. Lacks(Append(one, cameraOn), Order("Microphone", TRUE))
        BY <1>1, <1>3, <2>2, EndsBehindOne
  <2> QED BY <1>2, <1>4, <2>2, <2>3 DEF MicOff
<1>6. CamInv
  <2> SUFFICES ASSUME camera \in {"Off", "Failed"} PROVE CamOff
      BY DEF CamInv
  <2> HIDE DEF first
  <2>1. commands = one
        BY <1>2
  <2>2. first # Order("Camera", TRUE)
        BY <1>3 DEF cameraOn
  <2>3. Lacks(one, Order("Camera", TRUE))
        BY <1>1, <2>2, LacksOne
  <2> QED BY <1>4, <2>1, <2>3 DEF CamOff
<1> QED BY <1>5, <1>6 DEF DeviceInv

\* What is shown, wanted and captured is as it was, and so are the orders.
LEMMA DevicesAsTheyWere ==
    ASSUME DeviceInv, UNCHANGED <<call, mic, camera, commands, wants, own>>
    PROVE  DeviceInv'
BY DEF DeviceInv, MicInv, CamInv, MicOff, CamOff, own

\* The user, and the app when it reads what is reported: whatever is shown off
\* from now on has been ordered off.
LEMMA AppDeviceInv ==
    ASSUME TypeOK, DeviceInv, AppStep \/ UserStep
    PROVE  DeviceInv'
<1>0. BetweenTypes /\ ShownTypes
      BY TypesOfTypeOK
<1> USE DEF app, shown
<1>1. CASE EndCall
      BY <1>1 DEF EndCall, DeviceInv, MicInv, CamInv
\* An order behind the others.
<1>2. ASSUME NEW c \in Commands, commands' = Append(commands, c), UNCHANGED <<call, wants, own>>,
             mic' = "Off" => \/ c = Order("Microphone", FALSE)
                             \/ mic = "Off" /\ c # Order("Microphone", TRUE),
             camera' \in {"Off", "Failed"} =>
                 \/ c = Order("Camera", FALSE)
                 \/ camera \in {"Off", "Failed"} /\ c # Order("Camera", TRUE)
      PROVE  DeviceInv'
      BY <1>0, <1>2, DevicesBehindOne DEF DeviceInv, MicInv, CamInv
<1>3. ASSUME UNCHANGED <<call, commands, wants, own>>,
             mic' = "Off" => mic = "Off",
             camera' \in {"Off", "Failed"} => camera \in {"Off", "Failed"}
      PROVE  DeviceInv'
      BY <1>3 DEF DeviceInv, MicInv, CamInv, MicOff, CamOff, own
<1>4. /\ \A on \in BOOLEAN : /\ Order("Microphone", on) # Order("Camera", TRUE)
                             /\ Order("Camera", on) # Order("Microphone", TRUE)
                             /\ Order("ScreenShare", on) # Order("Microphone", TRUE)
                             /\ Order("ScreenShare", on) # Order("Camera", TRUE)
      /\ \A s \in Servers, kind \in {"Connect", "Disconnect"} :
             Order(kind, s) # Order("Microphone", TRUE) /\ Order(kind, s) # Order("Camera", TRUE)
      BY DEF Order
<1>5. ASSUME NEW on \in BOOLEAN, SetMicrophone(on) PROVE DeviceInv'
  <2>1. /\ commands' = Append(commands, Order("Microphone", on))
        /\ UNCHANGED <<call, wants, own, camera>>
        BY <1>5 DEF SetMicrophone, UserOrders
  <2>2. mic' = "Off" => on = FALSE
        BY <1>5 DEF SetMicrophone, SwitchedMicrophone
  <2>3. Order("Microphone", on) \in Commands
        BY OrdersAreCommands
  <2>4. Order("Microphone", on) # Order("Camera", TRUE)
        BY <1>4
  <2> QED BY <1>2, <2>1, <2>2, <2>3, <2>4
<1>6. ASSUME NEW on \in BOOLEAN, SetCamera(on) PROVE DeviceInv'
  <2>1. /\ commands' = Append(commands, Order("Camera", on))
        /\ UNCHANGED <<call, wants, own, mic>>
        BY <1>6 DEF SetCamera, UserOrders
  <2>2. camera' \in {"Off", "Failed"} => on = FALSE
        BY <1>6 DEF SetCamera
  <2>3. Order("Camera", on) \in Commands
        BY OrdersAreCommands
  <2>4. Order("Camera", on) # Order("Microphone", TRUE)
        BY <1>4
  <2> QED BY <1>2, <2>1, <2>2, <2>3, <2>4
<1>7. ASSUME NEW on \in BOOLEAN, SetScreenShare(on) PROVE DeviceInv'
  <2>1. /\ commands' = Append(commands, Order("ScreenShare", on))
        /\ UNCHANGED <<call, wants, own, mic, camera>>
        BY <1>7 DEF SetScreenShare, UserOrders
  <2>2. Order("ScreenShare", on) \in Commands
        BY OrdersAreCommands
  <2>3. Order("ScreenShare", on) # Order("Microphone", TRUE)
        /\ Order("ScreenShare", on) # Order("Camera", TRUE)
        BY <1>4
  <2> QED BY <1>2, <2>1, <2>2, <2>3
\* More orders behind the others, none of them for a device.
<1>8. ASSUME NEW r \in Seq(Commands), commands' = commands \o r,
             Lacks(r, Order("Microphone", TRUE)), Lacks(r, Order("Camera", TRUE)),
             UNCHANGED <<call, mic, camera, wants, own>>
      PROVE  DeviceInv'
  <2>1. commands \in Seq(Commands)
        BY <1>0 DEF BetweenTypes
  <2>2. ASSUME NEW kind, Lacks(r, Order(kind, TRUE))
        PROVE  /\ Ends(commands, Order(kind, FALSE), Order(kind, TRUE))
                    => Ends(commands', Order(kind, FALSE), Order(kind, TRUE))
               /\ Lacks(commands, Order(kind, TRUE)) => Lacks(commands', Order(kind, TRUE))
        BY <1>8, <2>1, <2>2, EndsBehind
  <2> QED BY <1>8, <2>2 DEF DeviceInv, MicInv, CamInv, MicOff, CamOff, own
<1>9. CASE ChangeScreenShare
  <2> DEFINE r == <<Order("ScreenShare", FALSE), Order("ScreenShare", TRUE)>>
  <2>1. r \in Seq(Commands) /\ Len(r) = 2 /\ r[1] = Order("ScreenShare", FALSE)
        /\ r[2] = Order("ScreenShare", TRUE)
    <3>1. \A c, d \in Commands : <<c, d>> \in Seq(Commands)
          OBVIOUS
    <3> QED BY <3>1, OrdersAreCommands
  <2>2. commands' = commands \o r /\ UNCHANGED <<call, mic, camera, wants, own>>
        BY <1>9 DEF ChangeScreenShare, UserOrders
  <2> HIDE DEF r
  <2>3. /\ r[1] # Order("Microphone", TRUE) /\ r[2] # Order("Microphone", TRUE)
        /\ r[1] # Order("Camera", TRUE) /\ r[2] # Order("Camera", TRUE)
        BY <1>4, <2>1
  <2>4. Lacks(r, Order("Microphone", TRUE)) /\ Lacks(r, Order("Camera", TRUE))
        BY <2>1, <2>3, LacksTwo
  <2> QED BY <1>8, <2>1, <2>2, <2>4
<1>10. ASSUME NEW members \in SUBSET Others, MembersChanged(members) PROVE DeviceInv'
  <2> DEFINE cut == Cuts(Dropped(members))
             again == Cuts(Retried(members))
  <2>1. Dropped(members) \subseteq Servers /\ Retried(members) \subseteq Servers
        BY DEF Dropped, Retried, Targets, Servers
  <2>2. commands' = (commands \o cut) \o again
        BY <1>10 DEF MembersChanged, Replan, Cuts
  <2>3. /\ cut \in Seq(Commands) /\ \A i \in 1..Len(cut) : cut[i].kind = "Disconnect"
        /\ again \in Seq(Commands) /\ \A i \in 1..Len(again) : again[i].kind = "Disconnect"
        BY <2>1, CutsFacts
  <2> HIDE DEF cut, again
  <2>4. \A kind \in {"Microphone", "Camera"} :
            Lacks(cut, Order(kind, TRUE)) /\ Lacks(again, Order(kind, TRUE))
        BY <2>3 DEF Lacks, Order
  <2>5. commands \in Seq(Commands) /\ commands' = commands \o (cut \o again)
        /\ cut \o again \in Seq(Commands)
        BY <1>0, <2>2, <2>3, ConcatProperties, ConcatAssociative DEF BetweenTypes
  <2>6. \A kind \in {"Microphone", "Camera"} : Lacks(cut \o again, Order(kind, TRUE))
        BY <2>3, <2>4, EndsBehind
  <2>7. UNCHANGED <<call, mic, camera, wants, own>>
        BY <1>10 DEF MembersChanged
  <2> QED BY <1>8, <2>5, <2>6, <2>7
<1>11. ASSUME NEW s \in Servers, Granted(s) PROVE DeviceInv'
  <2>1. UNCHANGED <<call, mic, camera, wants, own>>
        BY <1>11 DEF Granted
  <2>2. commands' = commands \/ commands' = Append(commands, Order("Connect", s))
        BY <1>11 DEF Granted, ConnectGranted
  <2>3. Order("Connect", s) \in Commands
        BY OrdersAreCommands
  <2>4. Order("Connect", s) # Order("Microphone", TRUE)
        /\ Order("Connect", s) # Order("Camera", TRUE)
        BY <1>4
  <2> QED BY <1>2, <2>1, <2>2, <2>3, <2>4, DevicesAsTheyWere
<1>12. ASSUME NEW s \in Servers, GrantRefused(s) PROVE DeviceInv'
      BY <1>1, <1>3, <1>12 DEF GrantRefused
<1>13. CASE SfuReported
      BY <1>1, <1>3, <1>13 DEF SfuReported, HandlesReport
<1>14. CASE MicrophoneReported
      BY <1>3, <1>14 DEF MicrophoneReported, HandlesReport
<1>15. CASE ScreenReported
      BY <1>3, <1>15 DEF ScreenReported, HandlesReport
<1>16. CASE CameraReported
  <2>1. UNCHANGED <<call, mic, wants, own>>
        BY <1>16 DEF CameraReported, HandlesReport
  <2>2. \/ commands' = commands /\ (camera' \in {"Off", "Failed"} => camera \in {"Off", "Failed"})
        \/ commands' = Append(commands, Order("Camera", FALSE))
        BY <1>16 DEF CameraReported, CameraGivesUp
  <2>3. Order("Camera", FALSE) \in Commands /\ Order("Camera", FALSE) # Order("Microphone", TRUE)
        BY <1>4, OrdersAreCommands
  <2> QED BY <1>2, <1>3, <2>1, <2>2, <2>3
<1>17. CASE LeaveCall
      BY <1>1, <1>17 DEF LeaveCall
<1> QED BY <1>5, <1>6, <1>7, <1>9, <1>10, <1>11, <1>12, <1>13, <1>14, <1>15, <1>16, <1>17
        DEF AppStep, UserStep

\* The session: a device is switched on by an order for it, or by the server of
\* one's own once nothing else is ordered, and only as it is wanted.
LEMMA SessionDeviceInv ==
    ASSUME TypeOK, DeviceInv, SessionStep \/ Surroundings
    PROVE  DeviceInv'
<1>0. BetweenTypes /\ DeviceTypes /\ SessionTypes
      BY TypesOfTypeOK
<1> USE DEF app, shown
\* An order, given what becomes of the devices.
<1>1. ASSUME NEW kind, Ordered(kind), Applies,
             MicOff => MicOff', CamOff => CamOff'
      PROVE  DeviceInv'
      BY <1>1 DEF Applies, SessionMoves, DeviceInv, MicInv, CamInv
<1>2. ASSUME NEW kind, Ordered(kind), Applies, NEW device \in {"Microphone", "Camera"}
      PROVE  /\ Ends(commands, Order(device, FALSE), Order(device, TRUE)) =>
                   \/ Ends(commands', Order(device, FALSE), Order(device, TRUE))
                   \/ kind = device /\ ~Wanted /\ Lacks(commands', Order(device, TRUE))
             /\ Lacks(commands, Order(device, TRUE)) =>
                   Lacks(commands', Order(device, TRUE)) /\ (kind = device => ~Wanted)
      BY <1>0, <1>2, DevicesAhead DEF Applies
<1>3. CASE Connect \/ Disconnect \/ SwitchScreen
  <2>1. PICK kind \in {"Connect", "Disconnect", "ScreenShare"} : Ordered(kind) /\ Applies
        BY <1>3 DEF Connect, Disconnect, SwitchScreen
  <2>2. UNCHANGED <<wants, track, capture>>
        BY <1>3 DEF Connect, Disconnect, SwitchScreen, own
  <2>3. (MicOff => MicOff') /\ (CamOff => CamOff')
        BY <1>2, <2>1, <2>2 DEF MicOff, CamOff
  <2> QED BY <1>1, <2>1, <2>3
<1>4. CASE SwitchMicrophone
  <2>1. Ordered("Microphone") /\ Applies /\ UNCHANGED capture
        BY <1>4 DEF SwitchMicrophone
  <2>2. wants' = [wants EXCEPT !["microphone"] = Wanted]
        BY <1>4 DEF SwitchMicrophone, Follow
  <2>3. PICK m \in Microphones(Wanted, Publishing) : track' = m.to
        BY <1>4 DEF SwitchMicrophone
  <2>4. ~Wanted => m.to \in {"none", "muted"}
        BY DEF Microphones
  <2>5. wants'.microphone = Wanted /\ wants'.camera = wants.camera
        BY <1>0, <2>2 DEF SessionTypes
  <2>6. MicOff => MicOff'
        BY <1>2, <2>1, <2>3, <2>4, <2>5 DEF MicOff
  <2>7. CamOff => CamOff'
        BY <1>2, <2>1, <2>5 DEF CamOff
  <2> QED BY <1>1, <2>1, <2>6, <2>7
<1>5. CASE SwitchCamera
  <2>1. Ordered("Camera") /\ Applies /\ UNCHANGED track
        BY <1>5 DEF SwitchCamera
  <2>2. wants' = [wants EXCEPT !["camera"] = Wanted]
        BY <1>5 DEF SwitchCamera, Follow
  <2>3. PICK c \in Cameras(Wanted, Publishing) : capture' = c.to
        BY <1>5 DEF SwitchCamera
  <2>4. ~Wanted => ~c.to
        BY DEF Cameras
  <2>5. wants'.camera = Wanted /\ wants'.microphone = wants.microphone
        BY <1>0, <2>2 DEF SessionTypes
  <2>6. CamOff => CamOff'
        BY <1>2, <2>1, <2>3, <2>4, <2>5 DEF CamOff
  <2>7. MicOff => MicOff'
        BY <1>2, <2>1, <2>5 DEF MicOff
  <2> QED BY <1>1, <2>1, <2>6, <2>7
\* No order is carried out, and nothing that is off is switched on.
<1>6. ASSUME UNCHANGED <<call, mic, camera, commands, wants>>,
             track \in {"none", "muted"} /\ (commands = <<>> => ~wants.microphone)
                 => track' \in {"none", "muted"},
             ~capture /\ (commands = <<>> => ~wants.camera) => ~capture'
      PROVE  DeviceInv'
  <2>1. (MicOff => MicOff') /\ (CamOff => CamOff')
        BY <1>6 DEF MicOff, CamOff
  <2> QED BY <1>6, <2>1 DEF DeviceInv, MicInv, CamInv
<1>7. ASSUME NEW s \in Servers, Adopt(s) PROVE DeviceInv'
  <2>1. PICK m \in IF s = Own /\ wants.microphone THEN Microphones(TRUE, TRUE)
                   ELSE {[to |-> track, told |-> <<>>]},
             c \in IF s = Own /\ wants.camera THEN Cameras(TRUE, TRUE)
                   ELSE {[to |-> capture, told |-> <<>>]} :
                track' = m.to /\ capture' = c.to
        BY <1>7 DEF Adopt
  <2>2. ~wants.microphone => track' = track
    <3>1. ~wants.microphone => m = [to |-> track, told |-> <<>>]
          OBVIOUS
    <3> QED BY <2>1, <3>1
  <2>3. ~wants.camera => capture' = capture
    <3>1. ~wants.camera => c = [to |-> capture, told |-> <<>>]
          OBVIOUS
    <3> QED BY <2>1, <3>1
  <2>4. commands = <<>> /\ UNCHANGED <<call, mic, camera, commands, wants>>
        BY <1>7 DEF Adopt, Idle, SessionMoves
  <2> QED BY <1>6, <2>2, <2>3, <2>4
<1>8. ASSUME NEW s \in Servers, DialFails(s) PROVE DeviceInv'
      BY <1>8, DevicesAsTheyWere DEF DialFails, SessionMoves
<1>9. ASSUME NEW s \in Servers, PumpStarts(s) \/ Reconnects(s) \/ Wavers(s) \/ CutOff(s)
      PROVE  DeviceInv'
      BY <1>9, DevicesAsTheyWere DEF PumpStarts, Reconnects, Wavers, CutOff, Pump
<1>10. CASE Open
      BY <1>10, DevicesAsTheyWere DEF Open, SessionMoves
<1>11. CASE OpenFails
  <2>1. CASE call = "in"
        BY <1>11, <2>1 DEF OpenFails, EndCall, DeviceInv, MicInv, CamInv
  <2>2. CASE call # "in"
        BY <1>11, <2>2, DevicesAsTheyWere DEF OpenFails
  <2> QED BY <2>1, <2>2
<1>12. CASE Close
      BY <1>12 DEF Close, SessionMoves, DeviceInv, MicInv, CamInv
<1>13. CASE MicrophoneLost \/ MicrophoneReturns \/ CameraLost
      BY <1>6, <1>13 DEF MicrophoneLost, MicrophoneReturns, CameraLost, OnItsOwn
<1>14. CASE ShareStarts \/ ShareFails \/ ShareEnds
      BY <1>6, <1>14 DEF ShareStarts, ShareFails, ShareEnds, ShareGoesOn, OnItsOwn
<1>15. CASE SharingRefused
      BY <1>15, DevicesAsTheyWere DEF SharingRefused, OnItsOwn
<1> QED BY <1>3, <1>4, <1>5, <1>7, <1>8, <1>9, <1>10, <1>11, <1>12, <1>13, <1>14, <1>15
        DEF SessionStep, Surroundings

\* DeviceInv is kept: the order to switch a device off outlives, in the queue
\* or in what is wanted, every order and every connection that came before it.
THEOREM DevicesStayOff == Spec => []DeviceInv
<1>1. TypeOK /\ DeviceInv /\ [Next]_vars => DeviceInv'
  <2> SUFFICES ASSUME TypeOK, DeviceInv, [Next]_vars PROVE DeviceInv'
      OBVIOUS
  <2>1. CASE UNCHANGED vars
        BY <2>1, DevicesAsTheyWere DEF vars, app, shown
  <2>2. CASE Next
        BY <2>2, AppDeviceInv, SessionDeviceInv DEF Next
  <2> QED BY <2>1, <2>2
<1> QED BY InitDeviceInv, <1>1, TypeCorrect, PTL DEF Spec

\* Once every order is carried out, a microphone that is shown muted is silent
\* and a camera that is shown off or failed captures nothing (Joined, drive).
THEOREM OffMeansOff == Spec => []OffIsOff
<1>1. DeviceInv => OffIsOff
  <2>1. ASSUME NEW off, NEW on, commands = <<>> PROVE ~Ends(commands, off, on)
    <3>1. Len(commands) = 0
          BY <2>1
    <3> QED BY <3>1 DEF Ends
  <2> QED BY <2>1 DEF DeviceInv, MicInv, CamInv, MicOff, CamOff, OffIsOff
<1> QED BY <1>1, DevicesStayOff, PTL

-----------------------------------------------------------------------------
(* What is shown is so: the queues *)

\* What a queue behind another lacks, both of them lack.
LEMMA LacksBehind ==
    ASSUME NEW A, NEW q \in Seq(A), NEW r \in Seq(A), NEW on
    PROVE  Lacks(q \o r, on) <=> Lacks(q, on) /\ Lacks(r, on)
<1>1. /\ Len(q) \in Nat /\ Len(r) \in Nat /\ Len(q \o r) = Len(q) + Len(r)
      /\ \A i \in 1..(Len(q) + Len(r)) :
             (q \o r)[i] = IF i <= Len(q) THEN q[i] ELSE r[i - Len(q)]
      BY ConcatProperties, LenProperties
<1>2. ASSUME Lacks(q, on), Lacks(r, on) PROVE Lacks(q \o r, on)
      BY <1>2, EndsBehind
<1>3. ASSUME Lacks(q \o r, on) PROVE Lacks(q, on)
  <2>1. \A i \in 1..Len(q) : i \in 1..Len(q \o r) /\ (q \o r)[i] = q[i]
        BY <1>1
  <2> QED BY <1>3, <2>1 DEF Lacks
<1>4. ASSUME Lacks(q \o r, on) PROVE Lacks(r, on)
  <2>1. ASSUME NEW i \in 1..Len(r)
        PROVE  Len(q) + i \in 1..Len(q \o r) /\ (q \o r)[Len(q) + i] = r[i]
    <3>1. /\ Len(q) + i \in 1..(Len(q) + Len(r)) /\ ~(Len(q) + i <= Len(q))
          /\ (Len(q) + i) - Len(q) = i
          BY <1>1
    <3> QED BY <1>1, <3>1
  <2> QED BY <1>4, <2>1 DEF Lacks
<1> QED BY <1>2, <1>3, <1>4

\* What a queue lacks, neither its first nor those behind it are.
LEMMA LacksAhead ==
    ASSUME NEW A, NEW q \in Seq(A), q # <<>>, NEW on
    PROVE  Lacks(q, on) <=> Head(q) # on /\ Lacks(Tail(q), on)
<1>1. /\ Len(q) \in Nat \ {0} /\ Len(Tail(q)) = Len(q) - 1 /\ Head(q) = q[1]
      /\ \A i \in 1..Len(Tail(q)) : Tail(q)[i] = q[i + 1]
      BY HeadTailProperties, EmptySeq
<1>2. ASSUME Head(q) # on, Lacks(Tail(q), on), NEW i \in 1..Len(q) PROVE q[i] # on
  <2>1. CASE i = 1
        BY <1>1, <1>2, <2>1
  <2>2. CASE i # 1
    <3>1. i - 1 \in 1..Len(Tail(q)) /\ (i - 1) + 1 = i
          BY <1>1, <2>2
    <3> QED BY <1>1, <1>2, <3>1 DEF Lacks
  <2> QED BY <2>1, <2>2
<1>3. ASSUME Lacks(q, on) PROVE Head(q) # on /\ Lacks(Tail(q), on)
      BY <1>3, EndsAhead
<1> QED BY <1>2, <1>3 DEF Lacks

\* In a step one queue may grow behind, or lose its first, all of some kinds.
OrdersOf(kinds) ==
    \/ \E r \in Seq(Commands) :
          commands' = commands \o r /\ \A i \in 1..Len(r) : r[i].kind \in kinds
    \/ commands # <<>> /\ commands' = Tail(commands) /\ Head(commands).kind \in kinds
ReportsOf(kinds) ==
    \/ \E r \in Seq(Events) :
          events' = events \o r /\ \A i \in 1..Len(r) : r[i].kind \in kinds
    \/ events # <<>> /\ events' = Tail(events) /\ Head(events).kind \in kinds

\* The last order for a device switches it on; none switches it off; the app is
\* yet to read a report.
ComesLast(kind) == Ends(commands, Order(kind, TRUE), Order(kind, FALSE))
NotOff(kind) == Lacks(commands, Order(kind, FALSE))
Waits(kind, what) == ~Lacks(events, Report(kind, what))

\* A step that touches no order of a kind.
LEMMA OrdersStay ==
    ASSUME BetweenTypes, NEW kinds, OrdersOf(kinds), NEW kind, kind \notin kinds
    PROVE  /\ \A what : Lacks(commands', Order(kind, what)) <=> Lacks(commands, Order(kind, what))
           /\ ComesLast(kind) => ComesLast(kind)'
<1>1. commands \in Seq(Commands)
      BY DEF BetweenTypes
<1>2. CASE \E r \in Seq(Commands) :
              commands' = commands \o r /\ \A i \in 1..Len(r) : r[i].kind \in kinds
  <2>1. PICK r \in Seq(Commands) :
            commands' = commands \o r /\ \A i \in 1..Len(r) : r[i].kind \in kinds
        BY <1>2
  <2>2. \A what : Lacks(r, Order(kind, what))
        BY <2>1 DEF Lacks, Order
  <2>3. \A what : Lacks(commands', Order(kind, what)) <=> Lacks(commands, Order(kind, what))
        BY <1>1, <2>1, <2>2, LacksBehind
  <2>4. ComesLast(kind) => ComesLast(kind)'
        BY <1>1, <2>1, <2>2, EndsBehind DEF ComesLast
  <2> QED BY <2>3, <2>4
<1>3. CASE commands # <<>> /\ commands' = Tail(commands) /\ Head(commands).kind \in kinds
  <2>1. \A what : Head(commands) # Order(kind, what)
        BY <1>3 DEF Order
  <2>2. ASSUME NEW what
        PROVE  Lacks(commands', Order(kind, what)) <=> Lacks(commands, Order(kind, what))
    <3> DEFINE one == Order(kind, what)
    <3>1. Head(commands) # one
          BY <2>1
    <3> HIDE DEF one
    <3>2. Lacks(commands, one) <=> Head(commands) # one /\ Lacks(Tail(commands), one)
          BY <1>1, <1>3, LacksAhead
    <3>3. Lacks(commands', one) <=> Lacks(commands, one)
          BY <1>3, <3>1, <3>2
    <3> QED BY <3>3 DEF one
  <2>3. ComesLast(kind) => ComesLast(kind)'
    <3> DEFINE on == Order(kind, TRUE)
               off == Order(kind, FALSE)
    <3>1. Head(commands) # on
          BY <2>1
    <3> HIDE DEF on, off
    <3>2. Ends(commands, on, off) =>
              Ends(Tail(commands), on, off) \/ (Head(commands) = on /\ Lacks(Tail(commands), off))
          BY <1>1, <1>3, EndsAhead
    <3>3. Ends(commands, on, off) => Ends(commands', on, off)
          BY <1>3, <3>1, <3>2
    <3> QED BY <3>3 DEF ComesLast, on, off
  <2> QED BY <2>2, <2>3
<1> QED BY <1>2, <1>3 DEF OrdersOf

\* A step that touches no report of a kind.
LEMMA ReportsStay ==
    ASSUME BetweenTypes, NEW kinds, ReportsOf(kinds), NEW kind, kind \notin kinds
    PROVE  \A what : Waits(kind, what)' <=> Waits(kind, what)
<1>1. events \in Seq(Events)
      BY DEF BetweenTypes
<1>2. CASE \E r \in Seq(Events) :
              events' = events \o r /\ \A i \in 1..Len(r) : r[i].kind \in kinds
  <2>1. PICK r \in Seq(Events) :
            events' = events \o r /\ \A i \in 1..Len(r) : r[i].kind \in kinds
        BY <1>2
  <2>2. \A what : Lacks(r, Report(kind, what))
        BY <2>1 DEF Lacks, Report
  <2>3. \A what : Lacks(events', Report(kind, what)) <=> Lacks(events, Report(kind, what))
        BY <1>1, <2>1, <2>2, LacksBehind
  <2> QED BY <2>3 DEF Waits
<1>3. CASE events # <<>> /\ events' = Tail(events) /\ Head(events).kind \in kinds
  <2>1. \A what : Head(events) # Report(kind, what)
        BY <1>3 DEF Report
  <2>2. \A what : Lacks(events', Report(kind, what)) <=> Lacks(events, Report(kind, what))
        BY <1>1, <1>3, <2>1, LacksAhead
  <2> QED BY <2>2 DEF Waits
<1> QED BY <1>2, <1>3 DEF ReportsOf

\* What is told waits behind what waited.
LEMMA WaitsBehind ==
    ASSUME BetweenTypes, call = "in", NEW r \in Seq(Events), Tell(r), NEW kind, NEW what
    PROVE  Waits(kind, what)' <=> Waits(kind, what) \/ ~Lacks(r, Report(kind, what))
<1>1. events \in Seq(Events) /\ events' = events \o r
      BY DEF BetweenTypes, Tell
<1>2. Lacks(events', Report(kind, what)) <=>
          Lacks(events, Report(kind, what)) /\ Lacks(r, Report(kind, what))
      BY <1>1, LacksBehind
<1> QED BY <1>2 DEF Waits

\* A queue lacks nothing that it was told to hold: none, one or two reports.
LEMMA LacksFew ==
    /\ \A on : Lacks(<<>>, on)
    /\ \A a, on : Lacks(<<a>>, on) <=> a # on
    /\ \A a, b, on : Lacks(<<a, b>>, on) <=> a # on /\ b # on
BY DEF Lacks

\* When a report is read, what waits is the report, or waits still.
LEMMA WaitsAhead ==
    ASSUME BetweenTypes, NEW kind, Reported(kind), events' = Tail(events), NEW what
    PROVE  /\ Waits(kind, what) <=> Told = what \/ Waits(kind, what)'
           /\ Head(events) = Report(kind, Told)
<1>1. events \in Seq(Events) /\ events # <<>>
      BY DEF BetweenTypes, Reported
<1>2. Head(events) = Report(kind, Told)
  <2>1. Head(events) \in Events /\ Head(events).kind = kind
        BY <1>1, HeadTailProperties DEF Reported
  <2> QED BY <2>1 DEF Events, Report, Told
<1>3. Head(events) = Report(kind, what) <=> Told = what
      BY <1>2 DEF Report
<1>4. Lacks(events, Report(kind, what)) <=>
          Head(events) # Report(kind, what) /\ Lacks(Tail(events), Report(kind, what))
      BY <1>1, LacksAhead
<1> QED BY <1>2, <1>3, <1>4 DEF Waits

\* When an order for a device is carried out.
LEMMA OrderAhead ==
    ASSUME BetweenTypes, NEW kind \in {"Microphone", "Camera", "ScreenShare"},
           Ordered(kind), Applies
    PROVE  /\ Wanted \in BOOLEAN
           /\ ComesLast(kind) => ComesLast(kind)' \/ (Wanted /\ NotOff(kind)')
           /\ NotOff(kind) <=> Wanted /\ NotOff(kind)'
<1> DEFINE on == Order(kind, TRUE)
           off == Order(kind, FALSE)
<1>1. commands \in Seq(Commands) /\ commands # <<>> /\ commands' = Tail(commands)
      BY DEF BetweenTypes, Ordered, Applies
<1>2. Head(commands) = Order(kind, Wanted) /\ Wanted \in BOOLEAN
      BY OrderTypes
<1>3. Ends(commands, on, off) =>
          Ends(Tail(commands), on, off) \/ (Head(commands) = on /\ Lacks(Tail(commands), off))
      BY <1>1, EndsAhead
<1>4. Lacks(commands, off) <=> Head(commands) # off /\ Lacks(Tail(commands), off)
      BY <1>1, LacksAhead
<1>5. (Head(commands) = on <=> Wanted) /\ (Head(commands) # off <=> Wanted)
  <2>1. on # off
        BY DEF Order
  <2>2. CASE Wanted = TRUE
        BY <1>2, <2>1, <2>2
  <2>3. CASE Wanted = FALSE
        BY <1>2, <2>1, <2>3
  <2> QED BY <1>2, <2>2, <2>3
<1> QED BY <1>1, <1>2, <1>3, <1>4, <1>5 DEF ComesLast, NotOff

\* When an order for a device is given.
LEMMA OrderBehind ==
    ASSUME BetweenTypes, NEW kind \in {"Microphone", "Camera", "ScreenShare"}, NEW on \in BOOLEAN,
           commands' = Append(commands, Order(kind, on))
    PROVE  /\ on => ComesLast(kind)'
           /\ NotOff(kind)' <=> on /\ NotOff(kind)
<1>1. commands \in Seq(Commands) /\ Order(kind, on) \in Commands
      BY OrdersAreCommands DEF BetweenTypes
<1>2. Order(kind, TRUE) # Order(kind, FALSE)
      BY DEF Order
<1>3. on => ComesLast(kind)'
  <2> SUFFICES ASSUME on = TRUE PROVE ComesLast(kind)'
      OBVIOUS
  <2> QED BY <1>1, <1>2, EndsBehindOne DEF ComesLast
<1>4. commands' = commands \o <<Order(kind, on)>> /\ <<Order(kind, on)>> \in Seq(Commands)
      BY <1>1, AppendIsConcat
<1>5. Lacks(<<Order(kind, on)>>, Order(kind, FALSE)) <=> on = TRUE
  <2>1. \A a, b : Lacks(<<a>>, b) <=> a # b
        BY LacksFew
  <2>2. Order(kind, on) # Order(kind, FALSE) <=> on = TRUE
    <3>1. CASE on = TRUE
          BY <1>2, <3>1
    <3>2. CASE on = FALSE
          BY <3>2
    <3> QED BY <3>1, <3>2
  <2> QED BY <2>1, <2>2
<1>6. NotOff(kind)' <=> on /\ NotOff(kind)
  <2> DEFINE r == <<Order(kind, on)>>
             off == Order(kind, FALSE)
  <2>1. /\ commands' = commands \o r /\ r \in Seq(Commands)
        /\ Lacks(r, off) <=> on = TRUE
        BY <1>4, <1>5
  <2> HIDE DEF r, off
  <2>2. Lacks(commands', off) <=> Lacks(commands, off) /\ Lacks(r, off)
        BY <1>1, <2>1, LacksBehind
  <2>3. Lacks(commands', off) <=> on /\ Lacks(commands, off)
        BY <2>1, <2>2
  <2> QED BY <2>3 DEF NotOff, off
<1> QED BY <1>3, <1>6

\* What may become of the microphone, and whether that is told: it goes on, or
\* that it failed is told, unless it waits for a connection to publish it.
LEMMA MicrophonesSay ==
    ASSUME DeviceTypes, NEW on \in BOOLEAN, NEW publishing \in BOOLEAN,
           NEW m \in Microphones(on, publishing)
    PROVE  LET says(what) == ~Lacks(m.told, Report("Microphone", what))
           IN /\ \A i \in 1..Len(m.told) : m.told[i].kind = "Microphone"
              /\ track # "none" \/ says("On") => m.to # "none"
              /\ on => \/ says("Failed")
                       \/ m.to = "live" /\ says("On")
                       \/ m.to = "none" /\ track = "none" /\ ~publishing
<1> DEFINE up == Report("Microphone", "On")
           down == Report("Microphone", "Failed")
           Fits(to, told) ==
               /\ \A i \in 1..Len(told) : told[i].kind = "Microphone"
               /\ track # "none" \/ ~Lacks(told, up) => to # "none"
               /\ on => \/ ~Lacks(told, down)
                        \/ to = "live" /\ ~Lacks(told, up)
                        \/ to = "none" /\ track = "none" /\ ~publishing
<1>1. up # down /\ up.kind = "Microphone" /\ down.kind = "Microphone"
      BY DEF Report
<1> HIDE DEF up, down
<1>2. /\ \A x : Lacks(<<>>, x)
      /\ ~Lacks(<<up>>, up) /\ Lacks(<<down>>, up) /\ ~Lacks(<<down>>, down)
      /\ ~Lacks(<<down, up>>, down) /\ ~Lacks(<<down, up>>, up)
      BY <1>1, LacksFew
<1>3. /\ \A i \in 1..Len(<<>>) : <<>>[i].kind = "Microphone"
      /\ \A i \in 1..Len(<<up>>) : <<up>>[i].kind = "Microphone"
      /\ \A i \in 1..Len(<<down>>) : <<down>>[i].kind = "Microphone"
      /\ \A i \in 1..Len(<<down, up>>) : <<down, up>>[i].kind = "Microphone"
      BY <1>1
<1>4. Fits("live", <<up>>) /\ Fits("live", <<down, up>>) /\ Fits(track, <<down>>)
      BY <1>2, <1>3
<1>5. on = FALSE => Fits("muted", <<>>) /\ Fits("muted", <<down>>)
      BY <1>2, <1>3
<1>6. track = "none" => Fits("none", <<down>>)
      BY <1>2, <1>3
<1>7. track = "none" /\ ~(on /\ publishing) => Fits("none", <<>>)
      BY <1>2, <1>3
<1>8. \/ m = [to |-> "live", told |-> <<up>>]
      \/ track = "none" /\ m = [to |-> "none", told |-> <<down>>]
      \/ track = "none" /\ ~(on /\ publishing) /\ m = [to |-> "none", told |-> <<>>]
      \/ m = [to |-> "live", told |-> <<down, up>>]
      \/ m = [to |-> track, told |-> <<down>>]
      \/ on = FALSE /\ m = [to |-> "muted", told |-> <<>>]
      \/ on = FALSE /\ m = [to |-> "muted", told |-> <<down>>]
      BY DEF Microphones, up, down
<1> HIDE DEF Fits
<1>9. \A to, told : m = [to |-> to, told |-> told] => m.to = to /\ m.told = told
      OBVIOUS
<1>10. Fits(m.to, m.told)
      BY <1>4, <1>5, <1>6, <1>7, <1>8, <1>9, Zenon
<1> QED BY <1>10 DEF Fits, up, down

\* What may become of the camera: it is told of, unless it was on before.
LEMMA CamerasSay ==
    ASSUME DeviceTypes, NEW on \in BOOLEAN, NEW publishing \in BOOLEAN,
           NEW c \in Cameras(on, publishing)
    PROVE  LET says(what) == ~Lacks(c.told, Report("Camera", what))
           IN /\ \A i \in 1..Len(c.told) : c.told[i].kind = "Camera"
              /\ says("On") => c.to /\ publishing
              /\ c.to => on /\ (capture \/ (says("On") /\ publishing))
              /\ on => \/ says("Failed")
                       \/ c.to /\ (capture \/ says("On"))
                       \/ ~c.to /\ ~capture /\ ~publishing
<1> DEFINE up == Report("Camera", "On")
           down == Report("Camera", "Failed")
           Fits(to, told) ==
               /\ \A i \in 1..Len(told) : told[i].kind = "Camera"
               /\ ~Lacks(told, up) => to /\ publishing
               /\ to => on /\ (capture \/ (~Lacks(told, up) /\ publishing))
               /\ on => \/ ~Lacks(told, down)
                        \/ to /\ (capture \/ ~Lacks(told, up))
                        \/ ~to /\ ~capture /\ ~publishing
<1>1. up # down /\ up.kind = "Camera" /\ down.kind = "Camera"
      BY DEF Report
<1> HIDE DEF up, down
<1>2. /\ \A x : Lacks(<<>>, x)
      /\ ~Lacks(<<up>>, up) /\ Lacks(<<down>>, up) /\ ~Lacks(<<down>>, down)
      BY <1>1, LacksFew
<1>3. /\ \A i \in 1..Len(<<>>) : <<>>[i].kind = "Camera"
      /\ \A i \in 1..Len(<<up>>) : <<up>>[i].kind = "Camera"
      /\ \A i \in 1..Len(<<down>>) : <<down>>[i].kind = "Camera"
      BY <1>1
<1>4. ~on \/ (~capture /\ ~publishing) => Fits(FALSE, <<>>)
      BY <1>2, <1>3
<1>5. on /\ capture => Fits(TRUE, <<>>)
      BY <1>2, <1>3
<1>6. on /\ publishing => Fits(TRUE, <<up>>)
      BY <1>2, <1>3
<1>7. Fits(FALSE, <<down>>)
      BY <1>2, <1>3
<1>8. \/ (~on \/ (~capture /\ ~publishing)) /\ c = [to |-> FALSE, told |-> <<>>]
      \/ (on /\ capture) /\ c = [to |-> TRUE, told |-> <<>>]
      \/ (on /\ publishing) /\ c = [to |-> TRUE, told |-> <<up>>]
      \/ c = [to |-> FALSE, told |-> <<down>>]
      BY DEF Cameras, up, down
<1> HIDE DEF Fits
<1>9. \A to, told : c = [to |-> to, told |-> told] => c.to = to /\ c.told = told
      OBVIOUS
<1>10. Fits(c.to, c.told)
      BY <1>4, <1>5, <1>6, <1>7, <1>8, <1>9, Zenon
<1> QED BY <1>10 DEF Fits, up, down

\* Queues that stay, and queues that get one more.
LEMMA QueuesOfOne ==
    ASSUME BetweenTypes
    PROVE  /\ commands' = commands => OrdersOf({})
           /\ events' = events => ReportsOf({})
           /\ \A c \in Commands : commands' = Append(commands, c) => OrdersOf({c.kind})
           /\ \A e \in Events : call = "in" /\ Tell(<<e>>) => ReportsOf({e.kind})
<1>1. commands \in Seq(Commands) /\ events \in Seq(Events)
      BY DEF BetweenTypes
<1>2. commands = commands \o <<>> /\ events = events \o <<>>
      BY <1>1, ConcatEmptySeq
<1>3. /\ <<>> \in Seq(Commands) /\ <<>> \in Seq(Events)
      /\ \A i \in 1..Len(<<>>) : <<>>[i].kind \in {}
      OBVIOUS
<1>4. commands' = commands => OrdersOf({})
  <2> DEFINE r == <<>>
  <2> SUFFICES ASSUME commands' = commands PROVE OrdersOf({})
      OBVIOUS
  <2>1. r \in Seq(Commands) /\ commands' = commands \o r /\ \A i \in 1..Len(r) : r[i].kind \in {}
        BY <1>2, <1>3
  <2> HIDE DEF r
  <2> QED BY <2>1 DEF OrdersOf
<1>5. events' = events => ReportsOf({})
  <2> DEFINE r == <<>>
  <2> SUFFICES ASSUME events' = events PROVE ReportsOf({})
      OBVIOUS
  <2>1. r \in Seq(Events) /\ events' = events \o r /\ \A i \in 1..Len(r) : r[i].kind \in {}
        BY <1>2, <1>3
  <2> HIDE DEF r
  <2> QED BY <2>1 DEF ReportsOf
<1>6. ASSUME NEW c \in Commands, commands' = Append(commands, c) PROVE OrdersOf({c.kind})
  <2> DEFINE r == <<c>>
  <2>1. r \in Seq(Commands) /\ \A i \in 1..Len(r) : r[i] = c
        OBVIOUS
  <2>2. commands' = commands \o r
        BY <1>1, <1>6, AppendIsConcat
  <2> HIDE DEF r
  <2>3. \A i \in 1..Len(r) : r[i].kind \in {c.kind}
        BY <2>1
  <2> QED BY <2>1, <2>2, <2>3 DEF OrdersOf
<1>7. ASSUME NEW e \in Events, call = "in", Tell(<<e>>) PROVE ReportsOf({e.kind})
  <2> DEFINE r == <<e>>
  <2>1. r \in Seq(Events) /\ \A i \in 1..Len(r) : r[i] = e
        OBVIOUS
  <2>2. events' = events \o r
        BY <1>7 DEF Tell
  <2> HIDE DEF r
  <2>3. \A i \in 1..Len(r) : r[i].kind \in {e.kind}
        BY <2>1
  <2> QED BY <2>1, <2>2, <2>3 DEF ReportsOf
<1> QED BY <1>4, <1>5, <1>6, <1>7

\* Queues of which a kind is known are queues of more kinds.
LEMMA QueuesOfMore ==
    ASSUME NEW kinds, NEW more, kinds \subseteq more
    PROVE  (OrdersOf(kinds) => OrdersOf(more)) /\ (ReportsOf(kinds) => ReportsOf(more))
BY DEF OrdersOf, ReportsOf

\* What the user orders is an order of its kind, and nothing is reported.
LEMMA QueuesOfUser ==
    ASSUME TypeOK, call = "in", call' = "in"
    PROVE  /\ \A on \in BOOLEAN :
                 /\ SetMicrophone(on) => OrdersOf({"Microphone"}) /\ ReportsOf({})
                 /\ SetCamera(on) => OrdersOf({"Camera"}) /\ ReportsOf({})
                 /\ SetScreenShare(on) => OrdersOf({"ScreenShare"}) /\ ReportsOf({})
           /\ ChangeScreenShare => OrdersOf({"ScreenShare"}) /\ ReportsOf({})
           /\ ~LeaveCall
           /\ \A members \in SUBSET Others :
                 MembersChanged(members) => OrdersOf({"Disconnect"}) /\ ReportsOf({})
<1>0. BetweenTypes
      BY TypesOfTypeOK
<1>1. ASSUME NEW on \in BOOLEAN
      PROVE  /\ SetMicrophone(on) => OrdersOf({"Microphone"}) /\ ReportsOf({})
             /\ SetCamera(on) => OrdersOf({"Camera"}) /\ ReportsOf({})
             /\ SetScreenShare(on) => OrdersOf({"ScreenShare"}) /\ ReportsOf({})
  <2>1. ASSUME NEW kind \in {"Microphone", "Camera", "ScreenShare"},
               commands' = Append(commands, Order(kind, on))
        PROVE  OrdersOf({kind})
    <3>1. Order(kind, on) \in Commands /\ Order(kind, on).kind = kind
          BY OrdersAreCommands DEF Order
    <3> QED BY <1>0, <2>1, <3>1, QueuesOfOne
  <2>2. events' = events => ReportsOf({})
        BY <1>0, QueuesOfOne
  <2> QED BY <2>1, <2>2 DEF SetMicrophone, SetCamera, SetScreenShare, UserOrders
<1>2. ASSUME ChangeScreenShare PROVE OrdersOf({"ScreenShare"}) /\ ReportsOf({})
  <2> DEFINE r == <<Order("ScreenShare", FALSE), Order("ScreenShare", TRUE)>>
  <2>1. r \in Seq(Commands) /\ Len(r) = 2 /\ r[1] = Order("ScreenShare", FALSE)
        /\ r[2] = Order("ScreenShare", TRUE)
    <3>1. \A c, d \in Commands : <<c, d>> \in Seq(Commands)
          OBVIOUS
    <3> QED BY <3>1, OrdersAreCommands
  <2>2. commands' = commands \o r /\ events' = events
        BY <1>2 DEF ChangeScreenShare, UserOrders
  <2> HIDE DEF r
  <2>3. \A i \in 1..Len(r) : r[i].kind \in {"ScreenShare"}
        BY <2>1 DEF Order
  <2> QED BY <1>0, <2>1, <2>2, <2>3, QueuesOfOne DEF OrdersOf
<1>3. ~LeaveCall
      BY DEF LeaveCall, EndCall
<1>4. ASSUME NEW members \in SUBSET Others, MembersChanged(members)
      PROVE  OrdersOf({"Disconnect"}) /\ ReportsOf({})
  <2> DEFINE cut == Cuts(Dropped(members))
             again == Cuts(Retried(members))
  <2>1. Dropped(members) \in SUBSET Servers /\ Retried(members) \in SUBSET Servers
        BY DEF Dropped, Retried, Targets, Servers
  <2>2. commands' = (commands \o cut) \o again
        BY <1>4 DEF MembersChanged, Replan, Cuts
  <2>3. /\ cut \in Seq(Commands) /\ \A i \in 1..Len(cut) : cut[i].kind = "Disconnect"
        /\ again \in Seq(Commands) /\ \A i \in 1..Len(again) : again[i].kind = "Disconnect"
        BY <2>1, CutsFacts
  <2> HIDE DEF cut, again
  <2>4. commands' = commands \o (cut \o again) /\ cut \o again \in Seq(Commands)
        BY <1>0, <2>2, <2>3, ConcatProperties, ConcatAssociative DEF BetweenTypes
  <2>5. \A i \in 1..Len(cut \o again) : (cut \o again)[i].kind \in {"Disconnect"}
    <3>1. /\ Len(cut) \in Nat /\ Len(again) \in Nat /\ Len(cut \o again) = Len(cut) + Len(again)
          /\ \A i \in 1..(Len(cut) + Len(again)) :
                 (cut \o again)[i] = IF i <= Len(cut) THEN cut[i] ELSE again[i - Len(cut)]
          BY <2>3, ConcatProperties, LenProperties
    <3> SUFFICES ASSUME NEW i \in 1..Len(cut \o again)
                 PROVE  (cut \o again)[i].kind = "Disconnect"
        OBVIOUS
    <3>2. CASE i <= Len(cut)
      <4>1. i \in 1..Len(cut) /\ (cut \o again)[i] = cut[i]
            BY <3>1, <3>2
      <4> QED BY <2>3, <4>1
    <3>3. CASE i > Len(cut)
      <4>1. i - Len(cut) \in 1..Len(again) /\ (cut \o again)[i] = again[i - Len(cut)]
            BY <3>1, <3>3
      <4> QED BY <2>3, <4>1
    <3> QED BY <3>1, <3>2, <3>3
  <2>6. events' = events
        BY <1>4 DEF MembersChanged
  <2> QED BY <1>0, <2>4, <2>5, <2>6, QueuesOfOne DEF OrdersOf
<1> QED BY <1>1, <1>2, <1>3, <1>4

\* What the app orders on its own, and the report that it reads.
LEMMA QueuesOfApp ==
    ASSUME TypeOK, call = "in", call' = "in"
    PROVE  /\ \A s \in Servers :
                 /\ Granted(s) => OrdersOf({"Connect"}) /\ ReportsOf({})
                 /\ GrantRefused(s) => OrdersOf({}) /\ ReportsOf({}) /\ UNCHANGED shown
           /\ SfuReported => OrdersOf({}) /\ ReportsOf({"Sfu"}) /\ UNCHANGED shown
           /\ MicrophoneReported => OrdersOf({}) /\ ReportsOf({"Microphone"})
           /\ CameraReported => OrdersOf({"Camera"}) /\ ReportsOf({"Camera"})
           /\ ScreenReported => OrdersOf({}) /\ ReportsOf({"Screen"})
<1>0. BetweenTypes
      BY TypesOfTypeOK
<1>1. /\ commands' = commands => OrdersOf({})
      /\ events' = events => ReportsOf({})
      BY <1>0, QueuesOfOne
<1>2. ASSUME NEW s \in Servers, Granted(s) PROVE OrdersOf({"Connect"}) /\ ReportsOf({})
  <2>1. commands' = commands \/ commands' = Append(commands, Order("Connect", s))
        BY <1>2 DEF Granted, ConnectGranted
  <2>2. Order("Connect", s) \in Commands /\ Order("Connect", s).kind = "Connect"
        BY OrdersAreCommands DEF Order
  <2>3. OrdersOf({}) => OrdersOf({"Connect"})
        BY QueuesOfMore
  <2>4. commands' = Append(commands, Order("Connect", s)) => OrdersOf({"Connect"})
        BY <1>0, <2>2, QueuesOfOne
  <2>5. events' = events
        BY <1>2 DEF Granted
  <2> QED BY <1>1, <2>1, <2>3, <2>4, <2>5
<1>3. ASSUME NEW s \in Servers, GrantRefused(s)
      PROVE  OrdersOf({}) /\ ReportsOf({}) /\ UNCHANGED shown
  <2>1. s # Own
        BY <1>3 DEF GrantRefused, EndCall
  <2> QED BY <1>1, <1>3, <2>1 DEF GrantRefused
<1>4. ASSUME NEW kind, Reported(kind), HandlesReport PROVE ReportsOf({kind})
      BY <1>4 DEF Reported, HandlesReport, ReportsOf
<1>5. ASSUME SfuReported PROVE OrdersOf({}) /\ ReportsOf({"Sfu"}) /\ UNCHANGED shown
  <2>1. ~EndCall
        BY DEF EndCall
  <2>2. Reported("Sfu") /\ HandlesReport /\ UNCHANGED <<shown, commands>>
        BY <1>5, <2>1 DEF SfuReported
  <2> QED BY <1>1, <1>4, <2>2
<1>6. ASSUME MicrophoneReported PROVE OrdersOf({}) /\ ReportsOf({"Microphone"})
      BY <1>1, <1>4, <1>6 DEF MicrophoneReported
<1>7. ASSUME CameraReported PROVE OrdersOf({"Camera"}) /\ ReportsOf({"Camera"})
  <2>1. commands' = commands \/ commands' = Append(commands, Order("Camera", FALSE))
        BY <1>7 DEF CameraReported, CameraGivesUp
  <2>2. Order("Camera", FALSE) \in Commands /\ Order("Camera", FALSE).kind = "Camera"
        BY OrdersAreCommands DEF Order
  <2>3. OrdersOf({}) => OrdersOf({"Camera"})
        BY QueuesOfMore
  <2>4. commands' = Append(commands, Order("Camera", FALSE)) => OrdersOf({"Camera"})
        BY <1>0, <2>2, QueuesOfOne
  <2> QED BY <1>1, <1>4, <1>7, <2>1, <2>3, <2>4 DEF CameraReported
<1>8. ASSUME ScreenReported PROVE OrdersOf({}) /\ ReportsOf({"Screen"})
      BY <1>1, <1>4, <1>8 DEF ScreenReported
<1> QED BY <1>2, <1>3, <1>5, <1>6, <1>7, <1>8

\* What the session takes from its orders, and what it reports.
LEMMA QueuesOfSession ==
    ASSUME TypeOK, call = "in", call' = "in"
    PROVE  /\ Open => OrdersOf({}) /\ ReportsOf({})
           /\ ~OpenFails /\ ~Close
           /\ Connect => OrdersOf({"Connect"}) /\ ReportsOf({"Sfu"})
           /\ Disconnect => OrdersOf({"Disconnect"}) /\ ReportsOf({"Sfu"})
           /\ SwitchMicrophone => OrdersOf({"Microphone"}) /\ ReportsOf({"Microphone"})
           /\ SwitchCamera => OrdersOf({"Camera"}) /\ ReportsOf({"Camera"})
           /\ SwitchScreen => OrdersOf({"ScreenShare"}) /\ ReportsOf({"Screen"})
           /\ \A s \in Servers :
                 /\ Adopt(s) =>
                       /\ OrdersOf({}) /\ ReportsOf({"Microphone", "Camera"})
                       /\ s # Own => ReportsOf({}) /\ track' = track /\ capture' = capture
                 /\ DialFails(s) => OrdersOf({}) /\ ReportsOf({"Sfu"})
<1>0. BetweenTypes /\ DeviceTypes /\ SessionTypes
      BY TypesOfTypeOK
<1>1. /\ commands' = commands => OrdersOf({})
      /\ events' = events => ReportsOf({})
      BY <1>0, QueuesOfOne
<1>2. Open => OrdersOf({}) /\ ReportsOf({})
      BY <1>1 DEF Open
<1>3. ~OpenFails /\ ~Close
      BY DEF OpenFails, Close, EndCall
<1>4. ASSUME NEW kind, Ordered(kind), Applies PROVE OrdersOf({kind})
      BY <1>4 DEF Ordered, Applies, OrdersOf
<1>5. ASSUME NEW s \in Servers, NEW state \in SfuStates, Tell(<<SfuReport(s, state)>>)
      PROVE  ReportsOf({"Sfu"})
  <2>1. SfuReport(s, state) \in Events /\ SfuReport(s, state).kind = "Sfu"
        BY ReportsAreEvents DEF SfuReport
  <2> QED BY <1>0, <1>5, <2>1, QueuesOfOne
<1>6. ReportsOf({}) => ReportsOf({"Sfu"}) /\ ReportsOf({"Screen"})
      BY QueuesOfMore
<1>7. "Connecting" \in SfuStates /\ "Disconnected" \in SfuStates
      BY DEF SfuStates
<1>8. ASSUME Connect PROVE OrdersOf({"Connect"}) /\ ReportsOf({"Sfu"})
  <2>1. Ordered("Connect") /\ Applies /\ Wanted \in Servers
        BY <1>0, <1>8, OrderTypes DEF Connect
  <2>2. events' = events \/ Tell(<<SfuReport(Wanted, "Connecting")>>)
        BY <1>8 DEF Connect
  <2> QED BY <1>1, <1>4, <1>5, <1>6, <1>7, <2>1, <2>2
<1>9. ASSUME Disconnect PROVE OrdersOf({"Disconnect"}) /\ ReportsOf({"Sfu"})
  <2>1. Ordered("Disconnect") /\ Applies /\ Wanted \in Servers
        BY <1>0, <1>9, OrderTypes DEF Disconnect
  <2>2. events' = events \/ Tell(<<SfuReport(Wanted, "Disconnected")>>)
        BY <1>9 DEF Disconnect
  <2> QED BY <1>1, <1>4, <1>5, <1>6, <1>7, <2>1, <2>2
<1>10. ASSUME NEW r \in Seq(Events), Tell(r), NEW kinds, \A i \in 1..Len(r) : r[i].kind \in kinds
       PROVE  ReportsOf(kinds)
      BY <1>10 DEF ReportsOf, Tell
<1>11. Publishing \in BOOLEAN
      BY DEF Publishing
<1>12. ASSUME SwitchMicrophone PROVE OrdersOf({"Microphone"}) /\ ReportsOf({"Microphone"})
  <2>1. Ordered("Microphone") /\ Applies /\ Wanted \in BOOLEAN
        BY <1>0, <1>12, OrderTypes DEF SwitchMicrophone
  <2>2. PICK m \in Microphones(Wanted, Publishing) : Tell(m.told)
        BY <1>12 DEF SwitchMicrophone
  <2>3. m.told \in Seq(Events) /\ \A i \in 1..Len(m.told) : m.told[i].kind = "Microphone"
        BY <1>0, <1>11, <2>1, MicrophonesTypes, MicrophonesSay
  <2>4. \A i \in 1..Len(m.told) : m.told[i].kind \in {"Microphone"}
        BY <2>3
  <2> QED BY <1>4, <1>10, <2>1, <2>2, <2>3, <2>4
<1>13. ASSUME SwitchCamera PROVE OrdersOf({"Camera"}) /\ ReportsOf({"Camera"})
  <2>1. Ordered("Camera") /\ Applies /\ Wanted \in BOOLEAN
        BY <1>0, <1>13, OrderTypes DEF SwitchCamera
  <2>2. PICK c \in Cameras(Wanted, Publishing) : Tell(c.told)
        BY <1>13 DEF SwitchCamera
  <2>3. c.told \in Seq(Events) /\ \A i \in 1..Len(c.told) : c.told[i].kind = "Camera"
        BY <1>0, <1>11, <2>1, CamerasTypes, CamerasSay
  <2>4. \A i \in 1..Len(c.told) : c.told[i].kind \in {"Camera"}
        BY <2>3
  <2> QED BY <1>4, <1>10, <2>1, <2>2, <2>3, <2>4
<1>14. ASSUME SwitchScreen PROVE OrdersOf({"ScreenShare"}) /\ ReportsOf({"Screen"})
  <2>1. Ordered("ScreenShare") /\ Applies
        BY <1>14 DEF SwitchScreen
  <2>2. ASSUME NEW words \in LastWords,
               Tell([i \in DOMAIN words |-> Report("Screen", words[i])])
        PROVE  ReportsOf({"Screen"})
    <3> DEFINE r == [i \in DOMAIN words |-> Report("Screen", words[i])]
    <3>1. r \in Seq(Events)
          BY <1>0, LastWordsTypes
    <3>2. \A i \in DOMAIN r : r[i].kind \in {"Screen"}
          BY DEF Report
    <3>3. Tell(r)
          BY <2>2
    <3> HIDE DEF r
    <3>4. \A i \in 1..Len(r) : r[i].kind \in {"Screen"}
          BY <3>1, <3>2, LenProperties
    <3> QED BY <1>10, <3>1, <3>3, <3>4
  <2>3. Tell(<<Report("Screen", "Failed")>>) => ReportsOf({"Screen"})
    <3>1. Report("Screen", "Failed") \in Events /\ Report("Screen", "Failed").kind = "Screen"
          BY ReportsAreEvents DEF Report
    <3> QED BY <1>0, <3>1, QueuesOfOne
  <2> QED BY <1>1, <1>4, <1>6, <1>14, <2>1, <2>2, <2>3 DEF SwitchScreen
<1>15. ASSUME NEW s \in Servers, Adopt(s)
       PROVE  OrdersOf({}) /\ ReportsOf({"Microphone", "Camera"})
              /\ (s # Own => ReportsOf({}) /\ track' = track /\ capture' = capture)
  <2>1. PICK m \in IF s = Own /\ wants.microphone THEN Microphones(TRUE, TRUE)
                   ELSE {[to |-> track, told |-> <<>>]},
             c \in IF s = Own /\ wants.camera THEN Cameras(TRUE, TRUE)
                   ELSE {[to |-> capture, told |-> <<>>]} :
                track' = m.to /\ capture' = c.to /\ Tell(m.told \o c.told)
        BY <1>15 DEF Adopt
  <2>2. <<>> \in Seq(Events) /\ \A i \in 1..Len(<<>>) : <<>>[i].kind \in {}
        OBVIOUS
  <2>3. m.told \in Seq(Events) /\ \A i \in 1..Len(m.told) : m.told[i].kind = "Microphone"
    <3>1. CASE s = Own /\ wants.microphone
          BY <1>0, <3>1, MicrophonesTypes, MicrophonesSay
    <3>2. CASE ~(s = Own /\ wants.microphone)
      <4>1. m = [to |-> track, told |-> <<>>]
            BY <3>2
      <4>2. m.told = <<>>
            BY <4>1
      <4> QED BY <2>2, <4>2
    <3> QED BY <3>1, <3>2
  <2>4. c.told \in Seq(Events) /\ \A i \in 1..Len(c.told) : c.told[i].kind = "Camera"
    <3>1. CASE s = Own /\ wants.camera
          BY <1>0, <3>1, CamerasTypes, CamerasSay
    <3>2. CASE ~(s = Own /\ wants.camera)
      <4>1. c = [to |-> capture, told |-> <<>>]
            BY <3>2
      <4>2. c.told = <<>>
            BY <4>1
      <4> QED BY <2>2, <4>2
    <3> QED BY <3>1, <3>2
  <2>5. m.told \o c.told \in Seq(Events)
        BY <2>3, <2>4, ConcatProperties
  <2>6. \A i \in 1..Len(m.told \o c.told) : (m.told \o c.told)[i].kind \in {"Microphone", "Camera"}
    <3> DEFINE a == m.told
               b == c.told
    <3> HIDE DEF a, b
    <3>1. a \in Seq(Events) /\ b \in Seq(Events)
          /\ (\A i \in 1..Len(a) : a[i].kind = "Microphone")
          /\ \A i \in 1..Len(b) : b[i].kind = "Camera"
          BY <2>3, <2>4 DEF a, b
    <3>2. /\ Len(a) \in Nat /\ Len(b) \in Nat /\ Len(a \o b) = Len(a) + Len(b)
          /\ \A i \in 1..(Len(a) + Len(b)) :
                 (a \o b)[i] = IF i <= Len(a) THEN a[i] ELSE b[i - Len(a)]
          BY <3>1, ConcatProperties, LenProperties
    <3>3. ASSUME NEW i \in 1..Len(a \o b)
          PROVE  (a \o b)[i].kind \in {"Microphone", "Camera"}
      <4>1. CASE i <= Len(a)
        <5>1. i \in 1..Len(a) /\ (a \o b)[i] = a[i]
              BY <3>2, <4>1
        <5> QED BY <3>1, <5>1
      <4>2. CASE i > Len(a)
        <5>1. i - Len(a) \in 1..Len(b) /\ (a \o b)[i] = b[i - Len(a)]
              BY <3>2, <4>2
        <5> QED BY <3>1, <5>1
      <4> QED BY <3>2, <4>1, <4>2
    <3> QED BY <3>3 DEF a, b
  <2>7. ReportsOf({"Microphone", "Camera"})
        BY <1>10, <2>1, <2>5, <2>6
  <2>8. ASSUME s # Own PROVE ReportsOf({}) /\ track' = track /\ capture' = capture
    <3>1. m = [to |-> track, told |-> <<>>] /\ c = [to |-> capture, told |-> <<>>]
          BY <2>8
    <3>2. m.told \o c.told = <<>> /\ m.to = track /\ c.to = capture
          BY <3>1
    <3>3. events' = events
          BY <1>0, <2>1, <3>2, ConcatEmptySeq DEF Tell, BetweenTypes
    <3> QED BY <1>1, <2>1, <3>2, <3>3
  <2> QED BY <1>1, <1>15, <2>7, <2>8 DEF Adopt
<1>16. ASSUME NEW s \in Servers, DialFails(s) PROVE OrdersOf({}) /\ ReportsOf({"Sfu"})
      BY <1>1, <1>5, <1>7, <1>16 DEF DialFails
<1> QED BY <1>2, <1>3, <1>8, <1>9, <1>12, <1>13, <1>14, <1>15, <1>16

\* What the surroundings of the session make it report.
LEMMA QueuesOfSurroundings ==
    ASSUME TypeOK, call = "in"
    PROVE  /\ \A s \in Servers : PumpStarts(s) \/ Reconnects(s) \/ Wavers(s) \/ CutOff(s)
                 => OrdersOf({}) /\ ReportsOf({"Sfu"})
           /\ MicrophoneLost => OrdersOf({}) /\ ReportsOf({"Microphone"})
           /\ MicrophoneReturns => OrdersOf({}) /\ ReportsOf({})
           /\ CameraLost => OrdersOf({}) /\ ReportsOf({"Camera"})
           /\ ShareStarts \/ ShareFails \/ ShareEnds \/ SharingRefused
                 => OrdersOf({}) /\ ReportsOf({"Screen"})
<1>0. BetweenTypes
      BY TypesOfTypeOK
<1>1. /\ commands' = commands => OrdersOf({})
      /\ events' = events => ReportsOf({})
      BY <1>0, QueuesOfOne
<1>2. ASSUME NEW s \in Servers, PumpStarts(s) \/ Reconnects(s) \/ Wavers(s) \/ CutOff(s)
      PROVE  OrdersOf({}) /\ ReportsOf({"Sfu"})
  <2>1. PICK state \in {"Connected", "Reconnecting", "Disconnected"} :
            Tell(<<SfuReport(s, state)>>)
        BY <1>2 DEF PumpStarts, Reconnects, Wavers, CutOff, Pump
  <2>2. SfuReport(s, state) \in Events /\ SfuReport(s, state).kind = "Sfu"
        BY ReportsAreEvents DEF SfuReport, SfuStates
  <2>3. ReportsOf({"Sfu"})
        BY <1>0, <2>1, <2>2, QueuesOfOne
  <2>4. commands' = commands
        BY <1>2 DEF PumpStarts, Reconnects, Wavers, CutOff, Pump
  <2> QED BY <1>1, <2>3, <2>4
<1>3. ASSUME NEW kind \in {"Microphone", "Camera", "Screen"},
             NEW what, Report(kind, what) \in Events, Tell(<<Report(kind, what)>>)
      PROVE  ReportsOf({kind})
  <2>1. Report(kind, what).kind = kind
        BY DEF Report
  <2> QED BY <1>0, <1>3, <2>1, QueuesOfOne
<1>4. /\ Report("Microphone", "Failed") \in Events /\ Report("Camera", "Failed") \in Events
      /\ \A told \in {"On", "Off", "Failed", "Unavailable"} : Report("Screen", told) \in Events
      BY ReportsAreEvents
<1>5. MicrophoneLost => OrdersOf({}) /\ ReportsOf({"Microphone"})
      BY <1>1, <1>3, <1>4 DEF MicrophoneLost, OnItsOwn
<1>6. MicrophoneReturns => OrdersOf({}) /\ ReportsOf({})
      BY <1>1 DEF MicrophoneReturns, OnItsOwn
<1>7. CameraLost => OrdersOf({}) /\ ReportsOf({"Camera"})
      BY <1>1, <1>3, <1>4 DEF CameraLost, OnItsOwn
<1>8. ASSUME ShareStarts \/ ShareFails \/ ShareEnds \/ SharingRefused
      PROVE  OrdersOf({}) /\ ReportsOf({"Screen"})
  <2>1. PICK told \in {"On", "Off", "Failed", "Unavailable"} : Tell(<<Report("Screen", told)>>)
        BY <1>8 DEF ShareStarts, ShareFails, ShareEnds, ShareGoesOn, SharingRefused
  <2>2. commands' = commands
        BY <1>8
        DEF ShareStarts, ShareFails, ShareEnds, ShareGoesOn, SharingRefused, OnItsOwn
  <2> QED BY <1>1, <1>3, <1>4, <2>1, <2>2
<1> QED BY <1>2, <1>5, <1>6, <1>7, <1>8

\* A call that is joined after a step was joined before it.
LEMMA StillJoined ==
    ASSUME Next, call' = "in"
    PROVE  call = "in"
<1> SUFFICES ASSUME call # "in" PROVE FALSE
    OBVIOUS
<1>1. call' = call \/ EndCall
  <2>1. AppStep => call' = call \/ EndCall
        BY DEF AppStep, Granted, GrantRefused, SfuReported, MicrophoneReported,
               CameraReported, ScreenReported, HandlesReport
  <2>2. UserStep => call' = call \/ EndCall
        BY DEF UserStep, SetMicrophone, SetCamera, SetScreenShare, ChangeScreenShare,
               UserOrders, LeaveCall, MembersChanged
  <2>3. SessionStep => call' = call \/ EndCall
        BY DEF SessionStep, Open, OpenFails, Connect, Disconnect, SwitchMicrophone,
               SwitchCamera, SwitchScreen, Close, Adopt, DialFails, Applies, SessionMoves, app
  <2>4. Surroundings => call' = call \/ EndCall
        BY DEF Surroundings, PumpStarts, Reconnects, Wavers, CutOff, Pump, MicrophoneLost,
               MicrophoneReturns, CameraLost, ShareStarts, ShareFails, ShareEnds,
               ShareGoesOn, SharingRefused, OnItsOwn, app
  <2> QED BY <2>1, <2>2, <2>3, <2>4 DEF Next
<1> QED BY <1>1 DEF EndCall

\* A report that is told waits behind the others.
LEMMA OneTold ==
    ASSUME BetweenTypes, call = "in", NEW kind, NEW what,
           Report(kind, what) \in Events, Tell(<<Report(kind, what)>>)
    PROVE  /\ Waits(kind, what)'
           /\ \A any : Waits(kind, any)' <=> Waits(kind, any) \/ any = what
<1> DEFINE e == Report(kind, what)
<1>1. \A any : e = Report(kind, any) <=> any = what
      BY DEF Report
<1> HIDE DEF e
<1>2. <<e>> \in Seq(Events) /\ \A x : Lacks(<<e>>, x) <=> e # x
      BY LacksFew DEF e
<1>3. Tell(<<e>>)
      BY DEF e
<1>4. \A any : Waits(kind, any)' <=> Waits(kind, any) \/ ~Lacks(<<e>>, Report(kind, any))
      BY <1>2, <1>3, WaitsBehind
<1> QED BY <1>1, <1>2, <1>4

-----------------------------------------------------------------------------
(* What is shown is so: the screen share *)

\* While the screen share is shown on, or to begin: its end is on its way to the
\* app, an order to begin is on its way to the session, or there is one.
ScreenInv ==
    call = "in" /\ screen \in Choosing \cup {"On"} =>
        \/ \E end \in {"Off", "Failed", "Unavailable"} : Waits("Screen", end)
        \/ ComesLast("ScreenShare")
        \/ NotOff("ScreenShare") /\ share # "none"

\* A step that takes nothing away from what the screen share is shown for.
LEMMA ScreenAsItWas ==
    ASSUME ScreenInv, call = "in",
           screen' \in Choosing \cup {"On"} => screen \in Choosing \cup {"On"},
           share # "none" => share' # "none",
           \A what : Waits("Screen", what) => Waits("Screen", what)',
           ComesLast("ScreenShare") => ComesLast("ScreenShare")',
           NotOff("ScreenShare") => NotOff("ScreenShare")'
    PROVE  ScreenInv'
<1> SUFFICES ASSUME screen' \in Choosing \cup {"On"}
             PROVE  \/ \E end \in {"Off", "Failed", "Unavailable"} : Waits("Screen", end)'
                    \/ ComesLast("ScreenShare")'
                    \/ NotOff("ScreenShare")' /\ share' # "none"
    BY DEF ScreenInv
<1> QED BY DEF ScreenInv

\* The same of a step that concerns no order and no report of the screen share.
LEMMA ScreenUntouched ==
    ASSUME BetweenTypes, ScreenInv, call = "in", UNCHANGED screen,
           share # "none" => share' # "none",
           NEW orders, OrdersOf(orders), "ScreenShare" \notin orders,
           NEW reports, ReportsOf(reports), "Screen" \notin reports
    PROVE  ScreenInv'
<1>1. \A what : Waits("Screen", what)' <=> Waits("Screen", what)
      BY ReportsStay
<1>2. NotOff("ScreenShare")' <=> NotOff("ScreenShare")
      BY OrdersStay DEF NotOff
<1>3. ComesLast("ScreenShare") => ComesLast("ScreenShare")'
      BY OrdersStay
<1> QED BY <1>1, <1>2, <1>3, ScreenAsItWas

\* ScreenInv is kept by every step: a dialog or a share that ends says so
\* behind all that it said before, and an order that comes too late begins anew.
LEMMA ScreenStep ==
    ASSUME TypeOK, ScreenInv, Next
    PROVE  ScreenInv'
<1>0. BetweenTypes /\ ShownTypes /\ DeviceTypes
      BY TypesOfTypeOK
<1> SUFFICES ASSUME call' = "in" PROVE ScreenInv'
    BY DEF ScreenInv
<1>1. call = "in"
      BY StillJoined
<1> USE <1>1
<1> USE DEF app, shown, own, sfus
<1>2. ASSUME NEW orders \in {{}, {"Microphone"}, {"Camera"}, {"Connect"}, {"Disconnect"}},
             OrdersOf(orders), UNCHANGED screen, share # "none" => share' # "none",
             NEW reports \in {{}, {"Microphone"}, {"Camera"}, {"Sfu"}, {"Microphone", "Camera"}},
             ReportsOf(reports)
      PROVE  ScreenInv'
      BY <1>0, <1>2, ScreenUntouched
\* The user
<1>3. ASSUME NEW on \in BOOLEAN, SetMicrophone(on) \/ SetCamera(on) PROVE ScreenInv'
  <2>1. UNCHANGED <<screen, share>>
        BY <1>3 DEF SetMicrophone, SetCamera, UserOrders
  <2> QED BY <1>2, <1>3, <2>1, QueuesOfUser
<1>4. ASSUME NEW on \in BOOLEAN, SetScreenShare(on) PROVE ScreenInv'
  <2>1. CASE on = TRUE
    <3>1. commands' = Append(commands, Order("ScreenShare", TRUE))
          BY <1>4, <2>1 DEF SetScreenShare
    <3>2. ComesLast("ScreenShare")'
          BY <1>0, <3>1, OrderBehind
    <3> QED BY <3>2 DEF ScreenInv
  <2>2. CASE on = FALSE
    <3>1. screen' = "Off"
          BY <1>4, <2>2 DEF SetScreenShare
    <3> QED BY <3>1 DEF ScreenInv, Choosing
  <2> QED BY <2>1, <2>2
<1>5. ASSUME ChangeScreenShare PROVE ScreenInv'
  <2> DEFINE off == Order("ScreenShare", FALSE)
             on == Order("ScreenShare", TRUE)
             r == <<off, on>>
  <2>1. on # off /\ on \in Commands /\ off \in Commands
        BY OrdersAreCommands DEF Order
  <2>2. commands' = commands \o r
        BY <1>5 DEF ChangeScreenShare
  <2> HIDE DEF on, off
  <2>3. r = Append(<<off>>, on) /\ <<off>> \in Seq(Commands)
        BY <2>1
  <2>4. commands \o <<off>> \in Seq(Commands) /\ commands \in Seq(Commands)
        BY <1>0, <2>3, ConcatProperties DEF BetweenTypes
  <2>5. commands' = (commands \o <<off>>) \o <<on>>
    <3>1. <<on>> \in Seq(Commands)
          BY <2>1
    <3>2. r = <<off>> \o <<on>>
          BY <2>1, <2>3, AppendIsConcat
    <3> QED BY <2>2, <2>3, <2>4, <3>1, <3>2, ConcatAssociative
  <2>6. commands' = Append(commands \o <<off>>, on)
        BY <2>1, <2>4, <2>5, AppendIsConcat
  <2>7. Ends(commands', on, off)
        BY <2>1, <2>4, <2>6, EndsBehindOne
  <2> QED BY <2>7 DEF ScreenInv, ComesLast, on, off
<1>6. ASSUME NEW members \in SUBSET Others, MembersChanged(members) PROVE ScreenInv'
  <2>1. UNCHANGED <<screen, share>>
        BY <1>6 DEF MembersChanged
  <2> QED BY <1>2, <1>6, <2>1, QueuesOfUser
\* The app
<1>7. ASSUME NEW s \in Servers, Granted(s) \/ GrantRefused(s) PROVE ScreenInv'
  <2>1. share' = share
        BY <1>7 DEF Granted, GrantRefused
  <2>2. screen' = screen
        BY <1>7, QueuesOfApp DEF Granted
  <2> QED BY <1>2, <1>7, <2>1, <2>2, QueuesOfApp
<1>8. CASE SfuReported \/ MicrophoneReported \/ CameraReported
  <2>1. share' = share
        BY <1>8 DEF SfuReported, MicrophoneReported, CameraReported, HandlesReport
  <2>2. screen' = screen
        BY <1>8, QueuesOfApp DEF MicrophoneReported, CameraReported
  <2> QED BY <1>2, <1>8, <2>1, <2>2, QueuesOfApp
<1>9. CASE ScreenReported
  <2>1. Reported("Screen") /\ events' = Tail(events) /\ screen' = ScreenAfter(Told)
        /\ UNCHANGED <<commands, share>>
        BY <1>9 DEF ScreenReported, HandlesReport
  <2>2. Told \in {"On", "Off", "Failed", "Unavailable"}
        BY <1>0, <2>1, ReportTypes
  <2>3. \A what : Waits("Screen", what) <=> Told = what \/ Waits("Screen", what)'
        BY <1>0, <2>1, WaitsAhead
  <2>4. CASE Told = "On"
    <3>1. screen' \in Choosing \cup {"On"} => screen \in Choosing \cup {"On"}
          BY <2>1, <2>4 DEF ScreenAfter
    <3>2. \A end \in {"Off", "Failed", "Unavailable"} :
              Waits("Screen", end) => Waits("Screen", end)'
          BY <2>3, <2>4
    <3>3. (ComesLast("ScreenShare") => ComesLast("ScreenShare")')
          /\ (NotOff("ScreenShare") => NotOff("ScreenShare")')
          BY <2>1 DEF ComesLast, NotOff
    <3> SUFFICES ASSUME screen' \in Choosing \cup {"On"}
                 PROVE  \/ \E end \in {"Off", "Failed", "Unavailable"} : Waits("Screen", end)'
                        \/ ComesLast("ScreenShare")'
                        \/ NotOff("ScreenShare")' /\ share' # "none"
        BY DEF ScreenInv
    <3> QED BY <2>1, <3>1, <3>2, <3>3 DEF ScreenInv
  <2>5. CASE Told # "On"
    <3>1. screen' \notin Choosing \cup {"On"}
          BY <1>0, <2>1, <2>2, <2>5 DEF ScreenAfter, Choosing
    <3> QED BY <3>1 DEF ScreenInv
  <2> QED BY <2>4, <2>5
\* The session
<1>10. CASE Open \/ Connect \/ Disconnect \/ SwitchMicrophone \/ SwitchCamera
  <2>1. UNCHANGED <<screen, share>>
        BY <1>10 DEF Open, Connect, Disconnect, SwitchMicrophone, SwitchCamera, Applies,
                     SessionMoves
  <2> QED BY <1>2, <1>10, <2>1, QueuesOfSession
<1>11. ASSUME NEW s \in Servers, Adopt(s) \/ DialFails(s) PROVE ScreenInv'
  <2>1. UNCHANGED <<screen, share>>
        BY <1>11 DEF Adopt, DialFails, SessionMoves
  <2> QED BY <1>2, <1>11, <2>1, QueuesOfSession
<1>12. CASE SwitchScreen
  <2>1. Ordered("ScreenShare") /\ Applies /\ screen' = screen
        BY <1>12 DEF SwitchScreen, Applies, SessionMoves
  <2>2. /\ Wanted \in BOOLEAN
        /\ ComesLast("ScreenShare") =>
               ComesLast("ScreenShare")' \/ (Wanted /\ NotOff("ScreenShare")')
        /\ NotOff("ScreenShare") <=> Wanted /\ NotOff("ScreenShare")'
        BY <1>0, <2>1, OrderAhead
  <2>3. \A what : Waits("Screen", what) => Waits("Screen", what)'
    <3>1. \E r \in Seq(Events) : events' = events \/ Tell(r)
      <4>1. \A words \in LastWords :
                [i \in DOMAIN words |-> Report("Screen", words[i])] \in Seq(Events)
            BY <1>0, LastWordsTypes
      <4>2. <<Report("Screen", "Failed")>> \in Seq(Events)
        <5>1. \A e \in Events : <<e>> \in Seq(Events)
              OBVIOUS
        <5> QED BY <5>1, ReportsAreEvents
      <4> QED BY <1>12, <4>1, <4>2 DEF SwitchScreen
    <3> QED BY <1>0, <3>1, WaitsBehind DEF Waits
  <2>4. Wanted => share' # "none" \/ Waits("Screen", "Failed")'
    <3>1. Tell(<<Report("Screen", "Failed")>>) => Waits("Screen", "Failed")'
          BY <1>0, OneTold, ReportsAreEvents
    <3> QED BY <1>12, <3>1 DEF SwitchScreen
  <2> SUFFICES ASSUME screen' \in Choosing \cup {"On"}
               PROVE  \/ \E end \in {"Off", "Failed", "Unavailable"} : Waits("Screen", end)'
                      \/ ComesLast("ScreenShare")'
                      \/ NotOff("ScreenShare")' /\ share' # "none"
      BY DEF ScreenInv
  <2>5. \/ \E end \in {"Off", "Failed", "Unavailable"} : Waits("Screen", end)'
        \/ ComesLast("ScreenShare")'
        \/ Wanted /\ NotOff("ScreenShare")'
        BY <2>1, <2>2, <2>3 DEF ScreenInv
  <2> QED BY <2>4, <2>5
\* The surroundings
<1>13. ASSUME NEW s \in Servers, PumpStarts(s) \/ Reconnects(s) \/ Wavers(s) \/ CutOff(s)
       PROVE  ScreenInv'
  <2>1. UNCHANGED <<screen, share>>
        BY <1>13 DEF PumpStarts, Reconnects, Wavers, CutOff, Pump
  <2> QED BY <1>2, <1>13, <2>1, QueuesOfSurroundings
<1>14. CASE MicrophoneLost \/ MicrophoneReturns \/ CameraLost
  <2>1. UNCHANGED <<screen, share>>
        BY <1>14 DEF MicrophoneLost, MicrophoneReturns, CameraLost, OnItsOwn
  <2> QED BY <1>2, <1>14, <2>1, QueuesOfSurroundings
<1>15. CASE ShareStarts \/ ShareFails \/ ShareEnds \/ SharingRefused
  <2>1. UNCHANGED <<screen, commands>>
        BY <1>15 DEF ShareStarts, ShareFails, ShareEnds, ShareGoesOn, SharingRefused, OnItsOwn
  <2>2. (share # "none" => share' # "none")
        \/ \E end \in {"Off", "Failed", "Unavailable"} : Tell(<<Report("Screen", end)>>)
        BY <1>15 DEF ShareStarts, ShareFails, ShareEnds, ShareGoesOn, SharingRefused
  <2>3. PICK told \in {"On", "Off", "Failed", "Unavailable"} : Tell(<<Report("Screen", told)>>)
        BY <1>15 DEF ShareStarts, ShareFails, ShareEnds, ShareGoesOn, SharingRefused
  <2>4. ASSUME NEW what \in {"On", "Off", "Failed", "Unavailable"}, Tell(<<Report("Screen", what)>>)
        PROVE  /\ Waits("Screen", what)'
               /\ \A any : Waits("Screen", any) => Waits("Screen", any)'
        BY <1>0, <2>4, OneTold, ReportsAreEvents
  <2>5. CASE share # "none" => share' # "none"
        BY <2>1, <2>3, <2>4, <2>5, ScreenAsItWas DEF ComesLast, NotOff
  <2>6. CASE \E end \in {"Off", "Failed", "Unavailable"} : Tell(<<Report("Screen", end)>>)
    <3>1. PICK end \in {"Off", "Failed", "Unavailable"} : Tell(<<Report("Screen", end)>>)
          BY <2>6
    <3>2. Waits("Screen", end)'
          BY <2>4, <3>1
    <3> QED BY <3>2 DEF ScreenInv
  <2> QED BY <2>2, <2>5, <2>6
<1>16. CASE AppStep
      BY <1>7, <1>8, <1>9, <1>16 DEF AppStep
<1>17. CASE UserStep
      BY <1>3, <1>4, <1>5, <1>6, <1>17, QueuesOfUser DEF UserStep
<1>18. CASE SessionStep
      BY <1>10, <1>11, <1>12, <1>18, QueuesOfSession DEF SessionStep
<1>19. CASE Surroundings
      BY <1>13, <1>14, <1>15, <1>19 DEF Surroundings
<1> QED BY <1>16, <1>17, <1>18, <1>19 DEF Next

-----------------------------------------------------------------------------
(* What is shown is so: the user's own server *)

\* What a call starts with: orders for the devices that are chosen, no other.
LEMMA InitOrders ==
    ASSUME Init
    PROVE  /\ \A s \in Servers, kind \in {"Connect", "Disconnect"} : Lacks(commands, Order(kind, s))
           /\ mic = "Starting" => ComesLast("Microphone")
           /\ camera = "Starting" => ComesLast("Camera")
           /\ NotOff("Camera")
<1> DEFINE first == Order("Microphone", mic = "Starting")
           one == <<first>>
           cameraOn == Order("Camera", TRUE)
<1>1. one \in Seq(Commands) /\ Len(one) = 1 /\ one[1] = first
  <2>1. \A c \in Commands : <<c>> \in Seq(Commands)
        OBVIOUS
  <2> QED BY <2>1, OrdersAreCommands
<1>2. /\ camera # "Starting" => commands = one
      /\ camera = "Starting" => commands = Append(one, cameraOn)
  <2>1. commands = one \o IF camera = "Starting" THEN <<cameraOn>> ELSE <<>>
        BY DEF Init
  <2>2. one \o <<>> = one
        BY <1>1, ConcatEmptySeq
  <2>3. one \o <<cameraOn>> = Append(one, cameraOn)
        BY <1>1, OrdersAreCommands, AppendIsConcat
  <2> QED BY <2>1, <2>2, <2>3
<1>3. /\ cameraOn \in Commands /\ cameraOn # Order("Microphone", FALSE)
      /\ cameraOn # Order("Camera", FALSE) /\ first # Order("Camera", FALSE)
      /\ \A s \in Servers, kind \in {"Connect", "Disconnect"} :
             first # Order(kind, s) /\ cameraOn # Order(kind, s)
      BY OrdersAreCommands DEF Order
<1>4. mic = "Starting" => first = Order("Microphone", TRUE) /\ first # Order("Microphone", FALSE)
      BY DEF Order
<1> HIDE DEF one, cameraOn, first
<1>5. ASSUME NEW x, first # x, cameraOn # x PROVE Lacks(commands, x)
  <2>1. Lacks(one, x)
        BY <1>1, <1>5, LacksOne
  <2>2. Lacks(Append(one, cameraOn), x)
        BY <1>1, <1>3, <1>5, <2>1, EndsBehindOne
  <2> QED BY <1>2, <2>1, <2>2
<1>6. ASSUME mic = "Starting" PROVE ComesLast("Microphone")
  <2> DEFINE on == Order("Microphone", TRUE)
             off == Order("Microphone", FALSE)
  <2>1. first = on /\ cameraOn # off
        BY <1>3, <1>4, <1>6
  <2> HIDE DEF on, off
  <2>2. Ends(one, on, off)
        BY <1>1, <2>1 DEF Ends
  <2>3. Ends(Append(one, cameraOn), on, off)
        BY <1>1, <1>3, <2>1, <2>2, EndsBehindOne
  <2>4. Ends(commands, on, off)
        BY <1>2, <2>2, <2>3
  <2> QED BY <2>4 DEF ComesLast, on, off
<1>7. ASSUME camera = "Starting" PROVE ComesLast("Camera")
  <2>1. Ends(Append(one, cameraOn), cameraOn, Order("Camera", FALSE))
        BY <1>1, <1>3, EndsBehindOne
  <2> QED BY <1>2, <1>7, <2>1 DEF ComesLast, cameraOn
<1> QED BY <1>3, <1>5, <1>6, <1>7 DEF NotOff

\* The orders to disconnect from servers are for these servers and no other.
LEMMA CutsOnly ==
    ASSUME NEW servers \in SUBSET Servers, NEW s, s \notin servers, NEW kind
    PROVE  Lacks(Cuts(servers), Order(kind, s))
<1>1. IsFiniteSet(servers)
  <2>1. IsFiniteSet(Servers)
        BY ServersAssumption, FS_AddElement, FS_EmptySet, FS_Union, FS_Singleton DEF Servers
  <2> QED BY <2>1, FS_Subset
<1>2. SetToSeq(servers) \in Seq(servers)
      BY <1>1, SetToSeqFacts
<1>3. Cuts(servers) \in Seq(Commands)
      BY CutsFacts
<1>4. DOMAIN SetToSeq(servers) = 1..Len(Cuts(servers))
  <2>1. DOMAIN Cuts(servers) = DOMAIN SetToSeq(servers)
        BY DEF Cuts
  <2> QED BY <1>3, <2>1, LenProperties
<1>5. ASSUME NEW i \in 1..Len(Cuts(servers)) PROVE Cuts(servers)[i] # Order(kind, s)
  <2>1. i \in DOMAIN SetToSeq(servers)
        BY <1>4
  <2>2. SetToSeq(servers)[i] \in servers
        BY <1>2, <2>1, LenProperties, ElementOfSeq
  <2>3. Cuts(servers)[i] = Order("Disconnect", SetToSeq(servers)[i])
        BY <2>1 DEF Cuts
  <2> QED BY <2>2, <2>3 DEF Order
<1> QED BY <1>5 DEF Lacks

\* A call keeps the link to the server that the user publishes to: it is never
\* dropped, and a call that loses it is over.
OwnInv ==
    call = "in" => /\ links[Own] \notin {"none", "Failed"}
                   /\ Lacks(commands, Order("Disconnect", Own))

\* What a call starts with.
LEMMA InitOwnInv == Init => OwnInv
<1> SUFFICES ASSUME Init PROVE OwnInv
    OBVIOUS
<1>1. Own \in Servers /\ Own \in Targets(used)
      BY DEF Servers, Targets
<1>2. links[Own] = "Asking"
      BY <1>1 DEF Init
<1> QED BY <1>1, <1>2, InitOrders DEF OwnInv

\* OwnInv is kept by every step.
LEMMA OwnStep ==
    ASSUME TypeOK, OwnInv, Next
    PROVE  OwnInv'
<1>0. BetweenTypes /\ AppTypes
      BY TypesOfTypeOK
<1> SUFFICES ASSUME call' = "in"
             PROVE  /\ links'[Own] \notin {"none", "Failed"}
                    /\ Lacks(commands', Order("Disconnect", Own))
    BY DEF OwnInv
<1>1. call = "in"
      BY StillJoined
<1>2. /\ links[Own] \notin {"none", "Failed"} /\ Lacks(commands, Order("Disconnect", Own))
      /\ Own \in Servers
      BY <1>1 DEF OwnInv, Servers
<1> USE <1>1
<1> USE DEF app, shown, own, sfus
<1>3. ASSUME NEW orders, "Disconnect" \notin orders, OrdersOf(orders)
      PROVE  Lacks(commands', Order("Disconnect", Own))
      BY <1>0, <1>2, <1>3, OrdersStay
<1>4. ASSUME commands # <<>>, commands' = Tail(commands)
      PROVE  Lacks(commands', Order("Disconnect", Own))
  <2>1. commands \in Seq(Commands)
        BY <1>0 DEF BetweenTypes
  <2> QED BY <1>2, <1>4, <2>1, LacksAhead
<1>5. ASSUME NEW orders \in {{}, {"Microphone"}, {"Camera"}, {"ScreenShare"}, {"Connect"}},
             OrdersOf(orders), links' = links
      PROVE  links'[Own] \notin {"none", "Failed"} /\ Lacks(commands', Order("Disconnect", Own))
      BY <1>2, <1>3, <1>5
<1>6. CASE UserStep
  <2>1. ASSUME NEW on \in BOOLEAN, SetMicrophone(on) \/ SetCamera(on) \/ SetScreenShare(on)
        PROVE  links'[Own] \notin {"none", "Failed"} /\ Lacks(commands', Order("Disconnect", Own))
    <3>1. links' = links
          BY <2>1 DEF SetMicrophone, SetCamera, SetScreenShare, UserOrders
    <3> QED BY <1>5, <2>1, <3>1, QueuesOfUser
  <2>2. CASE ChangeScreenShare
        BY <1>5, <2>2, QueuesOfUser DEF ChangeScreenShare, UserOrders
  <2>3. ASSUME NEW members \in SUBSET Others, MembersChanged(members)
        PROVE  links'[Own] \notin {"none", "Failed"} /\ Lacks(commands', Order("Disconnect", Own))
    <3> DEFINE cut == Cuts(Dropped(members))
               again == Cuts(Retried(members))
    <3>1. /\ Dropped(members) \in SUBSET Servers /\ Retried(members) \in SUBSET Servers
          /\ Own \notin Dropped(members) /\ Own \notin Retried(members)
          BY DEF Dropped, Retried, Targets, Servers, GaveUp
    <3>2. commands' = (commands \o cut) \o again
          BY <2>3 DEF MembersChanged, Replan, Cuts
    <3>3. cut \in Seq(Commands) /\ again \in Seq(Commands) /\ commands \in Seq(Commands)
          BY <1>0, <3>1, CutsFacts DEF BetweenTypes
    <3>4. Lacks(cut, Order("Disconnect", Own)) /\ Lacks(again, Order("Disconnect", Own))
          BY <3>1, CutsOnly
    <3> HIDE DEF cut, again
    <3>5. commands \o cut \in Seq(Commands)
          BY <3>3, ConcatProperties
    <3>6. Lacks(commands \o cut, Order("Disconnect", Own))
          BY <1>2, <3>3, <3>4, LacksBehind
    <3>7. Lacks(commands', Order("Disconnect", Own))
          BY <3>2, <3>3, <3>4, <3>5, <3>6, LacksBehind
    <3>8. links'[Own] \in {"Asking", links[Own]}
          BY <1>2, <2>3, <3>1 DEF MembersChanged, Replan
    <3> QED BY <1>2, <3>7, <3>8
  <2> QED BY <1>6, <2>1, <2>2, <2>3, QueuesOfUser DEF UserStep
<1>7. CASE AppStep
  <2>1. ASSUME NEW s \in Servers, Granted(s)
        PROVE  links'[Own] \notin {"none", "Failed"} /\ Lacks(commands', Order("Disconnect", Own))
    <3>1. links'[Own] \in {"Connecting", links[Own]}
          BY <1>0, <1>2, <2>1 DEF Granted, ConnectGranted, AppTypes
    <3> QED BY <1>2, <1>3, <2>1, <3>1, QueuesOfApp
  <2>2. ASSUME NEW s \in Servers, GrantRefused(s)
        PROVE  links'[Own] \notin {"none", "Failed"} /\ Lacks(commands', Order("Disconnect", Own))
    <3>1. s # Own
          BY <2>2 DEF GrantRefused, EndCall
    <3>2. links'[Own] = links[Own]
          BY <1>0, <1>2, <2>2, <3>1 DEF GrantRefused, AppTypes
    <3> QED BY <1>2, <1>3, <2>2, <3>2, QueuesOfApp
  <2>3. CASE SfuReported
    <3>1. ~EndCall
          BY DEF EndCall
    <3>2. /\ ~(Told[2] = "Disconnected" /\ Told[1] = Own /\ links[Told[1]] # "none")
          /\ links' = [links EXCEPT ![Told[1]] =
                          IF @ = "none" THEN @ ELSE LinkAfter(Told[2])]
          BY <2>3, <3>1 DEF SfuReported
    <3>3. Told[2] \in SfuStates
          BY <1>0, <2>3, ReportTypes DEF SfuReported
    <3>4. Told[1] = Own => LinkAfter(Told[2]) \notin {"none", "Failed"}
          BY <1>2, <3>2, <3>3 DEF LinkAfter, SfuStates
    <3>5. links'[Own] \in {links[Own], IF Told[1] = Own THEN LinkAfter(Told[2]) ELSE links[Own]}
          BY <1>0, <1>2, <3>2 DEF AppTypes
    <3> QED BY <1>2, <1>3, <2>3, <3>4, <3>5, QueuesOfApp
  <2>4. CASE MicrophoneReported \/ CameraReported \/ ScreenReported
    <3>1. links' = links
          BY <2>4 DEF MicrophoneReported, CameraReported, ScreenReported
    <3> QED BY <1>5, <2>4, <3>1, QueuesOfApp
  <2> QED BY <1>7, <2>1, <2>2, <2>3, <2>4 DEF AppStep
<1>8. CASE SessionStep
  <2>1. CASE Open \/ Connect \/ SwitchMicrophone \/ SwitchCamera \/ SwitchScreen
    <3>1. links' = links
          BY <2>1 DEF Open, Connect, SwitchMicrophone, SwitchCamera, SwitchScreen, Applies,
                      SessionMoves
    <3> QED BY <1>5, <2>1, <3>1, QueuesOfSession
  <2>2. CASE Disconnect
    <3>1. links' = links /\ commands # <<>> /\ commands' = Tail(commands)
          BY <2>2 DEF Disconnect, Ordered, Applies, SessionMoves
    <3> QED BY <1>2, <1>4, <3>1
  <2>3. ASSUME NEW s \in Servers, Adopt(s) \/ DialFails(s)
        PROVE  links'[Own] \notin {"none", "Failed"} /\ Lacks(commands', Order("Disconnect", Own))
    <3>1. links' = links
          BY <2>3 DEF Adopt, DialFails, SessionMoves
    <3> QED BY <1>5, <2>3, <3>1, QueuesOfSession
  <2> QED BY <1>8, <2>1, <2>2, <2>3, QueuesOfSession DEF SessionStep
<1>9. CASE Surroundings
  <2>1. links' = links
        BY <1>9 DEF Surroundings, PumpStarts, Reconnects, Wavers, CutOff, Pump, MicrophoneLost,
                    MicrophoneReturns, CameraLost, ShareStarts, ShareFails, ShareEnds,
                    ShareGoesOn, SharingRefused, OnItsOwn
  <2>2. OrdersOf({})
        BY <1>9, QueuesOfSurroundings DEF Surroundings
  <2> QED BY <1>5, <2>1, <2>2
<1> QED BY <1>6, <1>7, <1>8, <1>9 DEF Next

\* Whoever publishes goes on, until the call is over; and nobody publishes who
\* did not, unless the connection to the user's own server is there.
LEMMA PublishingStays ==
    ASSUME TypeOK, OwnInv, Next, call' = "in"
    PROVE  /\ Publishing => Publishing'
           /\ ~Adopt(Own) => (Publishing' => Publishing)
<1>0. BetweenTypes /\ SessionTypes /\ Own \in Servers
      BY TypesOfTypeOK DEF Servers
<1>1. call = "in"
      BY StillJoined
<1> USE <1>1
<1> USE DEF app, shown, own, sfus
<1> SUFFICES (conns[Own] # "none" => conns'[Own] # "none")
             /\ (~Adopt(Own) => (conns'[Own] # "none" => conns[Own] # "none"))
    BY DEF Publishing
<1>2. CASE conns' = conns
      BY <1>2
<1>3. CASE UserStep
  <2>1. conns' = conns
        BY <1>3 DEF UserStep, SetMicrophone, SetCamera, SetScreenShare, ChangeScreenShare,
                    UserOrders, LeaveCall, MembersChanged
  <2> QED BY <1>2, <2>1
<1>4. CASE AppStep
  <2>1. conns' = conns
        BY <1>4 DEF AppStep, Granted, GrantRefused, SfuReported, MicrophoneReported,
                    CameraReported, ScreenReported, HandlesReport
  <2> QED BY <1>2, <2>1
<1>5. CASE Disconnect
  <2>1. commands # <<>> /\ Head(commands) = Order("Disconnect", Wanted)
        /\ conns' = [conns EXCEPT ![Wanted] = "none"]
        BY <1>0, <1>5, OrderTypes DEF Disconnect, Ordered
  <2>2. Head(commands) # Order("Disconnect", Own)
        BY <1>0, <2>1, LacksAhead DEF OwnInv, BetweenTypes
  <2>3. Wanted # Own
        BY <2>1, <2>2
  <2>4. conns'[Own] = conns[Own]
        BY <1>0, <2>1, <2>3 DEF SessionTypes
  <2> QED BY <2>4
<1>6. CASE Open \/ Connect \/ SwitchMicrophone \/ SwitchCamera \/ SwitchScreen
  <2>1. conns' = conns
        BY <1>6 DEF Open, Connect, SwitchMicrophone, SwitchCamera, SwitchScreen
  <2> QED BY <1>2, <2>1
<1>7. ASSUME NEW s \in Servers, Adopt(s) \/ DialFails(s)
      PROVE  (conns[Own] # "none" => conns'[Own] # "none")
             /\ (~Adopt(Own) => (conns'[Own] # "none" => conns[Own] # "none"))
      BY <1>0, <1>7 DEF Adopt, DialFails, SessionTypes
<1>8. ASSUME NEW s \in Servers, PumpStarts(s) \/ Reconnects(s) \/ Wavers(s) \/ CutOff(s)
      PROVE  conns[Own] # "none" <=> conns'[Own] # "none"
  <2>1. PICK from, to : to \in {"up", "reconnecting", "dead"} /\
            "none" \notin from /\ conns[s] \in from /\ conns' = [conns EXCEPT ![s] = to]
        BY <1>8 DEF PumpStarts, Reconnects, Wavers, CutOff, Pump
  <2> QED BY <1>0, <2>1 DEF SessionTypes
<1>9. CASE MicrophoneLost \/ MicrophoneReturns \/ CameraLost \/ ShareStarts \/ ShareFails
           \/ ShareEnds \/ SharingRefused
  <2>1. conns' = conns
        BY <1>9 DEF MicrophoneLost, MicrophoneReturns, CameraLost, ShareStarts, ShareFails,
                    ShareEnds, ShareGoesOn, SharingRefused, OnItsOwn
  <2> QED BY <1>2, <2>1
<1>10. CASE SessionStep
      BY <1>5, <1>6, <1>7, <1>10, QueuesOfSession DEF SessionStep
<1>11. CASE Surroundings
      BY <1>8, <1>9, <1>11 DEF Surroundings
<1> QED BY <1>3, <1>4, <1>10, <1>11 DEF Next

-----------------------------------------------------------------------------
(* What is shown is so: the microphone and the camera *)

\* What becomes of the devices when the user's own server is there, and what is
\* told of each.
LEMMA AdoptOwn ==
    ASSUME TypeOK, call = "in", Adopt(Own)
    PROVE  \E m, c :
              /\ \/ wants.microphone /\ m \in Microphones(TRUE, TRUE)
                 \/ ~wants.microphone /\ m = [to |-> track, told |-> <<>>]
              /\ \/ wants.camera /\ c \in Cameras(TRUE, TRUE)
                 \/ ~wants.camera /\ c = [to |-> capture, told |-> <<>>]
              /\ track' = m.to /\ capture' = c.to
              /\ \A what : /\ Waits("Microphone", what)' <=>
                                 Waits("Microphone", what)
                                 \/ ~Lacks(m.told, Report("Microphone", what))
                           /\ Waits("Camera", what)' <=>
                                 Waits("Camera", what) \/ ~Lacks(c.told, Report("Camera", what))
<1>0. BetweenTypes /\ DeviceTypes /\ SessionTypes
      BY TypesOfTypeOK
<1>1. PICK m \in IF wants.microphone THEN Microphones(TRUE, TRUE)
                 ELSE {[to |-> track, told |-> <<>>]},
           c \in IF wants.camera THEN Cameras(TRUE, TRUE)
                 ELSE {[to |-> capture, told |-> <<>>]} :
              track' = m.to /\ capture' = c.to /\ Tell(m.told \o c.told)
      BY DEF Adopt
<1>2. \/ wants.microphone /\ m \in Microphones(TRUE, TRUE)
      \/ ~wants.microphone /\ m = [to |-> track, told |-> <<>>]
      OBVIOUS
<1>3. \/ wants.camera /\ c \in Cameras(TRUE, TRUE)
      \/ ~wants.camera /\ c = [to |-> capture, told |-> <<>>]
      OBVIOUS
<1>4. <<>> \in Seq(Events) /\ \A i \in 1..Len(<<>>) : <<>>[i].kind \in {}
      OBVIOUS
<1>5. m.told \in Seq(Events) /\ \A i \in 1..Len(m.told) : m.told[i].kind = "Microphone"
  <2>1. CASE wants.microphone
        BY <1>0, <1>2, <2>1, MicrophonesTypes, MicrophonesSay
  <2>2. CASE ~wants.microphone
    <3>1. m.told = <<>>
          BY <1>2, <2>2
    <3> QED BY <1>4, <3>1
  <2> QED BY <2>1, <2>2
<1>6. c.told \in Seq(Events) /\ \A i \in 1..Len(c.told) : c.told[i].kind = "Camera"
  <2>1. CASE wants.camera
        BY <1>0, <1>3, <2>1, CamerasTypes, CamerasSay
  <2>2. CASE ~wants.camera
    <3>1. c.told = <<>>
          BY <1>3, <2>2
    <3> QED BY <1>4, <3>1
  <2> QED BY <2>1, <2>2
<1>7. ASSUME NEW kind, NEW what
      PROVE  Waits(kind, what)' <=> \/ Waits(kind, what)
                                    \/ ~Lacks(m.told, Report(kind, what))
                                    \/ ~Lacks(c.told, Report(kind, what))
  <2>1. m.told \o c.told \in Seq(Events)
        BY <1>5, <1>6, ConcatProperties
  <2>2. Waits(kind, what)' <=>
            Waits(kind, what) \/ ~Lacks(m.told \o c.told, Report(kind, what))
        BY <1>0, <1>1, <2>1, WaitsBehind
  <2>3. Lacks(m.told \o c.told, Report(kind, what)) <=>
            Lacks(m.told, Report(kind, what)) /\ Lacks(c.told, Report(kind, what))
        BY <1>5, <1>6, LacksBehind
  <2> QED BY <2>2, <2>3
<1>8. \A what : Lacks(c.told, Report("Microphone", what)) /\ Lacks(m.told, Report("Camera", what))
      BY <1>5, <1>6 DEF Lacks, Report
<1> QED BY <1>1, <1>2, <1>3, <1>7, <1>8

\* A microphone that was published, or of which that is about to be read, has
\* its track; and it is shown on only when it was published.
TrackInv ==
    call = "in" => /\ published \/ Waits("Microphone", "On") => track # "none"
                   /\ mic = "On" => published

\* While the microphone is shown on, or to start: that it failed is on its way
\* to the app, an order to switch it on is on its way to the session, it is on,
\* and that is on its way when it is not shown, or it waits for a connection.
SpeaksInv ==
    call = "in" /\ mic \in {"Starting", "On"} =>
        \/ Waits("Microphone", "Failed")
        \/ ComesLast("Microphone")
        \/ /\ NotOff("Microphone")
           /\ \/ track = "live" /\ (mic = "On" \/ Waits("Microphone", "On"))
              \/ mic = "Starting" /\ track = "none" /\ wants.microphone /\ ~Publishing

SoundInv == TrackInv /\ SpeaksInv

\* What a call starts with.
LEMMA InitSoundInv == Init => SoundInv
<1> SUFFICES ASSUME Init PROVE SoundInv
    OBVIOUS
<1>1. Lacks(events, Report("Microphone", "On"))
  <2>1. events = <<>>
        BY DEF Init
  <2> QED BY <2>1, LacksFew
<1>2. /\ published = FALSE /\ mic # "On"
      /\ mic = "Starting" => ComesLast("Microphone")
      BY InitOrders DEF Init, Chosen
<1> QED BY <1>1, <1>2 DEF SoundInv, TrackInv, SpeaksInv, Waits

\* A step that takes nothing away from what the microphone is shown for.
LEMMA SoundAsItWas ==
    ASSUME SoundInv, call = "in", UNCHANGED <<mic, published>>,
           track = "none" <=> track' = "none", track = "live" => track' = "live",
           wants.microphone => wants'.microphone, Publishing' => Publishing,
           \A what : Waits("Microphone", what)' <=> Waits("Microphone", what),
           ComesLast("Microphone") => ComesLast("Microphone")',
           NotOff("Microphone") => NotOff("Microphone")'
    PROVE  SoundInv'
<1>1. TrackInv'
      BY DEF SoundInv, TrackInv
<1>2. ASSUME mic' \in {"Starting", "On"}
      PROVE  \/ Waits("Microphone", "Failed")'
             \/ ComesLast("Microphone")'
             \/ /\ NotOff("Microphone")'
                /\ \/ track' = "live" /\ (mic' = "On" \/ Waits("Microphone", "On")')
                   \/ mic' = "Starting" /\ track' = "none" /\ wants'.microphone /\ ~Publishing'
      BY <1>2 DEF SoundInv, SpeaksInv
<1> QED BY <1>1, <1>2 DEF SoundInv, SpeaksInv

\* The same of a step that concerns no order and no report of the microphone.
LEMMA SoundUntouched ==
    ASSUME BetweenTypes, SoundInv, call = "in", UNCHANGED <<mic, published>>,
           track = "none" <=> track' = "none", track = "live" => track' = "live",
           wants.microphone => wants'.microphone, Publishing' => Publishing,
           NEW orders, OrdersOf(orders), "Microphone" \notin orders,
           NEW reports, ReportsOf(reports), "Microphone" \notin reports
    PROVE  SoundInv'
<1>1. \A what : Waits("Microphone", what)' <=> Waits("Microphone", what)
      BY ReportsStay
<1>2. NotOff("Microphone")' <=> NotOff("Microphone")
      BY OrdersStay DEF NotOff
<1>3. ComesLast("Microphone") => ComesLast("Microphone")'
      BY OrdersStay
<1> QED BY <1>1, <1>2, <1>3, SoundAsItWas

\* SoundInv is kept by what the user and the app do.
LEMMA SoundAppStep ==
    ASSUME TypeOK, SoundInv, call = "in", call' = "in", Publishing' => Publishing,
           AppStep \/ UserStep
    PROVE  SoundInv'
<1>0. BetweenTypes /\ ShownTypes
      BY TypesOfTypeOK
<1> USE DEF app, shown, own, sfus
<1>1. ASSUME NEW orders \in {{}, {"Camera"}, {"ScreenShare"}, {"Connect"}, {"Disconnect"}},
             OrdersOf(orders), UNCHANGED <<mic, published, track, wants>>,
             NEW reports \in {{}, {"Camera"}, {"Sfu"}, {"Screen"}}, ReportsOf(reports)
      PROVE  SoundInv'
      BY <1>0, <1>1, SoundUntouched
<1>2. ASSUME NEW on \in BOOLEAN, SetMicrophone(on) PROVE SoundInv'
  <2>1. /\ commands' = Append(commands, Order("Microphone", on))
        /\ mic' = SwitchedMicrophone(on) /\ UNCHANGED <<published, track, events>>
        BY <1>2 DEF SetMicrophone, UserOrders
  <2>2. TrackInv'
        BY <2>1 DEF SoundInv, TrackInv, SwitchedMicrophone, Waits
  <2>3. on => ComesLast("Microphone")'
        BY <1>0, <2>1, OrderBehind
  <2>4. ~on => mic' = "Off"
        BY <2>1 DEF SwitchedMicrophone
  <2> QED BY <2>2, <2>3, <2>4 DEF SoundInv, SpeaksInv
<1>3. ASSUME NEW on \in BOOLEAN, SetCamera(on) \/ SetScreenShare(on) PROVE SoundInv'
  <2>1. UNCHANGED <<mic, published, track, wants>>
        BY <1>3 DEF SetCamera, SetScreenShare, UserOrders
  <2> QED BY <1>1, <1>3, <2>1, QueuesOfUser
<1>4. CASE ChangeScreenShare
  <2>1. UNCHANGED <<mic, published, track, wants>>
        BY <1>4 DEF ChangeScreenShare, UserOrders
  <2> QED BY <1>1, <1>4, <2>1, QueuesOfUser
<1>5. ASSUME NEW members \in SUBSET Others, MembersChanged(members) PROVE SoundInv'
  <2>1. UNCHANGED <<mic, published, track, wants>>
        BY <1>5 DEF MembersChanged
  <2> QED BY <1>1, <1>5, <2>1, QueuesOfUser
<1>6. ASSUME NEW s \in Servers, Granted(s) \/ GrantRefused(s) PROVE SoundInv'
  <2>1. UNCHANGED <<track, wants>>
        BY <1>6 DEF Granted, GrantRefused
  <2>2. UNCHANGED <<mic, published>>
        BY <1>6, QueuesOfApp DEF Granted
  <2> QED BY <1>1, <1>6, <2>1, <2>2, QueuesOfApp
<1>7. CASE SfuReported \/ CameraReported \/ ScreenReported
  <2>1. UNCHANGED <<track, wants>>
        BY <1>7 DEF SfuReported, CameraReported, ScreenReported, HandlesReport
  <2>2. UNCHANGED <<mic, published>>
        BY <1>7, QueuesOfApp DEF CameraReported, ScreenReported
  <2> QED BY <1>1, <1>7, <2>1, <2>2, QueuesOfApp
<1>8. CASE MicrophoneReported
  <2>1. /\ Reported("Microphone") /\ events' = Tail(events)
        /\ published' = (published \/ Told = "On")
        /\ mic' = IF Told = "On" /\ mic = "Starting" THEN "On"
                  ELSE IF Told = "Failed" /\ mic \in {"Starting", "On"} THEN "Failed"
                  ELSE mic
        /\ UNCHANGED <<commands, track, wants>>
        BY <1>8 DEF MicrophoneReported, HandlesReport
  <2>2. Told \in {"On", "Failed"}
        BY <1>0, <2>1, ReportTypes
  <2>3. \A what : Waits("Microphone", what) <=> Told = what \/ Waits("Microphone", what)'
        BY <1>0, <2>1, WaitsAhead
  <2>4. TrackInv'
    <3>1. published' \/ Waits("Microphone", "On")' => track' # "none"
          BY <2>1, <2>3 DEF SoundInv, TrackInv
    <3>2. mic' = "On" => published'
          BY <1>0, <2>1 DEF SoundInv, TrackInv
    <3> QED BY <3>1, <3>2 DEF TrackInv
  <2>5. CASE Told = "Failed"
    <3>1. mic' \notin {"Starting", "On"}
          BY <1>0, <2>1, <2>5 DEF ShownTypes
    <3> QED BY <2>4, <3>1 DEF SoundInv, SpeaksInv
  <2>6. CASE Told = "On"
    <3>1. mic' \in {"Starting", "On"} => mic' = "On" /\ mic \in {"Starting", "On"}
          BY <2>1, <2>6
    <3>2. track # "none"
          BY <2>3, <2>6 DEF SoundInv, TrackInv
    <3>3. Waits("Microphone", "Failed") => Waits("Microphone", "Failed")'
          BY <2>3, <2>6
    <3>4. (ComesLast("Microphone") => ComesLast("Microphone")')
          /\ (NotOff("Microphone") => NotOff("Microphone")')
          BY <2>1 DEF ComesLast, NotOff
    <3>5. ASSUME mic' \in {"Starting", "On"}
          PROVE  \/ Waits("Microphone", "Failed")' \/ ComesLast("Microphone")'
                 \/ NotOff("Microphone")' /\ track' = "live" /\ mic' = "On"
          BY <2>1, <3>1, <3>2, <3>3, <3>4, <3>5 DEF SoundInv, SpeaksInv
    <3>6. SpeaksInv'
          BY <3>5 DEF SpeaksInv
    <3> QED BY <2>4, <3>6 DEF SoundInv
  <2> QED BY <2>2, <2>5, <2>6
<1>9. CASE AppStep
      BY <1>6, <1>7, <1>8, <1>9 DEF AppStep
<1>10. CASE UserStep
      BY <1>2, <1>3, <1>4, <1>5, <1>10, QueuesOfUser DEF UserStep
<1> QED BY <1>9, <1>10

\* SoundInv is kept by what the session does: a microphone that is ordered on
\* goes on and says so, says that it failed, or waits for a connection.
LEMMA SoundSessionStep ==
    ASSUME TypeOK, SoundInv, OwnInv, Next, call = "in", call' = "in", SessionStep \/ Surroundings
    PROVE  SoundInv'
<1>0. BetweenTypes /\ DeviceTypes /\ SessionTypes
      BY TypesOfTypeOK
<1> USE DEF app, shown, own, sfus
<1>1. ASSUME NEW orders \in {{}, {"Camera"}, {"ScreenShare"}, {"Connect"}, {"Disconnect"}},
             OrdersOf(orders), UNCHANGED <<mic, published, track>>,
             wants.microphone => wants'.microphone, ~Adopt(Own),
             NEW reports \in {{}, {"Camera"}, {"Sfu"}, {"Screen"}}, ReportsOf(reports)
      PROVE  SoundInv'
  <2>1. Publishing' => Publishing
        BY <1>1, PublishingStays
  <2> QED BY <1>0, <1>1, <2>1, SoundUntouched
<1>2. CASE Open \/ Connect \/ Disconnect \/ SwitchCamera \/ SwitchScreen
  <2>1. UNCHANGED <<mic, published, track>>
        BY <1>2 DEF Open, Connect, Disconnect, SwitchCamera, SwitchScreen, Applies, SessionMoves
  <2>2. wants.microphone => wants'.microphone
        BY <1>0, <1>2
        DEF Open, Connect, Disconnect, SwitchCamera, SwitchScreen, Follow, SessionTypes
  <2>3. ~Adopt(Own)
        BY <1>2 DEF Adopt, Idle, Open, Connect, Disconnect, SwitchCamera, SwitchScreen, Ordered
  <2> QED BY <1>1, <1>2, <2>1, <2>2, <2>3, QueuesOfSession
<1>3. CASE SwitchMicrophone
  <2>1. /\ Ordered("Microphone") /\ Applies /\ UNCHANGED <<mic, published>>
        /\ Publishing' = Publishing /\ wants' = [wants EXCEPT !["microphone"] = Wanted]
        BY <1>3 DEF SwitchMicrophone, Applies, SessionMoves, Follow, Publishing
  <2>2. /\ Wanted \in BOOLEAN
        /\ ComesLast("Microphone") => ComesLast("Microphone")' \/ (Wanted /\ NotOff("Microphone")')
        /\ NotOff("Microphone") <=> Wanted /\ NotOff("Microphone")'
        BY <1>0, <2>1, OrderAhead
  <2>3. PICK m \in Microphones(Wanted, Publishing) : track' = m.to /\ Tell(m.told)
        BY <1>3 DEF SwitchMicrophone
  <2>4. Publishing \in BOOLEAN
        BY DEF Publishing
  <2> DEFINE says(what) == ~Lacks(m.told, Report("Microphone", what))
  <2>5. /\ m.told \in Seq(Events)
        /\ track # "none" \/ says("On") => m.to # "none"
        /\ Wanted => \/ says("Failed")
                     \/ m.to = "live" /\ says("On")
                     \/ m.to = "none" /\ track = "none" /\ ~Publishing
        BY <1>0, <2>2, <2>4, MicrophonesTypes, MicrophonesSay
  <2>6. \A what : Waits("Microphone", what)' <=> Waits("Microphone", what) \/ says(what)
        BY <1>0, <2>3, <2>5, WaitsBehind
  <2> HIDE DEF says
  <2>7. TrackInv'
        BY <2>1, <2>3, <2>5, <2>6 DEF SoundInv, TrackInv
  <2>8. wants'.microphone = Wanted
        BY <1>0, <2>1 DEF SessionTypes
  <2>9. ASSUME mic' \in {"Starting", "On"}
        PROVE  \/ Waits("Microphone", "Failed")'
               \/ ComesLast("Microphone")'
               \/ /\ NotOff("Microphone")'
                  /\ \/ track' = "live" /\ (mic' = "On" \/ Waits("Microphone", "On")')
                     \/ mic' = "Starting" /\ track' = "none" /\ wants'.microphone /\ ~Publishing'
    <3>1. \/ Waits("Microphone", "Failed")' \/ ComesLast("Microphone")'
          \/ Wanted /\ NotOff("Microphone")'
          BY <2>1, <2>2, <2>6, <2>9 DEF SoundInv, SpeaksInv
    <3>2. ASSUME Wanted, m.to = "none" /\ track = "none" /\ ~Publishing
          PROVE  mic' = "Starting" /\ track' = "none" /\ wants'.microphone /\ ~Publishing'
      <4>1. mic # "On"
            BY <3>2 DEF SoundInv, TrackInv
      <4> QED BY <2>1, <2>3, <2>8, <2>9, <3>2, <4>1
    <3>3. says("On") => Waits("Microphone", "On")'
          BY <2>6
    <3>4. says("Failed") => Waits("Microphone", "Failed")'
          BY <2>6
    <3> QED BY <2>3, <2>5, <3>1, <3>2, <3>3, <3>4
  <2>10. SpeaksInv'
        BY <2>9 DEF SpeaksInv
  <2> QED BY <2>7, <2>10 DEF SoundInv
<1>4. CASE Adopt(Own)
  <2>1. PICK m, c :
            /\ \/ wants.microphone /\ m \in Microphones(TRUE, TRUE)
               \/ ~wants.microphone /\ m = [to |-> track, told |-> <<>>]
            /\ track' = m.to
            /\ \A what : Waits("Microphone", what)' <=>
                   Waits("Microphone", what) \/ ~Lacks(m.told, Report("Microphone", what))
        BY <1>4, AdoptOwn
  <2> DEFINE says(what) == ~Lacks(m.told, Report("Microphone", what))
  <2>2. \A what : Waits("Microphone", what)' <=> Waits("Microphone", what) \/ says(what)
        BY <2>1
  <2>3. /\ track # "none" \/ says("On") => m.to # "none"
        /\ \/ says("Failed") \/ (m.to = "live" /\ says("On"))
           \/ ~wants.microphone /\ m.to = track /\ ~says("On")
    <3>1. CASE wants.microphone
          BY <1>0, <2>1, <3>1, MicrophonesSay
    <3>2. CASE ~wants.microphone
      <4>1. m = [to |-> track, told |-> <<>>]
            BY <2>1, <3>2
      <4>2. m.told = <<>> /\ m.to = track
            BY <4>1
      <4>3. ~says("On")
            BY <4>2, LacksFew
      <4> QED BY <3>2, <4>2, <4>3
    <3> QED BY <3>1, <3>2
  <2> HIDE DEF says
  <2>4. commands = <<>> /\ UNCHANGED <<mic, published, commands, wants>>
        BY <1>4 DEF Adopt, Idle, SessionMoves
  <2>5. ~ComesLast("Microphone") /\ NotOff("Microphone")'
    <3>1. Len(commands) = 0 /\ Len(commands') = 0
          BY <2>4
    <3> QED BY <3>1 DEF ComesLast, NotOff, Ends, Lacks
  <2>6. TrackInv'
        BY <2>1, <2>2, <2>3, <2>4 DEF SoundInv, TrackInv
  <2>7. ASSUME mic' \in {"Starting", "On"}
        PROVE  \/ Waits("Microphone", "Failed")'
               \/ NotOff("Microphone")' /\ track' = "live"
                  /\ (mic' = "On" \/ Waits("Microphone", "On")')
    <3>1. \/ Waits("Microphone", "Failed")
          \/ track = "live" /\ (mic = "On" \/ Waits("Microphone", "On"))
          \/ wants.microphone
          BY <2>4, <2>5, <2>7 DEF SoundInv, SpeaksInv
    <3>2. (says("On") \/ Waits("Microphone", "On") => Waits("Microphone", "On")')
          /\ (says("Failed") \/ Waits("Microphone", "Failed") => Waits("Microphone", "Failed")')
          BY <2>2
    <3> QED BY <2>1, <2>3, <2>4, <2>5, <3>1, <3>2
  <2>8. SpeaksInv'
        BY <2>7 DEF SpeaksInv
  <2> QED BY <2>6, <2>8 DEF SoundInv
<1>5. ASSUME NEW s \in Servers, Adopt(s) \/ DialFails(s), ~Adopt(Own) PROVE SoundInv'
  <2>1. UNCHANGED <<mic, published, wants>>
        BY <1>5 DEF Adopt, DialFails, SessionMoves
  <2>2. track' = track
        BY <1>5, QueuesOfSession DEF DialFails
  <2> QED BY <1>1, <1>5, <2>1, <2>2, QueuesOfSession
<1>6. CASE MicrophoneLost
  <2>1. /\ UNCHANGED <<mic, published, commands>> /\ track' = "deaf"
        /\ Tell(<<Report("Microphone", "Failed")>>)
        BY <1>6 DEF MicrophoneLost, OnItsOwn
  <2>2. /\ Waits("Microphone", "Failed")'
        /\ Waits("Microphone", "On")' <=> Waits("Microphone", "On")
        BY <1>0, <2>1, OneTold, ReportsAreEvents
  <2>3. track # "none"
        BY <1>6 DEF MicrophoneLost
  <2> QED BY <2>1, <2>2, <2>3 DEF SoundInv, TrackInv, SpeaksInv
<1>7. CASE MicrophoneReturns
  <2>1. /\ UNCHANGED <<mic, published, commands, wants, conns, events>>
        /\ track = "deaf" /\ track' = "live"
        BY <1>7 DEF MicrophoneReturns, OnItsOwn
  <2> QED BY <2>1, SoundAsItWas DEF ComesLast, NotOff, Waits, Publishing
<1>8. ASSUME UNCHANGED <<mic, published, track, wants, conns>>, OrdersOf({}),
             NEW reports \in {{}, {"Camera"}, {"Sfu"}, {"Screen"}}, ReportsOf(reports)
      PROVE  SoundInv'
      BY <1>0, <1>8, SoundUntouched DEF Publishing
<1>9. CASE CameraLost \/ ShareStarts \/ ShareFails \/ ShareEnds \/ SharingRefused
  <2>1. UNCHANGED <<mic, published, track, wants, conns>>
        BY <1>9 DEF CameraLost, ShareStarts, ShareFails, ShareEnds, ShareGoesOn,
                    SharingRefused, OnItsOwn
  <2> QED BY <1>8, <1>9, <2>1, QueuesOfSurroundings
<1>10. ASSUME NEW s \in Servers, PumpStarts(s) \/ Reconnects(s) \/ Wavers(s) \/ CutOff(s)
       PROVE  SoundInv'
  <2>1. UNCHANGED <<mic, published, track, wants>>
        BY <1>10 DEF PumpStarts, Reconnects, Wavers, CutOff, Pump
  <2>2. OrdersOf({}) /\ ReportsOf({"Sfu"})
        BY <1>10, QueuesOfSurroundings
  <2>3. CASE Adopt(Own)
        BY <1>4, <2>3
  <2>4. CASE ~Adopt(Own)
        BY <1>1, <2>1, <2>2, <2>4
  <2> QED BY <2>3, <2>4
<1>11. CASE SessionStep
  <2>1. CASE Adopt(Own)
        BY <1>4, <2>1
  <2>2. CASE ~Adopt(Own)
        BY <1>2, <1>3, <1>5, <1>11, <2>2, QueuesOfSession DEF SessionStep
  <2> QED BY <2>1, <2>2
<1>12. CASE Surroundings
      BY <1>6, <1>7, <1>9, <1>10, <1>12 DEF Surroundings
<1> QED BY <1>11, <1>12

\* A camera captures, is shown on, or said to be, only for somebody who
\* publishes; and that it is on is on its way when it is shown to start.
TakenInv ==
    call = "in" =>
        /\ camera = "On" \/ capture \/ Waits("Camera", "On") => Publishing
        /\ camera = "Starting" /\ capture /\ NotOff("Camera") =>
               Waits("Camera", "On") \/ Waits("Camera", "Failed")

\* The same of the camera as SpeaksInv of the microphone.
SeesInv ==
    call = "in" /\ camera \in {"Starting", "On"} =>
        \/ Waits("Camera", "Failed")
        \/ ComesLast("Camera")
        \/ /\ NotOff("Camera")
           /\ \/ capture /\ (camera = "On" \/ Waits("Camera", "On"))
              \/ camera = "Starting" /\ ~capture /\ wants.camera /\ ~Publishing

PictureInv == TakenInv /\ SeesInv

\* What a call starts with.
LEMMA InitPictureInv == Init => PictureInv
<1> SUFFICES ASSUME Init PROVE PictureInv
    OBVIOUS
<1>1. Lacks(events, Report("Camera", "On"))
  <2>1. events = <<>>
        BY DEF Init
  <2> QED BY <2>1, LacksFew
<1>2. /\ capture = FALSE /\ camera # "On"
      /\ camera = "Starting" => ComesLast("Camera")
      BY InitOrders DEF Init, Chosen
<1> QED BY <1>1, <1>2 DEF PictureInv, TakenInv, SeesInv, Waits

\* A step that concerns no order and no report of the camera.
LEMMA PictureUntouched ==
    ASSUME BetweenTypes, PictureInv, call = "in", UNCHANGED camera,
           capture' <=> capture,
           wants.camera => wants'.camera, Publishing' <=> Publishing,
           NEW orders, OrdersOf(orders), "Camera" \notin orders,
           NEW reports, ReportsOf(reports), "Camera" \notin reports
    PROVE  PictureInv'
<1>1. \A what : Waits("Camera", what)' <=> Waits("Camera", what)
      BY ReportsStay
<1>2. NotOff("Camera")' <=> NotOff("Camera")
      BY OrdersStay DEF NotOff
<1>3. ComesLast("Camera") => ComesLast("Camera")'
      BY OrdersStay
<1>4. TakenInv'
      BY <1>1, <1>2 DEF PictureInv, TakenInv
<1>5. ASSUME camera' \in {"Starting", "On"}
      PROVE  \/ Waits("Camera", "Failed")'
             \/ ComesLast("Camera")'
             \/ /\ NotOff("Camera")'
                /\ \/ capture' /\ (camera' = "On" \/ Waits("Camera", "On")')
                   \/ camera' = "Starting" /\ ~capture' /\ wants'.camera /\ ~Publishing'
      BY <1>1, <1>2, <1>3, <1>5 DEF PictureInv, SeesInv
<1> QED BY <1>4, <1>5 DEF PictureInv, SeesInv

\* PictureInv is kept by what the user and the app do.
LEMMA PictureAppStep ==
    ASSUME TypeOK, DeviceInv, PictureInv, call = "in", call' = "in", Publishing' <=> Publishing,
           AppStep \/ UserStep
    PROVE  PictureInv'
<1>0. BetweenTypes /\ ShownTypes
      BY TypesOfTypeOK
<1> USE DEF app, shown, own, sfus
<1>1. ASSUME NEW orders \in {{}, {"Microphone"}, {"ScreenShare"}, {"Connect"}, {"Disconnect"}},
             OrdersOf(orders), UNCHANGED <<camera, capture, wants>>,
             NEW reports \in {{}, {"Microphone"}, {"Sfu"}, {"Screen"}}, ReportsOf(reports)
      PROVE  PictureInv'
      BY <1>0, <1>1, PictureUntouched
<1>2. ASSUME NEW on \in BOOLEAN, SetCamera(on) PROVE PictureInv'
  <2>1. /\ commands' = Append(commands, Order("Camera", on))
        /\ camera' = (IF on THEN "Starting" ELSE "Off") /\ UNCHANGED <<capture, events>>
        BY <1>2 DEF SetCamera, UserOrders
  <2>2. /\ on => ComesLast("Camera")'
        /\ NotOff("Camera")' <=> on /\ NotOff("Camera")
        BY <1>0, <2>1, OrderBehind
  <2>3. ASSUME on, capture PROVE ~NotOff("Camera")
    <3>1. camera \in {"Off", "Failed"}
          BY <1>2, <2>3 DEF SetCamera
    <3>2. Ends(commands, Order("Camera", FALSE), Order("Camera", TRUE))
          BY <2>3, <3>1 DEF DeviceInv, CamInv, CamOff
    <3> QED BY <3>2 DEF Ends, NotOff, Lacks
  <2>4. TakenInv'
    <3>1. camera' # "On" /\ (camera' = "Starting" => on)
          BY <2>1
    <3>2. capture' \/ Waits("Camera", "On")' => Publishing'
          BY <2>1 DEF PictureInv, TakenInv, Waits
    <3> QED BY <2>1, <2>2, <2>3, <3>1, <3>2 DEF TakenInv
  <2>5. SeesInv'
    <3>1. camera' \in {"Starting", "On"} => on
          BY <2>1
    <3> QED BY <2>2, <3>1 DEF SeesInv
  <2> QED BY <2>4, <2>5 DEF PictureInv
<1>3. ASSUME NEW on \in BOOLEAN, SetMicrophone(on) \/ SetScreenShare(on) PROVE PictureInv'
  <2>1. UNCHANGED <<camera, capture, wants>>
        BY <1>3 DEF SetMicrophone, SetScreenShare, UserOrders
  <2> QED BY <1>1, <1>3, <2>1, QueuesOfUser
<1>4. CASE ChangeScreenShare
  <2>1. UNCHANGED <<camera, capture, wants>>
        BY <1>4 DEF ChangeScreenShare, UserOrders
  <2> QED BY <1>1, <1>4, <2>1, QueuesOfUser
<1>5. ASSUME NEW members \in SUBSET Others, MembersChanged(members) PROVE PictureInv'
  <2>1. UNCHANGED <<camera, capture, wants>>
        BY <1>5 DEF MembersChanged
  <2> QED BY <1>1, <1>5, <2>1, QueuesOfUser
<1>6. ASSUME NEW s \in Servers, Granted(s) \/ GrantRefused(s) PROVE PictureInv'
  <2>1. UNCHANGED <<capture, wants>>
        BY <1>6 DEF Granted, GrantRefused
  <2>2. UNCHANGED camera
        BY <1>6, QueuesOfApp DEF Granted
  <2> QED BY <1>1, <1>6, <2>1, <2>2, QueuesOfApp
<1>7. CASE SfuReported \/ MicrophoneReported \/ ScreenReported
  <2>1. UNCHANGED <<capture, wants>>
        BY <1>7 DEF SfuReported, MicrophoneReported, ScreenReported, HandlesReport
  <2>2. UNCHANGED camera
        BY <1>7, QueuesOfApp DEF MicrophoneReported, ScreenReported
  <2> QED BY <1>1, <1>7, <2>1, <2>2, QueuesOfApp
<1>8. CASE CameraReported
  <2>1. /\ Reported("Camera") /\ events' = Tail(events) /\ UNCHANGED <<capture, wants>>
        /\ \/ Told = "On" /\ camera' = (IF camera = "Starting" THEN "On" ELSE camera)
              /\ UNCHANGED commands
           \/ Told = "Failed" /\ camera' \in {"Off", "Failed"}
        BY <1>8 DEF CameraReported, HandlesReport
  <2>2. \A what : Waits("Camera", what) <=> Told = what \/ Waits("Camera", what)'
        BY <1>0, <2>1, WaitsAhead
  <2>3. capture' \/ Waits("Camera", "On")' => Publishing'
        BY <2>1, <2>2 DEF PictureInv, TakenInv
  <2>4. CASE Told = "Failed"
    <3>1. camera' \notin {"Starting", "On"}
          BY <2>1, <2>4
    <3> QED BY <2>3, <3>1 DEF PictureInv, TakenInv, SeesInv
  <2>5. CASE Told = "On"
    <3>1. camera' = (IF camera = "Starting" THEN "On" ELSE camera) /\ UNCHANGED commands
          BY <2>1, <2>5
    <3>2. camera' \in {"Starting", "On"} => camera' = "On" /\ camera \in {"Starting", "On"}
          BY <3>1
    <3>3. Publishing /\ (Waits("Camera", "Failed") => Waits("Camera", "Failed")')
          BY <2>2, <2>5 DEF PictureInv, TakenInv
    <3>4. TakenInv'
          BY <3>2, <3>3 DEF TakenInv
    <3>5. (ComesLast("Camera") => ComesLast("Camera")') /\ (NotOff("Camera") => NotOff("Camera")')
          BY <3>1 DEF ComesLast, NotOff
    <3>6. ASSUME camera' \in {"Starting", "On"}
          PROVE  \/ Waits("Camera", "Failed")' \/ ComesLast("Camera")'
                 \/ NotOff("Camera")' /\ capture' /\ camera' = "On"
          BY <2>1, <3>2, <3>3, <3>5, <3>6 DEF PictureInv, SeesInv
    <3>7. SeesInv'
          BY <3>6 DEF SeesInv
    <3> QED BY <3>4, <3>7 DEF PictureInv
  <2> QED BY <2>1, <2>4, <2>5
<1>9. CASE AppStep
      BY <1>6, <1>7, <1>8, <1>9 DEF AppStep
<1>10. CASE UserStep
      BY <1>2, <1>3, <1>4, <1>5, <1>10, QueuesOfUser DEF UserStep
<1> QED BY <1>9, <1>10

\* PictureInv is kept by what the session does: a camera that is ordered on is
\* told of, unless it is on, or waits for a connection.
LEMMA PictureSessionStep ==
    ASSUME TypeOK, PictureInv, OwnInv, Next, call = "in", call' = "in",
           SessionStep \/ Surroundings
    PROVE  PictureInv'
<1>0. BetweenTypes /\ DeviceTypes /\ SessionTypes
      BY TypesOfTypeOK
<1> USE DEF app, shown, own, sfus
<1>1. ASSUME NEW orders \in {{}, {"Microphone"}, {"ScreenShare"}, {"Connect"}, {"Disconnect"}},
             OrdersOf(orders), UNCHANGED <<camera, capture>>,
             wants.camera => wants'.camera, ~Adopt(Own),
             NEW reports \in {{}, {"Microphone"}, {"Sfu"}, {"Screen"}}, ReportsOf(reports)
      PROVE  PictureInv'
  <2>1. Publishing' <=> Publishing
        BY <1>1, PublishingStays
  <2> QED BY <1>0, <1>1, <2>1, PictureUntouched
<1>2. CASE Open \/ Connect \/ Disconnect \/ SwitchMicrophone \/ SwitchScreen
  <2>1. UNCHANGED <<camera, capture>>
        BY <1>2
        DEF Open, Connect, Disconnect, SwitchMicrophone, SwitchScreen, Applies, SessionMoves
  <2>2. wants.camera => wants'.camera
        BY <1>0, <1>2
        DEF Open, Connect, Disconnect, SwitchMicrophone, SwitchScreen, Follow, SessionTypes
  <2>3. ~Adopt(Own)
        BY <1>2 DEF Adopt, Idle, Open, Connect, Disconnect, SwitchMicrophone, SwitchScreen, Ordered
  <2> QED BY <1>1, <1>2, <2>1, <2>2, <2>3, QueuesOfSession
<1>3. CASE SwitchCamera
  <2>1. /\ Ordered("Camera") /\ Applies /\ UNCHANGED camera
        /\ Publishing' = Publishing /\ wants' = [wants EXCEPT !["camera"] = Wanted]
        BY <1>3 DEF SwitchCamera, Applies, SessionMoves, Follow, Publishing
  <2>2. /\ Wanted \in BOOLEAN
        /\ ComesLast("Camera") => ComesLast("Camera")' \/ (Wanted /\ NotOff("Camera")')
        /\ NotOff("Camera") <=> Wanted /\ NotOff("Camera")'
        BY <1>0, <2>1, OrderAhead
  <2>3. PICK c \in Cameras(Wanted, Publishing) : capture' = c.to /\ Tell(c.told)
        BY <1>3 DEF SwitchCamera
  <2>4. Publishing \in BOOLEAN
        BY DEF Publishing
  <2> DEFINE says(what) == ~Lacks(c.told, Report("Camera", what))
  <2>5. /\ c.told \in Seq(Events)
        /\ says("On") => c.to /\ Publishing
        /\ c.to => Wanted /\ (capture \/ (says("On") /\ Publishing))
        /\ Wanted => \/ says("Failed")
                     \/ c.to /\ (capture \/ says("On"))
                     \/ ~c.to /\ ~capture /\ ~Publishing
        BY <1>0, <2>2, <2>4, CamerasTypes, CamerasSay
  <2>6. \A what : Waits("Camera", what)' <=> Waits("Camera", what) \/ says(what)
        BY <1>0, <2>3, <2>5, WaitsBehind
  <2> HIDE DEF says
  <2>7. TakenInv'
    <3>1. camera' = "On" \/ capture' \/ Waits("Camera", "On")' => Publishing'
          BY <2>1, <2>3, <2>5, <2>6 DEF PictureInv, TakenInv
    <3>2. ASSUME camera' = "Starting", capture', NotOff("Camera")'
          PROVE  Waits("Camera", "On")' \/ Waits("Camera", "Failed")'
          BY <2>1, <2>2, <2>3, <2>5, <2>6, <3>2 DEF PictureInv, TakenInv
    <3> QED BY <3>1, <3>2 DEF TakenInv
  <2>8. wants'.camera = Wanted
        BY <1>0, <2>1 DEF SessionTypes
  <2>9. ASSUME camera' \in {"Starting", "On"}
        PROVE  \/ Waits("Camera", "Failed")'
               \/ ComesLast("Camera")'
               \/ /\ NotOff("Camera")'
                  /\ \/ capture' /\ (camera' = "On" \/ Waits("Camera", "On")')
                     \/ camera' = "Starting" /\ ~capture' /\ wants'.camera /\ ~Publishing'
    <3>1. \/ Waits("Camera", "Failed")' \/ ComesLast("Camera")'
          \/ Wanted /\ NotOff("Camera")'
          BY <2>1, <2>2, <2>6, <2>9 DEF PictureInv, SeesInv
    <3>2. ASSUME Wanted, ~c.to /\ ~capture /\ ~Publishing
          PROVE  camera' = "Starting" /\ ~capture' /\ wants'.camera /\ ~Publishing'
      <4>1. camera # "On"
            BY <3>2 DEF PictureInv, TakenInv
      <4> QED BY <2>1, <2>3, <2>8, <2>9, <3>2, <4>1
    <3>3. ASSUME Wanted, NotOff("Camera")', c.to, capture \/ says("On")
          PROVE  \/ Waits("Camera", "Failed")'
                 \/ capture' /\ (camera' = "On" \/ Waits("Camera", "On")')
      <4>1. CASE says("On")
            BY <2>3, <2>6, <3>3, <4>1
      <4>2. CASE capture /\ camera = "Starting"
            BY <2>2, <2>3, <2>6, <3>3, <4>2 DEF PictureInv, TakenInv
      <4>3. CASE camera = "On"
            BY <2>1, <2>3, <3>3, <4>3
      <4> QED BY <2>1, <2>9, <3>3, <4>1, <4>2, <4>3
    <3>4. says("Failed") => Waits("Camera", "Failed")'
          BY <2>6
    <3> QED BY <2>5, <3>1, <3>2, <3>3, <3>4
  <2>10. SeesInv'
        BY <2>9 DEF SeesInv
  <2> QED BY <2>7, <2>10 DEF PictureInv
<1>4. CASE Adopt(Own)
  <2>1. PICK m, c :
            /\ \/ wants.camera /\ c \in Cameras(TRUE, TRUE)
               \/ ~wants.camera /\ c = [to |-> capture, told |-> <<>>]
            /\ capture' = c.to
            /\ \A what : Waits("Camera", what)' <=>
                   Waits("Camera", what) \/ ~Lacks(c.told, Report("Camera", what))
        BY <1>4, AdoptOwn
  <2> DEFINE says(what) == ~Lacks(c.told, Report("Camera", what))
  <2>2. \A what : Waits("Camera", what)' <=> Waits("Camera", what) \/ says(what)
        BY <2>1
  <2>3. /\ c.to => capture \/ says("On")
        /\ \/ says("Failed") \/ (c.to /\ wants.camera)
           \/ ~wants.camera /\ c.to = capture
    <3>1. CASE wants.camera
          BY <1>0, <2>1, <3>1, CamerasSay
    <3>2. CASE ~wants.camera
      <4>1. c = [to |-> capture, told |-> <<>>]
            BY <2>1, <3>2
      <4>2. c.to = capture
            BY <4>1
      <4> QED BY <3>2, <4>2
    <3> QED BY <3>1, <3>2
  <2> HIDE DEF says
  <2>4. commands = <<>> /\ UNCHANGED <<camera, commands, wants>>
        BY <1>4 DEF Adopt, Idle, SessionMoves
  <2>5. ~ComesLast("Camera") /\ NotOff("Camera") /\ NotOff("Camera")'
    <3>1. Len(commands) = 0 /\ Len(commands') = 0
          BY <2>4
    <3> QED BY <3>1 DEF ComesLast, NotOff, Ends, Lacks
  <2>6. Publishing'
    <3>1. Own \in Servers /\ conns' = [conns EXCEPT ![Own] = "fresh"]
          BY <1>4 DEF Adopt, Servers
    <3>2. conns'[Own] = "fresh"
          BY <1>0, <3>1 DEF SessionTypes
    <3> QED BY <3>2 DEF Publishing
  <2>7. (Waits("Camera", "On") \/ says("On") => Waits("Camera", "On")')
        /\ (Waits("Camera", "Failed") \/ says("Failed") => Waits("Camera", "Failed")')
        BY <2>2
  <2>8. ASSUME camera' = "Starting", capture'
        PROVE  Waits("Camera", "On")' \/ Waits("Camera", "Failed")'
        BY <2>1, <2>3, <2>4, <2>5, <2>7, <2>8 DEF PictureInv, TakenInv
  <2>9. TakenInv'
        BY <2>6, <2>8 DEF TakenInv
  <2>10. ASSUME camera' \in {"Starting", "On"}
        PROVE  \/ Waits("Camera", "Failed")'
               \/ NotOff("Camera")' /\ capture'
                  /\ (camera' = "On" \/ Waits("Camera", "On")')
    <3>1. \/ Waits("Camera", "Failed")
          \/ capture /\ (camera = "On" \/ Waits("Camera", "On"))
          \/ ~capture /\ wants.camera
          BY <2>4, <2>5, <2>10 DEF PictureInv, SeesInv
    <3> QED BY <2>1, <2>3, <2>4, <2>5, <2>7, <3>1
  <2>11. SeesInv'
        BY <2>10 DEF SeesInv
  <2> QED BY <2>9, <2>11 DEF PictureInv
<1>5. ASSUME NEW s \in Servers, Adopt(s) \/ DialFails(s), ~Adopt(Own) PROVE PictureInv'
  <2>1. UNCHANGED <<camera, wants>>
        BY <1>5 DEF Adopt, DialFails, SessionMoves
  <2>2. capture' = capture
        BY <1>5, QueuesOfSession DEF DialFails
  <2> QED BY <1>1, <1>5, <2>1, <2>2, QueuesOfSession
<1>6. CASE CameraLost
  <2>1. /\ UNCHANGED <<camera, commands, conns>> /\ capture' = FALSE
        /\ Tell(<<Report("Camera", "Failed")>>)
        BY <1>6 DEF CameraLost, OnItsOwn
  <2>2. /\ Waits("Camera", "Failed")'
        /\ Waits("Camera", "On")' <=> Waits("Camera", "On")
        BY <1>0, <2>1, OneTold, ReportsAreEvents
  <2>3. Publishing' <=> Publishing
        BY <2>1 DEF Publishing
  <2> QED BY <2>1, <2>2, <2>3 DEF PictureInv, TakenInv, SeesInv
<1>7. ASSUME UNCHANGED <<camera, capture, wants, conns>>, OrdersOf({}),
             NEW reports \in {{}, {"Microphone"}, {"Sfu"}, {"Screen"}}, ReportsOf(reports)
      PROVE  PictureInv'
      BY <1>0, <1>7, PictureUntouched DEF Publishing
<1>8. CASE MicrophoneLost \/ MicrophoneReturns \/ ShareStarts \/ ShareFails \/ ShareEnds
           \/ SharingRefused
  <2>1. UNCHANGED <<camera, capture, wants, conns>>
        BY <1>8 DEF MicrophoneLost, MicrophoneReturns, ShareStarts, ShareFails, ShareEnds,
                    ShareGoesOn, SharingRefused, OnItsOwn
  <2> QED BY <1>7, <1>8, <2>1, QueuesOfSurroundings
<1>9. ASSUME NEW s \in Servers, PumpStarts(s) \/ Reconnects(s) \/ Wavers(s) \/ CutOff(s)
       PROVE  PictureInv'
  <2>1. UNCHANGED <<camera, capture, wants>>
        BY <1>9 DEF PumpStarts, Reconnects, Wavers, CutOff, Pump
  <2>2. OrdersOf({}) /\ ReportsOf({"Sfu"})
        BY <1>9, QueuesOfSurroundings
  <2>3. CASE Adopt(Own)
        BY <1>4, <2>3
  <2>4. CASE ~Adopt(Own)
        BY <1>1, <2>1, <2>2, <2>4
  <2> QED BY <2>3, <2>4
<1>10. CASE SessionStep
  <2>1. CASE Adopt(Own)
        BY <1>4, <2>1
  <2>2. CASE ~Adopt(Own)
        BY <1>2, <1>3, <1>5, <1>10, <2>2, QueuesOfSession DEF SessionStep
  <2> QED BY <2>1, <2>2
<1>11. CASE Surroundings
      BY <1>6, <1>8, <1>9, <1>11 DEF Surroundings
<1> QED BY <1>10, <1>11

-----------------------------------------------------------------------------
(* What is shown is so: the links *)

\* The reports of a server's connection that the app is yet to read: there is
\* none, or the last of them.
IsOf(r, s) == r.kind = "Sfu" /\ r.what[1] = s
Quiet(q, s) == \A i \in 1..Len(q) : ~IsOf(q[i], s)
LastSays(q, s, state) ==
    \E i \in 1..Len(q) :
        q[i] = SfuReport(s, state) /\ \A j \in (i + 1)..Len(q) : ~IsOf(q[j], s)

\* One order to connect to the server waits, and none to disconnect behind it.
OneConnect(q, s) ==
    \E i \in 1..Len(q) :
        /\ q[i] = Order("Connect", s)
        /\ \A j \in 1..Len(q) : /\ q[j] = Order("Connect", s) => j = i
                                /\ q[j] = Order("Disconnect", s) => j < i

\* A step of the queues that concerns other servers, or none.
OrdersBut(s) ==
    LET orders == {Order("Connect", s), Order("Disconnect", s)}
    IN \/ \E r \in Seq(Commands) :
             commands' = commands \o r /\ \A i \in 1..Len(r) : r[i] \notin orders
       \/ commands # <<>> /\ commands' = Tail(commands) /\ Head(commands) \notin orders
ReportsBut(s) ==
    \/ \E r \in Seq(Events) :
          events' = events \o r /\ \A i \in 1..Len(r) : ~IsOf(r[i], s)
    \/ events # <<>> /\ events' = Tail(events) /\ ~IsOf(Head(events), s)

\* Reports behind a queue, none of them the server's.
LEMMA SaysBehind ==
    ASSUME NEW A, NEW q \in Seq(A), NEW r \in Seq(A), NEW s, Quiet(r, s)
    PROVE  /\ Quiet(q, s) => Quiet(q \o r, s)
           /\ \A state : LastSays(q, s, state) => LastSays(q \o r, s, state)
<1>1. /\ Len(q) \in Nat /\ Len(r) \in Nat /\ Len(q \o r) = Len(q) + Len(r)
      /\ \A i \in 1..(Len(q) + Len(r)) :
             (q \o r)[i] = IF i <= Len(q) THEN q[i] ELSE r[i - Len(q)]
      BY ConcatProperties, LenProperties
<1>2. ASSUME NEW i \in 1..(Len(q) + Len(r)), i > Len(q) PROVE ~IsOf((q \o r)[i], s)
  <2>1. i - Len(q) \in 1..Len(r) /\ (q \o r)[i] = r[i - Len(q)]
        BY <1>1, <1>2
  <2> QED BY <2>1 DEF Quiet
<1>3. \A i \in 1..Len(q) : (q \o r)[i] = q[i] /\ i \in 1..Len(q \o r)
      BY <1>1
<1>4. ASSUME Quiet(q, s), NEW i \in 1..Len(q \o r) PROVE ~IsOf((q \o r)[i], s)
  <2>1. CASE i <= Len(q)
    <3>1. i \in 1..Len(q)
          BY <1>1, <2>1
    <3> QED BY <1>3, <1>4, <3>1 DEF Quiet
  <2>2. CASE i > Len(q)
        BY <1>1, <1>2, <2>2
  <2> QED BY <1>1, <2>1, <2>2
<1>5. ASSUME NEW state, LastSays(q, s, state) PROVE LastSays(q \o r, s, state)
  <2>1. PICK i \in 1..Len(q) :
            q[i] = SfuReport(s, state) /\ \A j \in (i + 1)..Len(q) : ~IsOf(q[j], s)
        BY <1>5 DEF LastSays
  <2>2. ASSUME NEW j \in (i + 1)..Len(q \o r) PROVE ~IsOf((q \o r)[j], s)
    <3>1. CASE j <= Len(q)
      <4>1. j \in (i + 1)..Len(q) /\ j \in 1..Len(q)
            BY <1>1, <3>1
      <4> QED BY <1>3, <2>1, <4>1
    <3>2. CASE j > Len(q)
      <4>1. j \in 1..(Len(q) + Len(r))
            BY <1>1
      <4> QED BY <1>2, <3>2, <4>1
    <3> QED BY <1>1, <3>1, <3>2
  <2>3. i \in 1..Len(q \o r) /\ (q \o r)[i] = SfuReport(s, state)
        BY <1>3, <2>1
  <2> QED BY <2>2, <2>3 DEF LastSays
<1> QED BY <1>4, <1>5 DEF Quiet

\* The first report taken away: if it was the server's last, none of the
\* server's is left.
LEMMA SaysAhead ==
    ASSUME NEW A, NEW q \in Seq(A), q # <<>>, NEW s
    PROVE  /\ Quiet(q, s) => ~IsOf(Head(q), s) /\ Quiet(Tail(q), s)
           /\ \A state : LastSays(q, s, state) =>
                  \/ LastSays(Tail(q), s, state)
                  \/ Head(q) = SfuReport(s, state) /\ Quiet(Tail(q), s)
<1>1. /\ Len(q) \in Nat \ {0} /\ Len(Tail(q)) = Len(q) - 1 /\ Head(q) = q[1]
      /\ \A i \in 1..Len(Tail(q)) : Tail(q)[i] = q[i + 1]
      BY HeadTailProperties, EmptySeq
<1>2. ASSUME Quiet(q, s) PROVE ~IsOf(Head(q), s) /\ Quiet(Tail(q), s)
  <2>1. \A i \in 1..Len(Tail(q)) : i + 1 \in 1..Len(q)
        BY <1>1
  <2> QED BY <1>1, <1>2, <2>1 DEF Quiet
<1>3. ASSUME NEW state, LastSays(q, s, state)
      PROVE  \/ LastSays(Tail(q), s, state)
             \/ Head(q) = SfuReport(s, state) /\ Quiet(Tail(q), s)
  <2>1. PICK i \in 1..Len(q) :
            q[i] = SfuReport(s, state) /\ \A j \in (i + 1)..Len(q) : ~IsOf(q[j], s)
        BY <1>3 DEF LastSays
  <2>2. CASE i = 1
    <3>1. \A j \in 1..Len(Tail(q)) : j + 1 \in (i + 1)..Len(q)
          BY <1>1, <2>2
    <3>2. \A j \in 1..Len(Tail(q)) : ~IsOf(Tail(q)[j], s)
          BY <1>1, <2>1, <3>1
    <3> QED BY <1>1, <2>1, <2>2, <3>2 DEF Quiet
  <2>3. CASE i # 1
    <3>1. i - 1 \in 1..Len(Tail(q)) /\ (i - 1) + 1 = i
          BY <1>1, <2>3
    <3>2. Tail(q)[i - 1] = SfuReport(s, state)
          BY <1>1, <2>1, <3>1
    <3>3. \A j \in ((i - 1) + 1)..Len(Tail(q)) : ~IsOf(Tail(q)[j], s)
      <4>1. \A j \in ((i - 1) + 1)..Len(Tail(q)) :
                j \in 1..Len(Tail(q)) /\ j + 1 \in (i + 1)..Len(q)
            BY <1>1, <2>3
      <4> QED BY <1>1, <2>1, <4>1
    <3> QED BY <3>1, <3>2, <3>3 DEF LastSays
  <2> QED BY <2>2, <2>3
<1> QED BY <1>2, <1>3

\* What is told of a server is the last that is told of it.
LEMMA SaysNow ==
    ASSUME BetweenTypes, call = "in", NEW s \in Servers, NEW state \in SfuStates,
           Tell(<<SfuReport(s, state)>>)
    PROVE  LastSays(events', s, state)
<1> DEFINE e == SfuReport(s, state)
<1>1. e \in Events /\ events \in Seq(Events)
      BY ReportsAreEvents DEF BetweenTypes
<1> HIDE DEF e
<1>2. events' = events \o <<e>> /\ <<e>> \in Seq(Events) /\ Len(<<e>>) = 1 /\ <<e>>[1] = e
      BY <1>1 DEF Tell, e
<1>3. /\ Len(events) \in Nat /\ Len(events') = Len(events) + 1
      /\ events'[Len(events) + 1] = e
  <2>1. /\ Len(events) \in Nat /\ Len(events \o <<e>>) = Len(events) + 1
        /\ \A i \in 1..(Len(events) + 1) :
               (events \o <<e>>)[i] = IF i <= Len(events) THEN events[i] ELSE <<e>>[i - Len(events)]
        BY <1>1, <1>2, ConcatProperties, LenProperties
  <2>2. Len(events) + 1 \in 1..(Len(events) + 1) /\ ~(Len(events) + 1 <= Len(events))
        /\ (Len(events) + 1) - Len(events) = 1
        BY <2>1
  <2> QED BY <1>2, <2>1, <2>2
<1>4. Len(events) + 1 \in 1..Len(events')
      /\ \A j \in ((Len(events) + 1) + 1)..Len(events') : FALSE
      BY <1>3
<1> QED BY <1>3, <1>4 DEF LastSays, e

\* Orders behind a queue, none of them to connect to the server or to
\* disconnect from it, and the first one, when it is not of these.
LEMMA OneConnectStays ==
    ASSUME NEW A, NEW q \in Seq(A), NEW s, OneConnect(q, s)
    PROVE  /\ \A r \in Seq(A) :
                 Lacks(r, Order("Connect", s)) /\ Lacks(r, Order("Disconnect", s))
                 => OneConnect(q \o r, s)
           /\ q # <<>> /\ Head(q) # Order("Connect", s) => OneConnect(Tail(q), s)
           /\ q # <<>> /\ Head(q) = Order("Connect", s) =>
                 Lacks(q, Order("Disconnect", s)) /\ Lacks(Tail(q), Order("Connect", s))
<1> DEFINE on == Order("Connect", s)
           off == Order("Disconnect", s)
<1>1. PICK i \in 1..Len(q) :
          q[i] = on /\ \A j \in 1..Len(q) : (q[j] = on => j = i) /\ (q[j] = off => j < i)
      BY DEF OneConnect
<1>2. ASSUME NEW r \in Seq(A), Lacks(r, on), Lacks(r, off) PROVE OneConnect(q \o r, s)
  <2>1. /\ Len(q) \in Nat /\ Len(r) \in Nat /\ Len(q \o r) = Len(q) + Len(r)
        /\ \A k \in 1..(Len(q) + Len(r)) :
               (q \o r)[k] = IF k <= Len(q) THEN q[k] ELSE r[k - Len(q)]
        BY ConcatProperties, LenProperties
  <2>2. i \in 1..Len(q \o r) /\ (q \o r)[i] = on
        BY <1>1, <2>1
  <2>3. ASSUME NEW j \in 1..Len(q \o r)
        PROVE  ((q \o r)[j] = on => j = i) /\ ((q \o r)[j] = off => j < i)
    <3>1. CASE j <= Len(q)
      <4>1. j \in 1..Len(q) /\ (q \o r)[j] = q[j]
            BY <2>1, <3>1
      <4> QED BY <1>1, <4>1
    <3>2. CASE j > Len(q)
      <4>1. j - Len(q) \in 1..Len(r) /\ (q \o r)[j] = r[j - Len(q)]
            BY <2>1, <3>2
      <4> QED BY <1>2, <4>1 DEF Lacks
    <3> QED BY <2>1, <3>1, <3>2
  <2> QED BY <2>2, <2>3 DEF OneConnect
<1>3. ASSUME q # <<>>
      PROVE  /\ Len(q) \in Nat \ {0} /\ Len(Tail(q)) = Len(q) - 1 /\ Head(q) = q[1]
             /\ \A k \in 1..Len(Tail(q)) : Tail(q)[k] = q[k + 1] /\ k + 1 \in 1..Len(q)
      BY <1>3, HeadTailProperties, EmptySeq
<1>4. ASSUME q # <<>>, Head(q) # on PROVE OneConnect(Tail(q), s)
  <2>1. i - 1 \in 1..Len(Tail(q)) /\ (i - 1) + 1 = i
        BY <1>1, <1>3, <1>4
  <2>2. Tail(q)[i - 1] = on
        BY <1>1, <1>3, <1>4, <2>1
  <2>3. ASSUME NEW j \in 1..Len(Tail(q))
        PROVE  (Tail(q)[j] = on => j = i - 1) /\ (Tail(q)[j] = off => j < i - 1)
    <3>1. Tail(q)[j] = q[j + 1] /\ j + 1 \in 1..Len(q)
          BY <1>3, <1>4
    <3>2. (q[j + 1] = on => j + 1 = i) /\ (q[j + 1] = off => j + 1 < i)
          BY <1>1, <3>1
    <3> QED BY <1>1, <3>1, <3>2
  <2> QED BY <2>1, <2>2, <2>3 DEF OneConnect
<1>5. ASSUME q # <<>>, Head(q) = on PROVE Lacks(q, off) /\ Lacks(Tail(q), on)
  <2>1. 1 \in 1..Len(q) /\ q[1] = on
        BY <1>3, <1>5
  <2>2. i = 1
        BY <1>1, <2>1
  <2>3. \A j \in 1..Len(q) : q[j] # off
        BY <1>1, <2>2
  <2>4. ASSUME NEW k \in 1..Len(Tail(q)) PROVE Tail(q)[k] # on
    <3>1. Tail(q)[k] = q[k + 1] /\ k + 1 \in 1..Len(q)
          BY <1>3, <1>5
    <3>2. q[k + 1] = on => k + 1 = 1
          BY <1>1, <2>2, <3>1
    <3> QED BY <3>1, <3>2
  <2> QED BY <2>3, <2>4 DEF Lacks
<1> QED BY <1>2, <1>4, <1>5

\* A step of other servers' orders leaves what waits for this one.
LEMMA ServerOrdersStay ==
    ASSUME BetweenTypes, NEW s, OrdersBut(s)
    PROVE  /\ Lacks(commands', Order("Connect", s)) <=> Lacks(commands, Order("Connect", s))
           /\ Lacks(commands', Order("Disconnect", s)) <=> Lacks(commands, Order("Disconnect", s))
           /\ OneConnect(commands, s) => OneConnect(commands', s)
<1> DEFINE on == Order("Connect", s)
           off == Order("Disconnect", s)
<1>1. commands \in Seq(Commands)
      BY DEF BetweenTypes
<1>2. CASE \E r \in Seq(Commands) :
              commands' = commands \o r /\ \A i \in 1..Len(r) : r[i] \notin {on, off}
  <2>1. PICK r \in Seq(Commands) :
            commands' = commands \o r /\ \A i \in 1..Len(r) : r[i] \notin {on, off}
        BY <1>2
  <2>2. Lacks(r, on) /\ Lacks(r, off)
        BY <2>1 DEF Lacks
  <2>3. /\ Lacks(commands', on) <=> Lacks(commands, on)
        /\ Lacks(commands', off) <=> Lacks(commands, off)
        BY <1>1, <2>1, <2>2, LacksBehind
  <2>4. OneConnect(commands, s) => OneConnect(commands', s)
        BY <1>1, <2>1, <2>2, OneConnectStays
  <2> QED BY <2>3, <2>4
<1>3. CASE commands # <<>> /\ commands' = Tail(commands) /\ Head(commands) \notin {on, off}
  <2>1. Head(commands) # on /\ Head(commands) # off
        BY <1>3
  <2> HIDE DEF on, off
  <2>2. /\ Lacks(commands, on) <=> Head(commands) # on /\ Lacks(Tail(commands), on)
        /\ Lacks(commands, off) <=> Head(commands) # off /\ Lacks(Tail(commands), off)
        BY <1>1, <1>3, LacksAhead
  <2>3. OneConnect(commands, s) => OneConnect(commands', s)
        BY <1>1, <1>3, <2>1, OneConnectStays DEF on
  <2>4. /\ Lacks(commands', on) <=> Lacks(commands, on)
        /\ Lacks(commands', off) <=> Lacks(commands, off)
        BY <1>3, <2>1, <2>2
  <2> QED BY <2>3, <2>4 DEF on, off
<1> QED BY <1>2, <1>3 DEF OrdersBut

\* A step of other servers' reports leaves what is told of this one.
LEMMA ServerReportsStay ==
    ASSUME BetweenTypes, NEW s, ReportsBut(s)
    PROVE  /\ Quiet(events, s) => Quiet(events', s)
           /\ \A state : LastSays(events, s, state) => LastSays(events', s, state)
<1>1. events \in Seq(Events)
      BY DEF BetweenTypes
<1>2. CASE \E r \in Seq(Events) :
              events' = events \o r /\ \A i \in 1..Len(r) : ~IsOf(r[i], s)
  <2>1. PICK r \in Seq(Events) : events' = events \o r /\ Quiet(r, s)
        BY <1>2 DEF Quiet
  <2> QED BY <1>1, <2>1, SaysBehind
<1>3. CASE events # <<>> /\ events' = Tail(events) /\ ~IsOf(Head(events), s)
  <2>1. \A state : Head(events) # SfuReport(s, state)
        BY <1>3 DEF IsOf, SfuReport
  <2> QED BY <1>1, <1>3, <2>1, SaysAhead
<1> QED BY <1>2, <1>3 DEF ReportsBut

\* A step that touches no order or no report of a server's kinds.
LEMMA QueuesBut ==
    ASSUME NEW s, NEW kinds
    PROVE  /\ OrdersOf(kinds) /\ "Connect" \notin kinds /\ "Disconnect" \notin kinds => OrdersBut(s)
           /\ ReportsOf(kinds) /\ "Sfu" \notin kinds => ReportsBut(s)
<1>1. ASSUME OrdersOf(kinds), "Connect" \notin kinds, "Disconnect" \notin kinds
      PROVE  OrdersBut(s)
  <2>1. \A c : c.kind \in kinds => c \notin {Order("Connect", s), Order("Disconnect", s)}
        BY <1>1 DEF Order
  <2> QED BY <1>1, <2>1 DEF OrdersOf, OrdersBut
<1>2. ASSUME ReportsOf(kinds), "Sfu" \notin kinds PROVE ReportsBut(s)
  <2>1. \A e : e.kind \in kinds => ~IsOf(e, s)
        BY <1>2 DEF IsOf
  <2> QED BY <1>2, <2>1 DEF ReportsOf, ReportsBut
<1> QED BY <1>1, <1>2

\* One order of another server, and one report of another.
LEMMA OneBut ==
    ASSUME BetweenTypes, call = "in", NEW s \in Servers, NEW x \in Servers, x # s
    PROVE  /\ \A kind : commands # <<>> /\ commands' = Tail(commands)
                        /\ Head(commands) = Order(kind, x) => OrdersBut(s)
           /\ commands' = Append(commands, Order("Connect", x)) => OrdersBut(s)
           /\ \A state \in SfuStates : Tell(<<SfuReport(x, state)>>) => ReportsBut(s)
           /\ events' = events => ReportsBut(s)
           /\ commands' = commands => OrdersBut(s)
<1>1. commands \in Seq(Commands)
      BY DEF BetweenTypes
<1>2. \A kind : Order(kind, x) \notin {Order("Connect", s), Order("Disconnect", s)}
      BY DEF Order
<1>3. ASSUME commands' = Append(commands, Order("Connect", x)) PROVE OrdersBut(s)
  <2> DEFINE c == Order("Connect", x)
             r == <<c>>
  <2>1. c \in Commands /\ c \notin {Order("Connect", s), Order("Disconnect", s)}
        BY <1>2, OrdersAreCommands
  <2> HIDE DEF c
  <2>2. r \in Seq(Commands) /\ \A i \in 1..Len(r) : r[i] = c
        BY <2>1
  <2>3. commands' = commands \o r
        BY <1>1, <1>3, <2>1, AppendIsConcat DEF c
  <2> HIDE DEF r
  <2> QED BY <2>1, <2>2, <2>3 DEF OrdersBut
<1>4. ASSUME NEW state \in SfuStates, Tell(<<SfuReport(x, state)>>) PROVE ReportsBut(s)
  <2> DEFINE e == SfuReport(x, state)
             r == <<e>>
  <2>1. e \in Events /\ ~IsOf(e, s)
        BY ReportsAreEvents DEF IsOf, SfuReport
  <2>2. events' = events \o r
        BY <1>4 DEF Tell
  <2> HIDE DEF e
  <2>3. r \in Seq(Events) /\ \A i \in 1..Len(r) : r[i] = e
        BY <2>1
  <2> HIDE DEF r
  <2> QED BY <2>1, <2>2, <2>3 DEF ReportsBut
<1>5. (events' = events => ReportsBut(s)) /\ (commands' = commands => OrdersBut(s))
      BY QueuesOfOne, QueuesBut
<1> QED BY <1>2, <1>3, <1>4, <1>5 DEF OrdersBut

\* How it is with the connection to a server, and what will be shown of it when
\* all that is told of it is read.
Truth(s) ==
    IF s \in dialling \/ conns[s] = "fresh" THEN "Connecting"
    ELSE IF conns[s] = "up" THEN "Connected"
    ELSE IF conns[s] = "reconnecting" THEN "Reconnecting" ELSE "Failed"
WillShow(s, link) ==
    \/ Quiet(events, s) /\ links[s] = link
    \/ \E state \in SfuStates : LastSays(events, s, state) /\ LinkAfter(state) = link

\* Nothing is left of the link before, but an order to disconnect from it.
Gone(s) ==
    /\ s \notin dialling /\ conns[s] \in {"none", "dead"}
    /\ conns[s] = "dead" => ~Lacks(commands, Order("Disconnect", s))
    /\ Quiet(events, s)

\* The three ages of a link: its grant is asked for; the order to connect is on
\* its way; and it shows, or will show, what has become of the connection.
Asked(s) ==
    grants[s] = 1 /\ links[s] = "Asking" /\ Lacks(commands, Order("Connect", s)) /\ Gone(s)
Granting(s) ==
    grants[s] = 0 /\ links[s] = "Connecting" /\ OneConnect(commands, s) /\ Gone(s)
Linked(s) ==
    /\ grants[s] = 0 /\ Lacks(commands, Order("Connect", s))
    /\ Lacks(commands, Order("Disconnect", s)) \/ Truth(s) = "Failed"
    /\ s \in dialling => conns[s] = "none"
    /\ WillShow(s, Truth(s))
LinkOk(s) == links[s] # "none" => Asked(s) \/ Granting(s) \/ Linked(s)
LinksInv == call = "in" => \A s \in Servers \ hasty : LinkOk(s)

\* At first every link is asked for.
LEMMA InitLinksInv == Init => LinksInv
<1> SUFFICES ASSUME Init, NEW s \in Servers, links[s] # "none" PROVE Asked(s)
    BY DEF LinksInv, LinkOk
<1>1. grants[s] = 1 /\ links[s] = "Asking"
      BY DEF Init
<1>2. Lacks(commands, Order("Connect", s))
      BY InitOrders
<1>3. s \notin dialling /\ conns[s] = "none"
      BY DEF Init, NoConns
<1>4. Quiet(events, s)
  <2>1. Len(events) = 0
        BY DEF Init
  <2> QED BY <2>1 DEF Quiet
<1> QED BY <1>1, <1>2, <1>3, <1>4 DEF Asked, Gone

\* A step that concerns another server, or none.
LEMMA LinkUntouched ==
    ASSUME BetweenTypes, NEW s \in Servers, LinkOk(s),
           links'[s] = links[s], grants'[s] = grants[s], conns'[s] = conns[s],
           s \in dialling' <=> s \in dialling,
           OrdersBut(s), ReportsBut(s)
    PROVE  LinkOk(s)'
<1>1. /\ Lacks(commands', Order("Connect", s)) <=> Lacks(commands, Order("Connect", s))
      /\ Lacks(commands', Order("Disconnect", s)) <=> Lacks(commands, Order("Disconnect", s))
      /\ OneConnect(commands, s) => OneConnect(commands', s)
      BY ServerOrdersStay
<1>2. /\ Quiet(events, s) => Quiet(events', s)
      /\ \A state : LastSays(events, s, state) => LastSays(events', s, state)
      BY ServerReportsStay
<1>3. Truth(s)' = Truth(s)
      BY DEF Truth
<1>4. Gone(s) => Gone(s)'
      BY <1>1, <1>2 DEF Gone
<1>5. Asked(s) => Asked(s)'
      BY <1>1, <1>4 DEF Asked
<1>6. Granting(s) => Granting(s)'
      BY <1>1, <1>4 DEF Granting
<1>7. WillShow(s, Truth(s)) => WillShow(s, Truth(s))'
      BY <1>2, <1>3 DEF WillShow
<1>8. Linked(s) => Linked(s)'
      BY <1>1, <1>3, <1>7 DEF Linked
<1> QED BY <1>5, <1>6, <1>8 DEF LinkOk

\* When all is asked for anew that failed, what is asked for is a new link.
LEMMA LinksOfMembers ==
    ASSUME TypeOK, ServerInv, LinksInv, call = "in",
           NEW members \in SUBSET Others, MembersChanged(members),
           NEW s \in Servers \ hasty'
    PROVE  LinkOk(s)'
<1>0. BetweenTypes /\ AppTypes /\ SessionTypes
      BY TypesOfTypeOK
<1> DEFINE asked == Unlinked(members) \cup Retried(members)
           cut == Cuts(Dropped(members))
           again == Cuts(Retried(members))
           on == Order("Connect", s)
           off == Order("Disconnect", s)
<1>1. /\ links' = [x \in Servers |-> IF x \in Dropped(members) THEN "none"
                                     ELSE IF x \in asked THEN "Asking" ELSE links[x]]
      /\ commands' = (commands \o cut) \o again
      /\ grants' = [x \in Servers |-> IF x \in asked THEN grants[x] + 1 ELSE grants[x]]
      /\ hasty' = (hasty \ asked) \cup {x \in asked : ~DoneWith(x)}
      /\ UNCHANGED <<events, dialling, conns>>
      BY DEF MembersChanged, Replan, Cuts, sfus
<1>2. /\ Dropped(members) \in SUBSET Servers /\ Retried(members) \in SUBSET Servers
      /\ asked \subseteq Servers /\ asked \cap Dropped(members) = {}
      BY DEF Dropped, Retried, Unlinked, Targets, Servers
<1>3. /\ cut \in Seq(Commands) /\ again \in Seq(Commands) /\ commands \in Seq(Commands)
      /\ \A i \in 1..Len(cut) : cut[i].kind = "Disconnect"
      /\ \A i \in 1..Len(again) : again[i].kind = "Disconnect"
      /\ s \in Retried(members) => \E i \in 1..Len(again) : again[i] = off
      BY <1>0, <1>2, CutsFacts DEF BetweenTypes
<1>4. /\ s \notin Dropped(members) => Lacks(cut, off)
      /\ s \notin Retried(members) => Lacks(again, off)
      BY <1>2, CutsOnly
<1>5. events' = events => ReportsBut(s)
      BY <1>0, QueuesOfOne, QueuesBut
<1> HIDE DEF cut, again
<1>6. Lacks(cut, on) /\ Lacks(again, on)
      BY <1>3 DEF Lacks, Order
<1>7. /\ commands \o cut \in Seq(Commands) /\ cut \o again \in Seq(Commands)
      /\ commands' = commands \o (cut \o again)
      BY <1>1, <1>3, ConcatProperties, ConcatAssociative
<1>8. /\ \A x : Lacks(cut \o again, x) <=> Lacks(cut, x) /\ Lacks(again, x)
      /\ \A x : Lacks(commands', x) <=> Lacks(commands, x) /\ Lacks(cut \o again, x)
      BY <1>3, <1>7, LacksBehind
<1>9. CASE s \in Dropped(members)
  <2>1. links'[s] = "none"
        BY <1>1, <1>9
  <2> QED BY <2>1 DEF LinkOk
<1>10. CASE s \in asked
  <2>1. DoneWith(s)
        BY <1>1, <1>10
  <2>2. /\ grants[s] = 0 /\ s \notin dialling /\ conns[s] \in {"none", "dead"}
        /\ Lacks(commands, on) /\ Lacks(commands, off) /\ Quiet(events, s)
    <3>1. DOMAIN commands = 1..Len(commands) /\ DOMAIN events = 1..Len(events)
          BY <1>0, LenProperties DEF BetweenTypes
    <3>2. Lacks(commands, on) /\ Lacks(commands, off)
          BY <2>1, <3>1 DEF DoneWith, Lacks, Order
    <3>3. Quiet(events, s)
          BY <2>1, <3>1 DEF DoneWith, Quiet, IsOf
    <3> QED BY <2>1, <3>2, <3>3 DEF DoneWith
  <2>3. grants'[s] = 1 /\ links'[s] = "Asking"
        BY <1>1, <1>2, <1>10, <2>2
  <2>4. Lacks(commands', on)
        BY <1>6, <1>8, <2>2
  <2>5. conns[s] = "dead" => ~Lacks(commands', off)
    <3>1. CASE s \in Retried(members)
      <4>1. ~Lacks(again, off)
            BY <1>3, <3>1 DEF Lacks
      <4> QED BY <1>8, <4>1
    <3>2. CASE s \in Unlinked(members)
      <4>1. links[s] = "none"
            BY <3>2 DEF Unlinked
      <4>2. Cut(s)
            BY <4>1 DEF ServerInv, CutInv
      <4>3. ~Ends(commands, off, on)
            BY <2>2 DEF Ends, Lacks
      <4> QED BY <4>2, <4>3 DEF Cut
    <3> QED BY <1>10, <3>1, <3>2
  <2>6. Gone(s)'
        BY <1>1, <2>2, <2>5 DEF Gone
  <2> QED BY <2>3, <2>4, <2>6 DEF LinkOk, Asked
<1>11. CASE s \notin Dropped(members) /\ s \notin asked
  <2>1. s \notin hasty
        BY <1>1, <1>11
  <2>2. LinkOk(s)
        BY <2>1 DEF LinksInv
  <2>3. links'[s] = links[s] /\ grants'[s] = grants[s]
        BY <1>1, <1>11
  <2>4. Lacks(cut \o again, on) /\ Lacks(cut \o again, off)
        BY <1>4, <1>6, <1>8, <1>11
  <2>5. OrdersBut(s)
        BY <1>7, <2>4 DEF OrdersBut, Lacks
  <2> QED BY <1>0, <1>1, <1>5, <2>2, <2>3, <2>5, LinkUntouched
<1> QED BY <1>9, <1>10, <1>11

\* LinksInv is kept by what the user and the app do.
LEMMA LinksAppStep ==
    ASSUME TypeOK, ServerInv, OwnInv, LinksInv, call = "in", call' = "in", AppStep \/ UserStep
    PROVE  LinksInv'
<1>0. BetweenTypes /\ AppTypes
      BY TypesOfTypeOK
<1> USE DEF app, shown, own, sfus
<1>1. ASSUME UNCHANGED <<links, grants, sfus, hasty>>,
             NEW orders \in {{}, {"Microphone"}, {"Camera"}, {"ScreenShare"}}, OrdersOf(orders),
             NEW reports \in {{}, {"Microphone"}, {"Camera"}, {"Screen"}}, ReportsOf(reports)
      PROVE  LinksInv'
  <2> SUFFICES ASSUME NEW s \in Servers \ hasty PROVE LinkOk(s)'
      BY <1>1 DEF LinksInv
  <2>1. OrdersBut(s) /\ ReportsBut(s)
        BY <1>1, QueuesBut
  <2>2. LinkOk(s)
        BY DEF LinksInv
  <2> QED BY <1>0, <1>1, <2>1, <2>2, LinkUntouched
<1>2. ASSUME NEW on \in BOOLEAN, SetMicrophone(on) \/ SetCamera(on) \/ SetScreenShare(on)
      PROVE  LinksInv'
  <2>1. UNCHANGED <<links, grants, sfus, hasty>>
        BY <1>2 DEF SetMicrophone, SetCamera, SetScreenShare, UserOrders
  <2> QED BY <1>1, <1>2, <2>1, QueuesOfUser
<1>3. CASE ChangeScreenShare
  <2>1. UNCHANGED <<links, grants, sfus, hasty>>
        BY <1>3 DEF ChangeScreenShare, UserOrders
  <2> QED BY <1>1, <1>3, <2>1, QueuesOfUser
<1>4. ASSUME NEW members \in SUBSET Others, MembersChanged(members) PROVE LinksInv'
      BY <1>4, LinksOfMembers DEF LinksInv
<1>5. CASE MicrophoneReported \/ CameraReported \/ ScreenReported
  <2>1. UNCHANGED <<links, grants, sfus, hasty>>
        BY <1>5 DEF MicrophoneReported, CameraReported, ScreenReported, HandlesReport
  <2> QED BY <1>1, <1>5, <2>1, QueuesOfApp
\* A grant
<1>6. ASSUME NEW x \in Servers, Granted(x) PROVE LinksInv'
  <2>1. /\ grants[x] > 0 /\ grants' = [grants EXCEPT ![x] = @ - 1]
        /\ UNCHANGED <<events, dialling, conns, hasty>>
        BY <1>6 DEF Granted
  <2> SUFFICES ASSUME NEW s \in Servers \ hasty PROVE LinkOk(s)'
      BY <2>1 DEF LinksInv
  <2>2. LinkOk(s)
        BY DEF LinksInv
  <2>3. CASE s # x
    <3>1. links'[s] = links[s] /\ grants'[s] = grants[s]
          BY <1>0, <1>6, <2>1, <2>3 DEF Granted, ConnectGranted, AppTypes, BetweenTypes
    <3>2. commands' = commands \/ commands' = Append(commands, Order("Connect", x))
          BY <1>6 DEF Granted, ConnectGranted
    <3>3. OrdersBut(s) /\ ReportsBut(s)
          BY <1>0, <2>1, <2>3, <3>2, OneBut
    <3> QED BY <1>0, <2>1, <2>2, <3>1, <3>3, LinkUntouched
  <2>4. CASE s = x /\ links[s] = "none"
    <3>1. links' = links
          BY <1>6, <2>4 DEF Granted, ConnectGranted
    <3> QED BY <2>4, <3>1 DEF LinkOk
  <2>5. CASE s = x /\ links[s] # "none"
    <3>1. /\ links'[s] = "Connecting" /\ commands' = Append(commands, Order("Connect", s))
          BY <1>0, <1>6, <2>5 DEF Granted, ConnectGranted, AppTypes
    <3>2. Asked(s)
          BY <2>1, <2>2, <2>5 DEF LinkOk, Granting, Linked
    <3>3. grants'[s] = 0
          BY <1>0, <2>1, <2>5, <3>2 DEF Asked, BetweenTypes
    <3> DEFINE on == Order("Connect", s)
               off == Order("Disconnect", s)
    <3>4. on \in Commands /\ on # off /\ commands \in Seq(Commands)
          BY <1>0, OrdersAreCommands DEF Order, BetweenTypes
    <3>5. Lacks(commands, on) /\ Gone(s)
          BY <3>2 DEF Asked
    <3> HIDE DEF on, off
    <3>6. /\ Len(commands) \in Nat /\ Len(commands') = Len(commands) + 1
          /\ commands'[Len(commands) + 1] = on
          /\ \A i \in 1..Len(commands) : commands'[i] = commands[i]
          BY <3>1, <3>4, AppendProperties, LenProperties DEF on
    <3>7. OneConnect(commands', s)
      <4>1. Len(commands) + 1 \in 1..Len(commands')
            BY <3>6
      <4>2. ASSUME NEW j \in 1..Len(commands')
            PROVE  /\ commands'[j] = on => j = Len(commands) + 1
                   /\ commands'[j] = off => j < Len(commands) + 1
        <5>1. CASE j \in 1..Len(commands)
          <6>1. commands'[j] = commands[j] /\ commands[j] # on
                BY <3>5, <3>6, <5>1 DEF Lacks
          <6> QED BY <3>6, <5>1, <6>1
        <5>2. CASE j = Len(commands) + 1
              BY <3>4, <3>6, <5>2
        <5> QED BY <3>6, <5>1, <5>2
      <4> QED BY <3>6, <4>1, <4>2 DEF OneConnect, on, off
    <3>8. ~Lacks(commands, off) => ~Lacks(commands', off)
      <4>1. \A i \in 1..Len(commands) : i \in 1..Len(commands')
            BY <3>6
      <4> QED BY <3>6, <4>1 DEF Lacks
    <3>9. Gone(s)'
          BY <2>1, <3>5, <3>8 DEF Gone, off
    <3> QED BY <3>1, <3>3, <3>7, <3>9 DEF LinkOk, Granting
  <2> QED BY <2>3, <2>4, <2>5
\* A refusal
<1>7. ASSUME NEW x \in Servers, GrantRefused(x) PROVE LinksInv'
  <2>1. x # Own
        BY <1>7 DEF GrantRefused, EndCall
  <2>2. /\ grants[x] > 0 /\ grants' = [grants EXCEPT ![x] = @ - 1]
        /\ links' = [links EXCEPT ![x] = IF @ = "none" THEN @ ELSE "Failed"]
        /\ UNCHANGED <<commands, events, dialling, conns, hasty>>
        BY <1>7, <2>1 DEF GrantRefused
  <2> SUFFICES ASSUME NEW s \in Servers \ hasty PROVE LinkOk(s)'
      BY <2>2 DEF LinksInv
  <2>3. LinkOk(s)
        BY DEF LinksInv
  <2>4. CASE s # x
    <3>1. links'[s] = links[s] /\ grants'[s] = grants[s]
          BY <1>0, <2>2, <2>4 DEF AppTypes, BetweenTypes
    <3>2. OrdersBut(s) /\ ReportsBut(s)
          BY <1>0, <2>2, <2>4, OneBut
    <3> QED BY <1>0, <2>2, <2>3, <3>1, <3>2, LinkUntouched
  <2>5. CASE s = x /\ links[s] = "none"
    <3>1. links'[s] = "none"
          BY <1>0, <2>2, <2>5 DEF AppTypes
    <3> QED BY <3>1 DEF LinkOk
  <2>6. CASE s = x /\ links[s] # "none"
    <3>1. links'[s] = "Failed"
          BY <1>0, <2>2, <2>6 DEF AppTypes
    <3>2. Asked(s)
          BY <2>2, <2>3, <2>6 DEF LinkOk, Granting, Linked
    <3>3. grants'[s] = 0
          BY <1>0, <2>2, <2>6, <3>2 DEF Asked, BetweenTypes
    <3>4. Truth(s)' = "Failed"
          BY <2>2, <3>2 DEF Asked, Gone, Truth
    <3>5. Linked(s)'
          BY <2>2, <3>1, <3>2, <3>3, <3>4 DEF Asked, Gone, Linked, WillShow
    <3> QED BY <3>5 DEF LinkOk
  <2> QED BY <2>4, <2>5, <2>6
\* A report of a connection
<1>8. CASE SfuReported
  <2>1. ~EndCall
        BY DEF EndCall
  <2>2. /\ Reported("Sfu") /\ events' = Tail(events)
        /\ links' = [links EXCEPT ![Told[1]] = IF @ = "none" THEN @ ELSE LinkAfter(Told[2])]
        /\ UNCHANGED <<commands, grants, dialling, conns, hasty>>
        BY <1>8, <2>1 DEF SfuReported, HandlesReport
  <2>3. /\ Told[1] \in Servers /\ Told[2] \in SfuStates
        /\ events \in Seq(Events) /\ events # <<>>
        BY <1>0, <2>2, ReportTypes DEF Reported, BetweenTypes
  <2>4. Head(events) \in Events /\ Head(events).kind = "Sfu"
        BY <2>2, <2>3, HeadTailProperties DEF Reported
  <2> SUFFICES ASSUME NEW s \in Servers \ hasty PROVE LinkOk(s)'
      BY <2>2 DEF LinksInv
  <2>5. LinkOk(s)
        BY DEF LinksInv
  <2>6. CASE s # Told[1]
    <3>1. links'[s] = links[s]
          BY <1>0, <2>2, <2>3, <2>6 DEF AppTypes
    <3>2. ~IsOf(Head(events), s)
          BY <2>6 DEF IsOf, Told
    <3>3. OrdersBut(s)
          BY <1>0, <2>2, <2>3, <2>6, OneBut
    <3>4. ReportsBut(s)
          BY <2>2, <2>3, <3>2 DEF ReportsBut
    <3> QED BY <1>0, <2>2, <2>5, <3>1, <3>3, <3>4, LinkUntouched
  <2>7. CASE s = Told[1] /\ links[s] = "none"
    <3>1. links'[s] = "none"
          BY <1>0, <2>2, <2>7 DEF AppTypes
    <3> QED BY <3>1 DEF LinkOk
  <2>8. CASE s = Told[1] /\ links[s] # "none"
    <3>1. links'[s] = LinkAfter(Told[2])
          BY <1>0, <2>2, <2>8 DEF AppTypes
    <3>2. IsOf(Head(events), s)
          BY <2>4, <2>8 DEF IsOf, Told
    <3>3. ~Quiet(events, s)
          BY <2>3, <3>2, SaysAhead
    <3>4. Linked(s)
          BY <2>5, <2>8, <3>3 DEF LinkOk, Asked, Granting, Gone
    <3>5. PICK state \in SfuStates : LastSays(events, s, state) /\ LinkAfter(state) = Truth(s)
          BY <3>3, <3>4 DEF Linked, WillShow
    <3>6. \/ LastSays(events', s, state)
          \/ Head(events) = SfuReport(s, state) /\ Quiet(events', s)
          BY <2>2, <2>3, <3>5, SaysAhead
    <3>7. Head(events) = SfuReport(s, state) => Told[2] = state
          BY DEF SfuReport, Told
    <3>8. Truth(s)' = Truth(s)
          BY <2>2 DEF Truth
    <3>9. WillShow(s, Truth(s))'
          BY <3>1, <3>5, <3>6, <3>7, <3>8 DEF WillShow
    <3>10. Linked(s)'
          BY <2>2, <3>4, <3>8, <3>9 DEF Linked
    <3> QED BY <3>10 DEF LinkOk
  <2> QED BY <2>6, <2>7, <2>8
<1>9. CASE AppStep
      BY <1>5, <1>6, <1>7, <1>8, <1>9 DEF AppStep
<1>10. CASE UserStep
      BY <1>2, <1>3, <1>4, <1>10, QueuesOfUser DEF UserStep
<1> QED BY <1>9, <1>10

\* A step that leaves the links and the grants, and of the session what is not
\* the server's.
LEMMA LinkOfOthers ==
    ASSUME TypeOK, LinksInv, call = "in", NEW x \in Servers,
           UNCHANGED <<links, grants, hasty>>,
           \A s \in Servers \ {x} : /\ conns'[s] = conns[s] /\ (s \in dialling' <=> s \in dialling)
                                    /\ OrdersBut(s) /\ ReportsBut(s),
           x \notin hasty => LinkOk(x)'
    PROVE  LinksInv'
<1>0. BetweenTypes
      BY TypesOfTypeOK
<1> SUFFICES ASSUME NEW s \in Servers \ hasty PROVE LinkOk(s)'
    BY DEF LinksInv
<1>1. CASE s # x
  <2>1. LinkOk(s)
        BY DEF LinksInv
  <2> QED BY <1>0, <1>1, <2>1, LinkUntouched
<1>2. CASE s = x
      BY <1>2
<1> QED BY <1>1, <1>2

\* LinksInv is kept by what the session carries out: an order to connect finds
\* nothing left of the link before, and what the connection does is told last.
LEMMA LinksSessionStep ==
    ASSUME TypeOK, LinksInv, call = "in", call' = "in", SessionStep \/ Surroundings
    PROVE  LinksInv'
<1>0. BetweenTypes /\ SessionTypes
      BY TypesOfTypeOK
<1> USE DEF app, shown, own, sfus
<1>1. ASSUME UNCHANGED <<links, grants, sfus, hasty>>,
             NEW orders \in {{}, {"Microphone"}, {"Camera"}, {"ScreenShare"}}, OrdersOf(orders),
             NEW reports \in {{}, {"Microphone"}, {"Camera"}, {"Screen"}}, ReportsOf(reports)
      PROVE  LinksInv'
  <2> SUFFICES ASSUME NEW s \in Servers \ hasty PROVE LinkOk(s)'
      BY <1>1 DEF LinksInv
  <2>1. OrdersBut(s) /\ ReportsBut(s)
        BY <1>1, QueuesBut
  <2>2. LinkOk(s)
        BY DEF LinksInv
  <2> QED BY <1>0, <1>1, <2>1, <2>2, LinkUntouched
<1>2. CASE Open \/ SwitchMicrophone \/ SwitchCamera \/ SwitchScreen
  <2>1. UNCHANGED <<links, grants, sfus, hasty>>
        BY <1>2 DEF Open, SwitchMicrophone, SwitchCamera, SwitchScreen, Applies, SessionMoves
  <2> QED BY <1>1, <1>2, <2>1, QueuesOfSession
<1>3. CASE MicrophoneLost \/ MicrophoneReturns \/ CameraLost \/ ShareStarts \/ ShareFails
           \/ ShareEnds \/ SharingRefused
  <2>1. UNCHANGED <<links, grants, sfus, hasty>>
        BY <1>3 DEF MicrophoneLost, MicrophoneReturns, CameraLost, ShareStarts, ShareFails,
                    ShareEnds, ShareGoesOn, SharingRefused, OnItsOwn
  <2> QED BY <1>1, <1>3, <2>1, QueuesOfSurroundings
\* An order to connect or to disconnect
<1>4. ASSUME NEW kind \in {"Connect", "Disconnect"}, Ordered(kind), Applies
      PROVE  /\ Wanted \in Servers /\ commands # <<>> /\ commands' = Tail(commands)
             /\ Head(commands) = Order(kind, Wanted) /\ UNCHANGED <<links, grants, hasty>>
             /\ \A s \in Servers \ {Wanted} : OrdersBut(s)
  <2>1. /\ Wanted \in Servers /\ commands # <<>> /\ commands' = Tail(commands)
        /\ Head(commands) = Order(kind, Wanted) /\ UNCHANGED <<links, grants, hasty>>
        BY <1>0, <1>4, OrderTypes DEF Ordered, Applies, SessionMoves
  <2>2. \A s \in Servers \ {Wanted} : OrdersBut(s)
        BY <1>0, <2>1, OneBut
  <2> QED BY <2>1, <2>2
<1>5. CASE Connect
  <2>1. PICK s \in Servers :
            /\ s = Wanted /\ commands # <<>> /\ commands' = Tail(commands)
            /\ Head(commands) = Order("Connect", s) /\ UNCHANGED <<links, grants, hasty, conns>>
            /\ \A y \in Servers \ {s} : OrdersBut(y)
    <3>1. Ordered("Connect") /\ Applies /\ UNCHANGED conns
          BY <1>5 DEF Connect
    <3> QED BY <1>4, <3>1
  <2>2. \/ (s \in dialling \/ conns[s] # "none") /\ UNCHANGED <<dialling, events>>
        \/ /\ s \notin dialling /\ conns[s] = "none" /\ dialling' = dialling \cup {s}
           /\ Tell(<<SfuReport(s, "Connecting")>>)
        BY <1>5, <2>1 DEF Connect
  <2> DEFINE on == Order("Connect", s)
             off == Order("Disconnect", s)
  <2>3. "Connecting" \in SfuStates
        BY DEF SfuStates
  <2>4. \A y \in Servers \ {s} : ReportsBut(y)
        BY <1>0, <2>1, <2>2, <2>3, OneBut
  <2>5. \A y \in Servers \ {s} : conns'[y] = conns[y] /\ (y \in dialling' <=> y \in dialling)
        BY <2>1, <2>2
  <2>6. ASSUME s \notin hasty, links'[s] # "none" PROVE Linked(s)'
    <3>1. LinkOk(s) /\ links[s] # "none"
          BY <2>1, <2>6 DEF LinksInv
    <3>2. commands \in Seq(Commands)
          BY <1>0 DEF BetweenTypes
    <3>3. ~Lacks(commands, on)
          BY <2>1, <3>2, LacksAhead
    <3>4. Granting(s)
          BY <3>1, <3>3 DEF LinkOk, Asked, Linked
    <3>5. Lacks(commands, off) /\ Lacks(commands', on)
          BY <2>1, <3>2, <3>4, OneConnectStays DEF Granting
    <3>6. Lacks(commands', off)
          BY <2>1, <3>2, <3>5, LacksAhead
    <3>7. s \notin dialling /\ conns[s] = "none"
          BY <3>4, <3>5 DEF Granting, Gone
    <3>8. s \in dialling' /\ conns'[s] = "none" /\ LastSays(events', s, "Connecting")
          BY <1>0, <2>1, <2>2, <2>3, <3>7, SaysNow
    <3>9. Truth(s)' = "Connecting" /\ LinkAfter("Connecting") = "Connecting"
          BY <3>8 DEF Truth, LinkAfter
    <3>10. WillShow(s, Truth(s))'
          BY <2>3, <3>8, <3>9 DEF WillShow
    <3>11. grants'[s] = 0
          BY <2>1, <3>4 DEF Granting
    <3> QED BY <3>5, <3>6, <3>8, <3>10, <3>11 DEF Linked
  <2>7. s \notin hasty => LinkOk(s)'
        BY <2>6 DEF LinkOk
  <2> QED BY <2>1, <2>4, <2>5, <2>7, LinkOfOthers
<1>6. CASE Disconnect
  <2>1. PICK s \in Servers :
            /\ s = Wanted /\ commands # <<>> /\ commands' = Tail(commands)
            /\ Head(commands) = Order("Disconnect", s) /\ UNCHANGED <<links, grants, hasty>>
            /\ \A y \in Servers \ {s} : OrdersBut(y)
    <3>1. Ordered("Disconnect") /\ Applies
          BY <1>6 DEF Disconnect
    <3> QED BY <1>4, <3>1
  <2>2. /\ dialling' = dialling \ {s} /\ conns' = [conns EXCEPT ![s] = "none"]
        /\ \/ events' = events
           \/ conns[s] \in {"up", "reconnecting"} /\ Tell(<<SfuReport(s, "Disconnected")>>)
        BY <1>6, <2>1 DEF Disconnect
  <2> DEFINE on == Order("Connect", s)
             off == Order("Disconnect", s)
  <2>3. "Disconnected" \in SfuStates
        BY DEF SfuStates
  <2>4. \A y \in Servers \ {s} : ReportsBut(y)
        BY <1>0, <2>1, <2>2, <2>3, OneBut
  <2>5. /\ \A y \in Servers \ {s} : conns'[y] = conns[y] /\ (y \in dialling' <=> y \in dialling)
        /\ s \notin dialling' /\ conns'[s] = "none"
        BY <1>0, <2>1, <2>2 DEF SessionTypes
  <2>6. ASSUME s \notin hasty, links'[s] # "none" PROVE Asked(s)' \/ Granting(s)' \/ Linked(s)'
    <3>1. LinkOk(s) /\ links[s] # "none"
          BY <2>1, <2>6 DEF LinksInv
    <3>2. commands \in Seq(Commands)
          BY <1>0 DEF BetweenTypes
    <3>3. ~Lacks(commands, off) /\ (Lacks(commands, on) => Lacks(commands', on))
          BY <2>1, <3>2, LacksAhead
    <3>4. Gone(s) => events' = events
          BY <2>2 DEF Gone
    <3>5. Gone(s) => Gone(s)'
          BY <2>5, <3>4 DEF Gone
    <3>6. Asked(s) => Asked(s)'
          BY <2>1, <3>3, <3>5 DEF Asked
    <3>7. ASSUME Granting(s) PROVE Granting(s)'
      <4>1. off # on
            BY DEF Order
      <4>2. OneConnect(commands', s)
            BY <2>1, <3>2, <3>7, <4>1, OneConnectStays DEF Granting
      <4> QED BY <2>1, <3>5, <3>7, <4>2 DEF Granting
    <3>8. ASSUME Linked(s) PROVE Linked(s)'
      <4>1. Truth(s) = "Failed"
            BY <3>3, <3>8 DEF Linked
      <4>2. conns[s] \notin {"up", "reconnecting"}
            BY <4>1 DEF Truth
      <4>3. events' = events
            BY <2>2, <4>2
      <4>4. Truth(s)' = "Failed"
            BY <2>5 DEF Truth
      <4>5. WillShow(s, Truth(s))'
            BY <2>1, <3>8, <4>1, <4>3, <4>4 DEF Linked, WillShow
      <4>6. grants'[s] = 0 /\ Lacks(commands', on)
            BY <2>1, <3>3, <3>8 DEF Linked
      <4> QED BY <2>5, <4>4, <4>5, <4>6 DEF Linked
    <3> QED BY <3>1, <3>6, <3>7, <3>8 DEF LinkOk
  <2>7. s \notin hasty => LinkOk(s)'
        BY <2>6 DEF LinkOk
  <2> QED BY <2>1, <2>4, <2>5, <2>7, LinkOfOthers
\* A connection that is made, or not
<1>7. ASSUME NEW s \in Servers, Adopt(s) PROVE LinksInv'
  <2>1. /\ s \in dialling /\ dialling' = dialling \ {s}
        /\ conns' = [conns EXCEPT ![s] = "fresh"] /\ UNCHANGED <<commands, links, grants, hasty>>
        BY <1>7 DEF Adopt, SessionMoves
  <2>2. \A y \in Servers : OrdersBut(y)
        BY <1>7, QueuesOfSession, QueuesBut
  <2>3. \A y \in Servers : ReportsBut(y)
        BY <1>7, QueuesOfSession, QueuesBut
  <2>4. /\ \A y \in Servers \ {s} : conns'[y] = conns[y] /\ (y \in dialling' <=> y \in dialling)
        /\ s \notin dialling' /\ conns'[s] = "fresh"
        BY <1>0, <2>1 DEF SessionTypes
  <2>5. ASSUME s \notin hasty, links'[s] # "none" PROVE Linked(s)'
    <3>1. LinkOk(s) /\ links[s] # "none"
          BY <2>1, <2>5 DEF LinksInv
    <3>2. Linked(s)
          BY <2>1, <3>1 DEF LinkOk, Asked, Granting, Gone
    <3>3. Truth(s) = "Connecting" /\ Truth(s)' = "Connecting"
          BY <2>1, <2>4 DEF Truth
    <3>4. /\ Quiet(events, s) => Quiet(events', s)
          /\ \A state : LastSays(events, s, state) => LastSays(events', s, state)
          BY <1>0, <2>3, ServerReportsStay
    <3>5. WillShow(s, Truth(s))'
          BY <2>1, <3>2, <3>3, <3>4 DEF Linked, WillShow
    <3> QED BY <2>1, <2>4, <3>2, <3>3, <3>5 DEF Linked
  <2>6. s \notin hasty => LinkOk(s)'
        BY <2>5 DEF LinkOk
  <2> QED BY <2>1, <2>2, <2>3, <2>4, <2>6, LinkOfOthers
<1>8. ASSUME NEW s \in Servers, DialFails(s) PROVE LinksInv'
  <2>1. /\ s \in dialling /\ dialling' = dialling \ {s}
        /\ Tell(<<SfuReport(s, "Disconnected")>>)
        /\ UNCHANGED <<conns, commands, links, grants, hasty>>
        BY <1>8 DEF DialFails, SessionMoves
  <2>2. "Disconnected" \in SfuStates
        BY DEF SfuStates
  <2>3. \A y \in Servers \ {s} : OrdersBut(y) /\ ReportsBut(y)
        BY <1>0, <2>1, <2>2, OneBut
  <2>4. ASSUME s \notin hasty, links'[s] # "none" PROVE Linked(s)'
    <3>1. LinkOk(s) /\ links[s] # "none"
          BY <2>1, <2>4 DEF LinksInv
    <3>2. Linked(s)
          BY <2>1, <3>1 DEF LinkOk, Asked, Granting, Gone
    <3>3. s \notin dialling' /\ conns'[s] = "none"
          BY <2>1, <3>2 DEF Linked
    <3>4. Truth(s)' = "Failed" /\ LinkAfter("Disconnected") = "Failed"
          BY <3>3 DEF Truth, LinkAfter
    <3>5. LastSays(events', s, "Disconnected")
          BY <1>0, <2>1, <2>2, SaysNow
    <3>6. WillShow(s, Truth(s))'
          BY <2>2, <3>4, <3>5 DEF WillShow
    <3> QED BY <2>1, <3>2, <3>3, <3>4, <3>6 DEF Linked
  <2>5. s \notin hasty => LinkOk(s)'
        BY <2>4 DEF LinkOk
  <2> QED BY <2>1, <2>3, <2>5, LinkOfOthers
\* What becomes of a connection
<1>9. ASSUME NEW s \in Servers, PumpStarts(s) \/ Reconnects(s) \/ Wavers(s) \/ CutOff(s)
      PROVE  LinksInv'
  <2>1. PICK to, told :
            /\ conns[s] \in {"fresh", "up", "reconnecting"} /\ conns' = [conns EXCEPT ![s] = to]
            /\ \/ to = "up" /\ told = "Connected"
               \/ to = "reconnecting" /\ told = "Reconnecting"
               \/ to = "dead" /\ told = "Disconnected"
            /\ Tell(<<SfuReport(s, told)>>)
            /\ UNCHANGED <<dialling, commands, links, grants, hasty>>
    <3>1. PumpStarts(s) \/ Reconnects(s)
          => /\ conns[s] \in {"fresh", "reconnecting"} /\ conns' = [conns EXCEPT ![s] = "up"]
             /\ Tell(<<SfuReport(s, "Connected")>>)
             /\ UNCHANGED <<dialling, commands, links, grants, hasty>>
          BY DEF PumpStarts, Reconnects, Pump
    <3>2. Wavers(s)
          => /\ conns[s] = "up" /\ conns' = [conns EXCEPT ![s] = "reconnecting"]
             /\ Tell(<<SfuReport(s, "Reconnecting")>>)
             /\ UNCHANGED <<dialling, commands, links, grants, hasty>>
          BY DEF Wavers, Pump
    <3>3. CutOff(s)
          => /\ conns[s] \in {"up", "reconnecting"} /\ conns' = [conns EXCEPT ![s] = "dead"]
             /\ Tell(<<SfuReport(s, "Disconnected")>>)
             /\ UNCHANGED <<dialling, commands, links, grants, hasty>>
          BY DEF CutOff, Pump
    <3> QED BY <1>9, <3>1, <3>2, <3>3
  <2>2. told \in SfuStates
        BY <2>1 DEF SfuStates
  <2>3. \A y \in Servers \ {s} : OrdersBut(y) /\ ReportsBut(y)
        BY <1>0, <2>1, <2>2, OneBut
  <2>4. (\A y \in Servers \ {s} : conns'[y] = conns[y]) /\ conns'[s] = to
        BY <1>0, <2>1 DEF SessionTypes
  <2>5. ASSUME s \notin hasty, links'[s] # "none" PROVE Linked(s)'
    <3>1. LinkOk(s) /\ links[s] # "none"
          BY <2>1, <2>5 DEF LinksInv
    <3>2. Linked(s)
          BY <2>1, <3>1 DEF LinkOk, Asked, Granting, Gone
    <3>3. s \notin dialling
          BY <2>1, <3>2 DEF Linked
    <3>4. Truth(s) # "Failed"
          BY <2>1, <3>3 DEF Truth
    <3>5. Truth(s)' = LinkAfter(told)
          BY <2>1, <2>4, <3>3 DEF Truth, LinkAfter
    <3>6. LastSays(events', s, told)
          BY <1>0, <2>1, <2>2, SaysNow
    <3>7. WillShow(s, Truth(s))'
          BY <2>2, <3>5, <3>6 DEF WillShow
    <3> QED BY <2>1, <3>2, <3>3, <3>4, <3>7 DEF Linked
  <2>6. s \notin hasty => LinkOk(s)'
        BY <2>5 DEF LinkOk
  <2> QED BY <2>1, <2>3, <2>4, <2>6, LinkOfOthers
<1>10. CASE SessionStep
      BY <1>2, <1>5, <1>6, <1>7, <1>8, <1>10, QueuesOfSession DEF SessionStep
<1>11. CASE Surroundings
      BY <1>3, <1>9, <1>11 DEF Surroundings
<1> QED BY <1>10, <1>11

-----------------------------------------------------------------------------
(* What is shown is so *)

\* What the interface shows of the call is so, or an order or a report that
\* will make it so is on its way.
ShownInv == OwnInv /\ ScreenInv /\ SoundInv /\ PictureInv /\ LinksInv

\* What a call starts with.
LEMMA InitShownInv == Init => ShownInv
<1>1. Init => ScreenInv
      BY DEF Init, ScreenInv, Choosing
<1> QED BY <1>1, InitOwnInv, InitSoundInv, InitPictureInv, InitLinksInv DEF ShownInv

\* The user and the app move no connection.
LEMMA AppMovesNoConnection ==
    ASSUME AppStep \/ UserStep
    PROVE  conns' = conns
<1> USE DEF sfus
<1>1. UserStep => conns' = conns
      BY DEF UserStep, SetMicrophone, SetCamera, SetScreenShare, ChangeScreenShare,
             UserOrders, LeaveCall, MembersChanged
<1>2. AppStep => conns' = conns
      BY DEF AppStep, Granted, GrantRefused, SfuReported, MicrophoneReported,
             CameraReported, ScreenReported, HandlesReport
<1> QED BY <1>1, <1>2

\* ShownInv is kept by every step.
LEMMA ShownStep ==
    ASSUME TypeOK, ServerInv, DeviceInv, ShownInv, Next
    PROVE  ShownInv'
<1> USE DEF ShownInv
<1>1. OwnInv' /\ ScreenInv'
      BY OwnStep, ScreenStep
<1>2. CASE call' # "in"
      BY <1>1, <1>2 DEF SoundInv, TrackInv, SpeaksInv, PictureInv, TakenInv, SeesInv, LinksInv
<1>3. CASE call' = "in"
  <2>1. call = "in"
        BY <1>3, StillJoined
  <2>2. CASE AppStep \/ UserStep
    <3>1. Publishing' <=> Publishing
          BY <2>2, AppMovesNoConnection DEF Publishing
    <3> QED BY <1>1, <1>3, <2>1, <2>2, <3>1, SoundAppStep, PictureAppStep, LinksAppStep
  <2>3. CASE SessionStep \/ Surroundings
        BY <1>1, <1>3, <2>1, <2>3, SoundSessionStep, PictureSessionStep, LinksSessionStep
  <2> QED BY <2>2, <2>3 DEF Next
<1> QED BY <1>2, <1>3

\* Nothing of what is shown changes in a step that changes nothing.
LEMMA ShownStutters ==
    ASSUME ShownInv, UNCHANGED vars
    PROVE  ShownInv'
<1> USE DEF vars, app, shown, own, sfus
<1>1. OwnInv' /\ ScreenInv'
      BY DEF ShownInv, OwnInv, ScreenInv, Waits, ComesLast, NotOff
<1>2. SoundInv'
      BY DEF ShownInv, SoundInv, TrackInv, SpeaksInv, Waits, ComesLast, NotOff, Publishing
<1>3. PictureInv'
      BY DEF ShownInv, PictureInv, TakenInv, SeesInv, Waits, ComesLast, NotOff, Publishing
<1>4. LinksInv'
      BY DEF ShownInv, LinksInv, LinkOk, Asked, Granting, Linked, Gone, WillShow, Truth
<1> QED BY <1>1, <1>2, <1>3, <1>4 DEF ShownInv

\* What is shown of the call is so, or is about to be made so: no order of the
\* user and no report of the session is lost between them, in whatever order
\* they cross (Joined, drive).
THEOREM ShownAsReported == Spec => []ShownInv
<1>1. TypeOK /\ ServerInv /\ DeviceInv /\ ShownInv /\ [Next]_vars => ShownInv'
      BY ShownStep, ShownStutters
<1> QED BY InitShownInv, <1>1, TypeCorrect, ServersAreCut, DevicesStayOff, PTL DEF Spec

\* Once every order is carried out and every report is heard, what is shown to
\* be on is on, what is shown to be under way is under way, and every link is
\* shown as its connection is (Joined, drive).
THEOREM WhatIsShownIsSo == Spec => []ShownIsSo
<1>1. TypeOK /\ ShownInv => ShownIsSo
  <2> SUFFICES ASSUME TypeOK, ShownInv, Settled PROVE ShownIsSo
      BY DEF ShownIsSo
  <2>1. call = "in" /\ Len(commands) = 0 /\ Len(events) = 0
        BY DEF Settled
  <2>2. \A q : Len(q) = 0 => \A on, off : Lacks(q, on) /\ ~Ends(q, on, off)
        BY DEF Lacks, Ends
  <2>3. \A kind, what : ~Waits(kind, what) /\ ~ComesLast(kind)
        BY <2>1, <2>2 DEF Waits, ComesLast
  <2>4. ASSUME NEW s \in Servers \ hasty, links[s] # "none"
        PROVE  \/ grants[s] = 1 /\ links[s] = "Asking"
               \/ links[s] = Truth(s)
    <3>1. ~Granting(s)
          BY <2>1 DEF Granting, OneConnect
    <3>2. \A state : ~LastSays(events, s, state)
          BY <2>1 DEF LastSays
    <3>3. Asked(s) \/ Linked(s)
          BY <2>1, <2>4, <3>1 DEF ShownInv, LinksInv, LinkOk
    <3> QED BY <3>2, <3>3 DEF Asked, Linked, WillShow
  <2>5. links[Own] # "Failed"
        BY <2>1 DEF ShownInv, OwnInv
  <2>6. ASSUME NEW s \in Servers \ hasty
        PROVE  /\ links[s] = "Asking" => grants[s] > 0
               /\ links[s] = "Connecting" =>
                   grants[s] > 0 \/ s \in dialling \/ conns[s] = "fresh"
               /\ links[s] = "Connected" => grants[s] > 0 \/ conns[s] = "up"
               /\ links[s] = "Reconnecting" => grants[s] > 0 \/ conns[s] = "reconnecting"
               /\ links[s] = "Failed" => s # Own /\ conns[s] \in {"none", "dead"}
    <3>1. conns[s] \in ConnStates
          BY DEF TypeOK
    <3>2. CASE links[s] = "none"
          BY <3>2
    <3>3. CASE grants[s] = 1 /\ links[s] = "Asking"
          BY <3>3
    <3>4. CASE links[s] = Truth(s)
          BY <2>5, <3>1, <3>4 DEF Truth, ConnStates
    <3> QED BY <2>4, <3>2, <3>3, <3>4
  <2>7. /\ mic = "Starting" => ~Publishing
        /\ mic = "On" => track = "live"
        BY <2>1, <2>3 DEF ShownInv, SoundInv, SpeaksInv
  <2>8. /\ camera = "Starting" => ~Publishing
        /\ camera = "On" => capture
        BY <2>1, <2>3 DEF ShownInv, PictureInv, SeesInv
  <2>9. screen \in Choosing \cup {"On"} => share # "none"
        BY <2>1, <2>3 DEF ShownInv, ScreenInv
  <2> QED BY <2>6, <2>7, <2>8, <2>9 DEF ShownIsSo
<1> QED BY <1>1, TypeCorrect, ShownAsReported, PTL

=============================================================================
