----------------------------- MODULE HubProofs -----------------------------
(***************************************************************************)
(* What holds of the hub for any number of people, connections and rooms,  *)
(* any capacity and any bound: its state is well typed, a push channel on  *)
(* the online map is that of a live handler of the same person, and no     *)
(* message is ever on its way to anyone outside its conversation; and of   *)
(* its past: a seq names one message for ever, an acknowledgement is never *)
(* taken back, nothing is shown to anybody before it is on disk, and       *)
(* nothing is on its way to a connection twice.                            *)
(***************************************************************************)
EXTENDS Hub, FiniteSetTheorems, TLAPS

Work == [welcome : Seq(Welcomes), backlog : SUBSET Msgs,
         push : Seq(Msgs \cup Notices), to : SUBSET Conn]
State == [members : SUBSET Person, convs : [ConvId -> Conv]]

-----------------------------------------------------------------------------
(* The operators the actions are made of. *)

(* What a frame carries, by its kind. *)
LEMMA FrameFields ==
  ASSUME NEW f \in Frames
  PROVE  /\ f.t = "hello" => f.id \in Person
         /\ f.t = "send" => f.conv \in ConvId /\ f.text \in Text
         /\ f.t = "ack" => f.conv \in ConvId /\ f.seq \in Nat
         /\ f.t = "open_dm" => f.peer \in Person
         /\ f.t = "create_room" => f.members \in SUBSET Person
BY DEF Frames

(* Trimming a log leaves a log: the last n of its entries. *)
LEMMA TrimType ==
  ASSUME NEW log \in Seq(Entry), NEW n \in Nat
  PROVE  Trim(log, n) \in Seq(Entry)
BY DEF Trim

(* A conversation just opened is one. *)
LEMMA NewConvType ==
  ASSUME NEW S \in SUBSET Person
  PROVE  NewConv(S) \in Conv /\ NewConv(S).members = S
<1>1. NewConv(S) = [members |-> S, log |-> <<>>,
                    cursors |-> [q \in Person |-> 0], nextSeq |-> 0]
  BY DEF NewConv, NoConv
<1>2. <<>> \in Seq(Entry) /\ [q \in Person |-> 0] \in [Person -> Nat]
  OBVIOUS
<1> QED
  BY <1>1, <1>2 DEF Conv

(* Posting leaves a conversation, with the same people and a last entry. *)
LEMMA PostedType ==
  ASSUME NEW conv \in Conv, NEW q \in Person, NEW x \in Text
  PROVE  /\ Posted(conv, q, x) \in Conv
         /\ Posted(conv, q, x).members = conv.members
         /\ LET log == Posted(conv, q, x).log IN log # <<>> /\ log[Len(log)] \in Entry
<1> DEFINE s == conv.nextSeq + 1
           e == [seq |-> s, from |-> q, text |-> x]
           log == Append(conv.log, e)
<1>1. conv.log \in Seq(Entry) /\ conv.nextSeq \in Nat /\ conv.cursors \in [Person -> Nat]
  BY DEF Conv
<1>2. e \in Entry
  BY <1>1 DEF Entry
<1>3. log \in Seq(Entry) /\ Len(log) = Len(conv.log) + 1
  BY <1>1, <1>2
<1>4. MaxLog \in Nat \ {0}
  BY HubAssumption
<1>5. Trim(log, MaxLog) \in Seq(Entry) /\ Len(Trim(log, MaxLog)) > 0
  BY <1>3, <1>4, <1>1 DEF Trim
<1>6. [conv.cursors EXCEPT ![q] = s] \in [Person -> Nat]
  BY <1>1
<1>7. Posted(conv, q, x) = [conv EXCEPT !.nextSeq = s, !.log = Trim(log, MaxLog),
                                         !.cursors = [conv.cursors EXCEPT ![q] = s]]
  BY DEF Posted
<1> HIDE DEF log, e, s
<1>8. s \in Nat
  BY <1>1 DEF s
<1>9. Posted(conv, q, x) = [members |-> conv.members, log |-> Trim(log, MaxLog),
         cursors |-> [conv.cursors EXCEPT ![q] = s], nextSeq |-> s]
  BY <1>7 DEF Conv
<1>10. Posted(conv, q, x) \in Conv /\ Posted(conv, q, x).members = conv.members
  BY <1>5, <1>6, <1>8, <1>9 DEF Conv
<1>11. ASSUME NEW l \in Seq(Entry), Len(l) > 0
       PROVE  l # <<>> /\ l[Len(l)] \in Entry
  BY <1>11
<1> QED
  BY <1>5, <1>9, <1>10, <1>11

(* Acknowledging leaves a conversation, with the same people. *)
LEMMA AckedType ==
  ASSUME NEW conv \in Conv, NEW q \in Person, NEW s \in Nat
  PROVE  Acked(conv, q, s) \in Conv /\ Acked(conv, q, s).members = conv.members
<1> DEFINE cursors == [conv.cursors EXCEPT ![q] = IF s > conv.cursors[q] THEN s ELSE conv.cursors[q]]
<1>1. cursors \in [Person -> Nat]
  <2>1. conv.cursors \in [Person -> Nat]
    BY DEF Conv
  <2> QED
    BY <2>1
<1>2. Acked(conv, q, s) = [conv EXCEPT !.cursors = cursors]
  BY Zenon DEF Acked
<1> QED
  BY <1>1, <1>2 DEF Conv

(* An entry of a conversation makes a message. *)
LEMMA MsgType ==
  ASSUME NEW c \in ConvId, NEW e \in Entry
  PROVE  Msg(c, e) \in Msgs
BY DEF Msg, Msgs, Entry

(* A backlog is made of messages, of conversations its reader is in. *)
LEMMA BacklogType ==
  ASSUME NEW cs \in [ConvId -> Conv], NEW q
  PROVE  /\ BacklogFor(cs, q) \in SUBSET Msgs
         /\ \A m \in BacklogFor(cs, q) : m.conv \in ConvId /\ q \in cs[m.conv].members
<1> SUFFICES ASSUME NEW m \in BacklogFor(cs, q)
             PROVE  m \in Msgs /\ m.conv \in ConvId /\ q \in cs[m.conv].members
  OBVIOUS
<1>1. PICK c \in ConvId : Has(cs[c], q) /\ \E e \in Unread(cs[c], q) : m = Msg(c, e)
  BY DEF BacklogFor
<1>2. PICK e \in Unread(cs[c], q) : m = Msg(c, e)
  BY <1>1
<1>3. cs[c].log \in Seq(Entry)
  BY DEF Conv
<1>4. e \in Entry
  BY <1>2, <1>3 DEF Unread
<1> QED
  BY <1>1, <1>2, <1>4 DEF Msg, Msgs, Entry, Has

(* Whatever becomes of the write, the state file holds a state. *)
LEMMA PersistType ==
  ASSUME disk \in State, NEW ms \in SUBSET Person, NEW cs \in [ConvId -> Conv],
         Persist(ms, cs)
  PROVE  disk' \in State
BY DEF Persist, State

(* Push channels of online people are connections. *)
LEMMA PushesType ==
  ASSUME NEW on \in [Person -> Conn \cup {NoConn}], NEW S
  PROVE  /\ PushesFor(on, S) \in SUBSET Conn
         /\ OnlineIds(on) \in SUBSET Person
         /\ \A j \in PushesFor(on, S) : \E q \in S \cap Person : on[q] = j /\ j # NoConn
BY DEF PushesFor, OnlineIds

-----------------------------------------------------------------------------
(* Type correctness. *)

(* An empty hub is well typed. *)
THEOREM TypeInit == Init => TypeOK
<1> SUFFICES ASSUME Init PROVE TypeOK
  OBVIOUS
<1>1. NoConv \in Conv
  <2>1. <<>> \in Seq(Entry) /\ [q \in Person |-> 0] \in [Person -> Nat]
    OBVIOUS
  <2> QED
    BY <2>1 DEF NoConv, Conv
<1>2. Idle \in Work
  BY DEF Idle, Work
<1> QED
  BY <1>1, <1>2 DEF Init, TypeOK, Work

(* The parts of the type invariant, for the steps below to cite. *)
Typed == /\ members \in SUBSET Person
         /\ convs \in [ConvId -> Conv]
         /\ disk \in State
         /\ online \in [Person -> Conn \cup {NoConn}]
         /\ phase \in [Conn -> {"free", "hello", "serving", "leaving"}]
         /\ who \in [Conn -> Person \cup {Nobody}]
         /\ pend \in [Conn -> Work]
         /\ rx \in [Conn -> Seq(Msgs \cup Notices)]
         /\ link \in [Conn -> {"up", "down"}]
         /\ up \in [Conn -> Seq(Frames)]
         /\ down \in [Conn -> Seq(ServerMsgs)]

(* The parts together are the type invariant. *)
LEMMA TypedIsTypeOK == TypeOK <=> Typed
BY DEF TypeOK, Typed, Work, State

(* Sequences of at most two elements. *)
LEMMA ShortSeq ==
  ASSUME NEW S, NEW m \in S
  PROVE  <<>> \in Seq(S) /\ <<m>> \in Seq(S) /\ <<m, m>> \in Seq(S)
OBVIOUS

(* Nothing to do is work. *)
LEMMA IdleType == Idle \in Work
BY DEF Idle, Work

(* Pushing something to some connections is work. *)
LEMMA PushingType ==
  ASSUME NEW msgs \in Seq(Msgs \cup Notices), NEW targets \in SUBSET Conn
  PROVE  Pushing(msgs, targets) \in Work
BY IdleType DEF Pushing, Idle, Work

(* Steps of the clients and the network. *)
LEMMA NetworkType ==
  ASSUME Typed, NEW k \in Conn, Network(k)
  PROVE  Typed'
<1> USE DEF Typed, store, wire
<1>1. CASE Accept(k)
  BY <1>1 DEF Accept
<1>2. CASE Deliver(k)
  <2>1. Tail(down[k]) \in Seq(ServerMsgs)
    BY <1>2 DEF Deliver
  <2> QED
    BY <1>2, <2>1 DEF Deliver
<1>3. CASE CutLink(k)
  <2>1. PICK n \in 0 .. Len(up[k]) : up' = [up EXCEPT ![k] = SubSeq(@, 1, n)]
    BY <1>3 DEF CutLink
  <2>2. SubSeq(up[k], 1, n) \in Seq(Frames)
    BY <2>1
  <2> QED
    BY <1>3, <2>1, <2>2 DEF CutLink
<1> QED
  BY <1>1, <1>2, <1>3 DEF Network

(* A client sends a frame. *)
LEMMA ClientFrameType ==
  ASSUME Typed, NEW k \in Conn, NEW f \in Frames, ClientFrame(k, f)
  PROVE  Typed'
<1>1. Append(up[k], f) \in Seq(Frames)
  BY DEF Typed
<1> QED
  BY <1>1 DEF ClientFrame, Typed, store

(* A restart loads a state. *)
LEMMA CrashType ==
  ASSUME Typed, Crash
  PROVE  Typed'
BY IdleType DEF Crash, Typed, State

(* What TaskEnds leaves typed. *)
LEMMA TaskEndsType ==
  ASSUME Typed, NEW k \in Conn, TaskEnds(k)
  PROVE  /\ phase' \in [Conn -> {"free", "hello", "serving", "leaving"}]
         /\ who' \in [Conn -> Person \cup {Nobody}]
         /\ pend' \in [Conn -> Work]
         /\ rx' \in [Conn -> Seq(Msgs \cup Notices)]
         /\ link' \in [Conn -> {"up", "down"}]
         /\ up' \in [Conn -> Seq(Frames)]
         /\ down' \in [Conn -> Seq(ServerMsgs)]
BY IdleType DEF TaskEnds, Typed

(* The next frame is one, and so is what is left when it is read. *)
LEMMA ConsumeType ==
  ASSUME Typed, NEW k \in Conn, up[k] # <<>>
  PROVE  /\ Head(up[k]) \in Frames
         /\ Consume(k) => up' \in [Conn -> Seq(Frames)]
<1>1. Head(up[k]) \in Frames /\ Tail(up[k]) \in Seq(Frames)
  BY DEF Typed
<1> QED
  BY <1>1 DEF Consume, Typed

(* A send puts a message of the hub on the link, or nothing.               *)
LEMMA SendOnType ==
  ASSUME Typed, NEW k \in Conn, NEW m \in ServerMsgs, SendOn(k, m)
  PROVE  down' \in [Conn -> Seq(ServerMsgs)]
<1>1. Append(down[k], m) \in Seq(ServerMsgs)
  BY DEF Typed
<1> QED
  BY <1>1 DEF SendOn, Typed

(* One handler's work replaced by other work. *)
LEMMA WorkReplaced ==
  ASSUME pend \in [Conn -> Work], NEW k \in Conn, NEW w \in Work,
         pend' = [pend EXCEPT ![k] = w]
  PROVE  pend' \in [Conn -> Work]
OBVIOUS

(* The welcome and the backlog. *)
LEMMA GreetType ==
  ASSUME Typed, NEW k \in Conn, Greet(k)
  PROVE  Typed'
<1>0. pend[k] \in Work
  BY DEF Typed
<1>1. CASE SendWelcome(k)
  <2>1. pend[k].welcome[1] \in ServerMsgs
    BY <1>0, <1>1 DEF SendWelcome, Work, ServerMsgs
  <2>2. down' \in [Conn -> Seq(ServerMsgs)]
    BY <1>1, <2>1, SendOnType DEF SendWelcome
  <2>3. [pend[k] EXCEPT !.welcome = <<>>] \in Work
    <3>1. <<>> \in Seq(Welcomes)
      OBVIOUS
    <3> QED
      BY <1>0, <3>1 DEF Work
  <2>4. /\ pend' = [pend EXCEPT ![k] = [pend[k] EXCEPT !.welcome = <<>>]]
        /\ UNCHANGED <<store, online, phase, who, rx, link, up>>
    BY <1>1 DEF SendWelcome
  <2>5. pend' \in [Conn -> Work]
    BY <2>3, <2>4, WorkReplaced DEF Typed
  <2> QED
    BY <2>2, <2>4, <2>5 DEF Typed, store
<1>2. CASE SendBacklog(k)
  <2>1. PICK m \in pend[k].backlog :
          SendOn(k, m) /\ pend' = [pend EXCEPT ![k].backlog = @ \ {m}]
    BY <1>2 DEF SendBacklog
  <2>2. m \in ServerMsgs
    BY <1>0 DEF Work, ServerMsgs
  <2>3. down' \in [Conn -> Seq(ServerMsgs)]
    BY <2>1, <2>2, SendOnType
  <2>4. [pend[k] EXCEPT !.backlog = @ \ {m}] \in Work
    BY <1>0 DEF Work
  <2>5. pend' = [pend EXCEPT ![k] = [pend[k] EXCEPT !.backlog = @ \ {m}]]
    BY <2>1
  <2>6. pend' \in [Conn -> Work]
    BY <2>4, <2>5, WorkReplaced DEF Typed
  <2>7. UNCHANGED <<store, online, phase, who, rx, link, up>>
    BY <1>2 DEF SendBacklog
  <2> QED
    BY <2>3, <2>6, <2>7 DEF Typed, store
<1>3. CASE GoOffline(k)
  BY <1>3, TaskEndsType DEF GoOffline, Typed, store
<1> QED
  BY <1>1, <1>2, <1>3 DEF Greet

(* The end of the select loop. *)
LEMMA LeaveType ==
  ASSUME Typed, NEW k \in Conn, Leave(k)
  PROVE  Typed'
<1> DEFINE on == [online EXCEPT ![who[k]] = NoConn]
           msgs == <<[t |-> "presence", online |-> OnlineIds(on)]>>
<1>1. on \in [Person -> Conn \cup {NoConn}]
  BY DEF Typed
<1>2. OnlineIds(on) \in SUBSET Person /\ PushesFor(on, Person) \in SUBSET Conn
  BY <1>1, PushesType
<1>3. msgs \in Seq(Msgs \cup Notices)
  <2>1. [t |-> "presence", online |-> OnlineIds(on)] \in Notices
    BY <1>2 DEF Notices
  <2> QED
    BY <2>1, ShortSeq
<1>4. Pushing(msgs, PushesFor(on, Person)) \in Work
  BY <1>2, <1>3, PushingType
<1> QED
  BY <1>1, <1>4 DEF Leave, Typed, store, wire

(* One conversation replaced by another. *)
LEMMA ConvReplaced ==
  ASSUME convs \in [ConvId -> Conv], NEW c \in ConvId, NEW conv \in Conv
  PROVE  [convs EXCEPT ![c] = conv] \in [ConvId -> Conv]
OBVIOUS

(* A message is posted. *)
LEMMA HandleSendType ==
  ASSUME Typed, NEW k \in Conn, HandleSend(k), who[k] \in Person
  PROVE  Typed'
<1> DEFINE f == Head(up[k])
           conv == Posted(convs[f.conv], who[k], f.text)
           cs == [convs EXCEPT ![f.conv] = conv]
           to == PushesFor(online, Recipients(conv, who[k]))
           msgs == <<Msg(f.conv, conv.log[Len(conv.log)])>>
<1>1. f \in Frames /\ f.t = "send" /\ up' \in [Conn -> Seq(Frames)]
  BY ConsumeType DEF HandleSend, NextFrame
<1>2. f.conv \in ConvId /\ f.text \in Text /\ convs[f.conv] \in Conv
  BY <1>1, FrameFields DEF Typed
<1>3. /\ conv \in Conv /\ conv.log[Len(conv.log)] \in Entry
  <2> HIDE DEF f
  <2> QED
    BY <1>2, PostedType, Zenon
<1>4. cs \in [ConvId -> Conv]
  <2>1. convs \in [ConvId -> Conv]
    BY DEF Typed
  <2> HIDE DEF f, conv
  <2>2. f.conv \in ConvId /\ conv \in Conv
    BY <1>2, <1>3
  <2> QED
    BY <2>1, <2>2, ConvReplaced, Zenon
<1>5. CASE Has(convs[f.conv], who[k])
  <2>1. msgs \in Seq(Msgs \cup Notices)
    <3>1. Msg(f.conv, conv.log[Len(conv.log)]) \in Msgs
      BY <1>2, <1>3, MsgType
    <3> QED
      BY <3>1, ShortSeq
  <2>2. to \in SUBSET Conn
    BY PushesType DEF Typed
  <2>3. Pushing(msgs, to) \in Work
    BY <2>1, <2>2, PushingType
  <2>4. Persist(members, cs) /\ convs' = cs /\ pend' = [pend EXCEPT ![k] = Pushing(msgs, to)]
    BY <1>5 DEF HandleSend
  <2>5. disk' \in State
    BY <2>4, <1>4, PersistType DEF Typed
  <2> QED
    BY <1>1, <1>4, <2>3, <2>4, <2>5 DEF HandleSend, Typed
<1>6. CASE ~Has(convs[f.conv], who[k])
  BY <1>1, <1>6 DEF HandleSend, Typed
<1> QED
  BY <1>5, <1>6

(* A message is acknowledged. *)
LEMMA HandleAckType ==
  ASSUME Typed, NEW k \in Conn, HandleAck(k), who[k] \in Person
  PROVE  Typed'
<1> DEFINE f == Head(up[k])
           cs == IF convs[f.conv].members = {} THEN convs
                 ELSE [convs EXCEPT ![f.conv] = Acked(@, who[k], f.seq)]
<1>1. f \in Frames /\ f.t = "ack" /\ up' \in [Conn -> Seq(Frames)]
  BY ConsumeType DEF HandleAck, NextFrame
<1>2. f.conv \in ConvId /\ f.seq \in Nat /\ convs[f.conv] \in Conv
  BY <1>1, FrameFields DEF Typed
<1>3. Acked(convs[f.conv], who[k], f.seq) \in Conv
  BY <1>2, AckedType
<1>4. cs \in [ConvId -> Conv]
  BY <1>2, <1>3 DEF Typed
<1>5. Persist(members, cs) /\ convs' = cs
  BY DEF HandleAck
<1>6. disk' \in State
  BY <1>4, <1>5, PersistType DEF Typed
<1> QED
  BY <1>1, <1>4, <1>5, <1>6 DEF HandleAck, Typed

(* A conversation of two is opened. *)
LEMMA HandleOpenDmType ==
  ASSUME Typed, NEW k \in Conn, HandleOpenDm(k), who[k] \in Person
  PROVE  Typed'
<1> DEFINE c == {who[k], Head(up[k]).peer}
           cs == [convs EXCEPT ![c] = NewConv(c)]
           m == [t |-> "conv", conv |-> c]
           msgs == IF Cardinality(c) = 1 THEN <<m, m>> ELSE <<m>>
           to == PushesFor(online, c)
<1>1. Head(up[k]) \in Frames /\ Head(up[k]).t = "open_dm" /\ up' \in [Conn -> Seq(Frames)]
  BY ConsumeType DEF HandleOpenDm, NextFrame
<1>2. Head(up[k]).peer \in Person
  BY <1>1, FrameFields
<1>3. c \in ConvId /\ c \in SUBSET Person
  BY <1>2 DEF ConvId, Dm
<1>4. cs \in [ConvId -> Conv]
  BY <1>3, NewConvType DEF Typed
<1>5. msgs \in Seq(Msgs \cup Notices)
  <2>1. m \in Notices
    BY <1>3 DEF Notices
  <2> QED
    BY <2>1, ShortSeq
<1>6. to \in SUBSET Conn
  BY PushesType DEF Typed
<1>7. Pushing(msgs, to) \in Work
  BY <1>5, <1>6, PushingType
<1>8. /\ pend' = [pend EXCEPT ![k] = Pushing(msgs, to)]
      /\ \/ Persist(members, cs) /\ convs' = cs
         \/ UNCHANGED <<convs, disk>>
  BY DEF HandleOpenDm
<1>9. disk' \in State /\ convs' \in [ConvId -> Conv]
  BY <1>4, <1>8, PersistType DEF Typed
<1>10. pend' \in [Conn -> Work]
  <2> HIDE DEF msgs, to
  <2> QED
    BY <1>7, <1>8, WorkReplaced DEF Typed
<1>11. UNCHANGED <<members, online, phase, who, rx, link, down>>
  BY DEF HandleOpenDm
<1> QED
  BY <1>1, <1>9, <1>10, <1>11 DEF Typed

(* A room is created. *)
LEMMA HandleCreateRoomType ==
  ASSUME Typed, NEW k \in Conn, HandleCreateRoom(k), who[k] \in Person
  PROVE  Typed'
<1> DEFINE S == Head(up[k]).members \cup {who[k]}
           to == PushesFor(online, S)
           msgs(r) == <<[t |-> "conv", conv |-> r]>>
           cs(r) == [convs EXCEPT ![r] = NewConv(S)]
<1>1. Head(up[k]) \in Frames /\ Head(up[k]).t = "create_room" /\ up' \in [Conn -> Seq(Frames)]
  BY ConsumeType DEF HandleCreateRoom, NextFrame
<1>2. S \in SUBSET Person
  BY <1>1, FrameFields
<1>3. PICK r \in UnusedRooms : /\ Persist(members, cs(r)) /\ convs' = cs(r)
                               /\ pend' = [pend EXCEPT ![k] = Pushing(msgs(r), to)]
  BY DEF HandleCreateRoom
<1>4. r \in ConvId
  BY DEF UnusedRooms, ConvId
<1>5. cs(r) \in [ConvId -> Conv]
  BY <1>2, <1>4, NewConvType DEF Typed
<1>6. msgs(r) \in Seq(Msgs \cup Notices)
  <2>1. [t |-> "conv", conv |-> r] \in Notices
    BY <1>4 DEF Notices
  <2> QED
    BY <2>1, ShortSeq
<1>7. to \in SUBSET Conn
  BY PushesType DEF Typed
<1>8. Pushing(msgs(r), to) \in Work
  BY <1>6, <1>7, PushingType
<1>9. disk' \in State
  BY <1>3, <1>5, PersistType DEF Typed
<1> QED
  BY <1>1, <1>3, <1>5, <1>8, <1>9 DEF HandleCreateRoom, Typed

(* The sign-in critical section. *)
LEMMA SignInType ==
  ASSUME Typed, NEW k \in Conn, SignIn(k)
  PROVE  Typed'
<1> DEFINE q == Head(up[k]).id
           ms == members \cup {q}
           cs == [convs EXCEPT ![Family].members = @ \cup {q}]
           on == [online EXCEPT ![q] = k]
           welcome == [t |-> "welcome", members |-> ms,
                       convs |-> MetasFor(cs, q), online |-> OnlineIds(on)]
           m1 == [t |-> "members", members |-> ms]
           m2 == [t |-> "presence", online |-> OnlineIds(on)]
           work == [welcome |-> <<welcome>>, backlog |-> BacklogFor(cs, q),
                    push |-> <<m1, m2>>, to |-> PushesFor(on, Person)]
<1>1. Head(up[k]) \in Frames /\ Head(up[k]).t = "hello" /\ up' \in [Conn -> Seq(Frames)]
  BY ConsumeType DEF SignIn, NextFrame
<1>2. q \in Person
  BY <1>1, FrameFields
<1>3. ms \in SUBSET Person
  BY <1>2 DEF Typed
<1>4. cs \in [ConvId -> Conv]
  <2>1. Family \in ConvId /\ convs[Family] \in Conv
    BY DEF ConvId, Typed
  <2>2. [convs[Family] EXCEPT !.members = @ \cup {q}] \in Conv
    BY <1>2, <2>1 DEF Conv
  <2> QED
    BY <2>1, <2>2 DEF Typed
<1>5. on \in [Person -> Conn \cup {NoConn}]
  BY DEF Typed
<1>6. OnlineIds(on) \in SUBSET Person /\ PushesFor(on, Person) \in SUBSET Conn
  BY <1>5, PushesType
<1>7. BacklogFor(cs, q) \in SUBSET Msgs
  BY <1>4, BacklogType
<1>8. welcome \in Welcomes
  BY <1>3, <1>6 DEF Welcomes, MetasFor
<1>9. m1 \in Notices /\ m2 \in Notices
  BY <1>3, <1>6 DEF Notices
<1>10. <<welcome>> \in Seq(Welcomes) /\ <<m1, m2>> \in Seq(Msgs \cup Notices)
  <2> HIDE DEF welcome, m1, m2
  <2> QED
    BY <1>8, <1>9
<1>11. work \in Work
  <2> HIDE DEF welcome, m1, m2
  <2> QED
    BY <1>6, <1>7, <1>10 DEF Work
<1>12. /\ Persist(ms, cs) /\ members' = ms /\ convs' = cs /\ online' = on
       /\ who' = [who EXCEPT ![k] = q] /\ phase' = [phase EXCEPT ![k] = "serving"]
       /\ pend' = [pend EXCEPT ![k] = work]
       /\ UNCHANGED <<rx, link, down>>
  BY DEF SignIn
<1>13. disk' \in State
  BY <1>3, <1>4, <1>12, PersistType DEF Typed
<1> HIDE DEF work, cs, on, ms, q
<1> QED
  BY <1>1, <1>2, <1>3, <1>4, <1>5, <1>11, <1>12, <1>13 DEF Typed

(* A message goes into the queue of another handler. *)
LEMMA PushType ==
  ASSUME Typed, NEW k \in Conn, Push(k)
  PROVE  Typed'
<1>1. PICK j \in pend[k].to :
        /\ rx' = [rx EXCEPT ![j] = IF phase[j] = "serving" THEN @ \o pend[k].push ELSE @]
        /\ pend' = [pend EXCEPT ![k] =
             IF pend[k].to = {j} THEN Idle ELSE [pend[k] EXCEPT !.to = @ \ {j}]]
  BY DEF Push
<1>2. pend[k] \in Work /\ j \in Conn
  BY DEF Typed, Work
<1>3. pend[k].push \in Seq(Msgs \cup Notices) /\ rx[j] \in Seq(Msgs \cup Notices)
  BY <1>2 DEF Typed, Work
<1>4. rx[j] \o pend[k].push \in Seq(Msgs \cup Notices)
  BY <1>3
<1>5. [pend[k] EXCEPT !.to = @ \ {j}] \in Work
  BY <1>2 DEF Work
<1>6. pend' \in [Conn -> Work]
  BY <1>1, <1>5, IdleType DEF Typed
<1>7. rx' \in [Conn -> Seq(Msgs \cup Notices)]
  BY <1>1, <1>2, <1>4 DEF Typed
<1> QED
  BY <1>6, <1>7 DEF Push, Typed, store, wire

(* A message goes from a queue to its link. *)
LEMMA ForwardPushType ==
  ASSUME Typed, NEW k \in Conn, ForwardPush(k)
  PROVE  Typed'
<1>1. rx[k] \in Seq(Msgs \cup Notices) /\ rx[k] # <<>>
  BY DEF ForwardPush, Typed
<1>2. Head(rx[k]) \in ServerMsgs /\ Tail(rx[k]) \in Seq(Msgs \cup Notices)
  BY <1>1 DEF ServerMsgs
<1>3. down' \in [Conn -> Seq(ServerMsgs)]
  BY <1>2, SendOnType DEF ForwardPush
<1> QED
  BY <1>2, <1>3 DEF ForwardPush, Typed, store

(* A handler that has signed somebody in knows whom. *)
Known == \A k \in Conn : phase[k] \in {"serving", "leaving"} => who[k] \in Person

(* Every kind of frame. *)
LEMMA HandleFrameType ==
  ASSUME Typed, Known, NEW k \in Conn, HandleFrame(k)
  PROVE  Typed'
<1>1. who[k] \in Person
  BY DEF HandleFrame, HandleSend, HandleAck, HandleOpenDm, HandleCreateRoom, IgnoreHello,
         AtSelect, Known
<1>2. CASE IgnoreHello(k)
  BY <1>2, ConsumeType DEF IgnoreHello, NextFrame, Typed, store
<1>3. CASE HandleSend(k)
  BY <1>1, <1>3, HandleSendType
<1>4. CASE HandleAck(k)
  BY <1>1, <1>4, HandleAckType
<1>5. CASE HandleOpenDm(k)
  BY <1>1, <1>5, HandleOpenDmType
<1>6. CASE HandleCreateRoom(k)
  BY <1>1, <1>6, HandleCreateRoomType
<1> QED
  BY <1>2, <1>3, <1>4, <1>5, <1>6 DEF HandleFrame

(* Every step of a handler. *)
LEMMA HandlerType ==
  ASSUME Typed, Known, NEW k \in Conn, Handler(k)
  PROVE  Typed'
<1>1. CASE DropEarlyFrame(k)
  BY <1>1, ConsumeType DEF DropEarlyFrame, Typed, store
<1>2. CASE GiveUpHello(k)
  BY <1>2, TaskEndsType DEF GiveUpHello, Typed, store
<1>3. CASE PushRefused(k) \/ LinkEnded(k)
  BY <1>3, LeaveType DEF PushRefused, LinkEnded
<1>4. CASE EndTask(k)
  BY <1>4, TaskEndsType DEF EndTask, Typed, store
<1> QED
  BY <1>1, <1>2, <1>3, <1>4, SignInType, GreetType, PushType, HandleFrameType,
     ForwardPushType, Zenon DEF Handler

(* Every step of the hub, its clients and its network keeps the types.     *)
LEMMA TypeStep ==
  ASSUME Typed, Known, [Next]_vars
  PROVE  Typed'
<1>1. CASE UNCHANGED vars
  BY <1>1 DEF vars, Typed
<1>2. CASE Crash
  BY <1>2, CrashType
<1>3. ASSUME NEW k \in Conn,
             Handler(k) \/ Network(k) \/ \E f \in Frames : ClientFrame(k, f)
      PROVE  Typed'
  BY <1>3, HandlerType, NetworkType, ClientFrameType
<1> QED
  BY <1>1, <1>2, <1>3 DEF Next

-----------------------------------------------------------------------------
(* Nobody outside a conversation is ever sent its messages.  That is not   *)
(* inductive by itself: a push lands in the queue of whoever serves that   *)
(* connection by then.  It takes that the online map is right, that a slot *)
(* is taken again only when no push is under way to it, and that its       *)
(* queues are empty when it is.                                            *)

Quiet == \A k \in Conn : phase[k] \in {"free", "hello"} =>
           rx[k] = <<>> /\ down[k] = <<>> /\ pend[k] = Idle
NoReuse == \A k \in Conn : \A j \in pend[k].to : phase[j] # "hello"

Shape == Known /\ Quiet /\ NoReuse /\ PushesAreLive
IInv == Typed /\ Shape /\ OnlyMembersReceive

(* The online map names the serving handlers of the people it lists, once  *)
(* somebody is put on it or taken off it.                                  *)
LEMMA PushesForLive ==
  ASSUME Typed, PushesAreLive, NEW S
  PROVE  \A j \in PushesFor(online, S) :
           j \in Conn /\ phase[j] = "serving" /\ who[j] \in S \cap Person
<1> SUFFICES ASSUME NEW j \in PushesFor(online, S)
             PROVE  j \in Conn /\ phase[j] = "serving" /\ who[j] \in S \cap Person
  OBVIOUS
<1>1. online \in [Person -> Conn \cup {NoConn}]
  BY DEF Typed
<1>2. PICK q \in S \cap Person : online[q] = j /\ j # NoConn
  BY <1>1, PushesType
<1> QED
  BY <1>1, <1>2 DEF PushesAreLive

(* Steps of the clients and the network. *)
LEMMA ShapeNetwork ==
  ASSUME Typed, Shape, NEW k \in Conn,
         Network(k) \/ \E f \in Frames : ClientFrame(k, f)
  PROVE  Shape'
<1> USE DEF Typed, Shape, Known, Quiet, NoReuse, PushesAreLive, Work, store
<1>1. CASE Accept(k)
  <2>1. \A q \in Person : online[q] # k
    BY <1>1 DEF Accept, Referenced
  <2>2. \A j \in Conn : k \notin pend[j].to
    BY <1>1 DEF Accept, Referenced
  <2>3. /\ phase' = [phase EXCEPT ![k] = "hello"] /\ phase[k] = "free"
        /\ UNCHANGED <<online, who, pend, rx, down>>
    BY <1>1 DEF Accept
  <2>4. Known' /\ Quiet' /\ NoReuse'
    BY <2>2, <2>3
  <2>5. PushesAreLive'
    BY <2>1, <2>3
  <2> QED
    BY <2>4, <2>5
<1>2. CASE Deliver(k)
  <2>1. /\ down' = [down EXCEPT ![k] = Tail(@)] /\ down[k] # <<>>
        /\ UNCHANGED <<online, phase, who, pend, rx>>
    BY <1>2 DEF Deliver
  <2> QED
    BY <2>1
<1>3. CASE CutLink(k)
  <2>1. down' = [down EXCEPT ![k] = <<>>] /\ UNCHANGED <<online, phase, who, pend, rx>>
    BY <1>3 DEF CutLink
  <2> QED
    BY <2>1
<1>4. CASE \E f \in Frames : ClientFrame(k, f)
  <2>1. UNCHANGED <<online, phase, who, pend, rx, down>>
    BY <1>4 DEF ClientFrame
  <2> QED
    BY <2>1
<1> QED
  BY <1>1, <1>2, <1>3, <1>4 DEF Network

(* A restart leaves nobody online and nothing queued. *)
LEMMA ShapeCrash ==
  ASSUME Typed, Crash
  PROVE  Shape'
BY DEF Crash, Typed, Shape, Known, Quiet, NoReuse, PushesAreLive, Idle

(* A handler that ends, its id off the online map or never on it.          *)
LEMMA ShapeTaskEnds ==
  ASSUME Typed, Shape, NEW k \in Conn, TaskEnds(k),
         online' \in [Person -> Conn \cup {NoConn}],
         \A q \in Person : online'[q] # NoConn => online'[q] = online[q] /\ online'[q] # k
  PROVE  Shape'
<1>1. /\ phase' = [phase EXCEPT ![k] = "free"] /\ who' = [who EXCEPT ![k] = Nobody]
      /\ rx' = [rx EXCEPT ![k] = <<>>] /\ down' = [down EXCEPT ![k] = <<>>]
      /\ pend' = [pend EXCEPT ![k] = Idle]
  BY DEF TaskEnds
<1>2. Known' /\ Quiet'
  BY <1>1 DEF Typed, Shape, Known, Quiet
<1>3. NoReuse'
  BY <1>1 DEF Typed, Shape, NoReuse, Idle, Work
<1>4. PushesAreLive'
  BY <1>1 DEF Typed, Shape, PushesAreLive
<1> QED
  BY <1>2, <1>3, <1>4 DEF Shape

(* Taking an id off the map leaves no channel to its handler there.        *)
LEMMA OffTheMap ==
  ASSUME Typed, PushesAreLive, NEW k \in Conn,
         online' = [online EXCEPT ![who[k]] = NoConn]
  PROVE  /\ online' \in [Person -> Conn \cup {NoConn}]
         /\ \A q \in Person : online'[q] # NoConn => online'[q] = online[q] /\ online'[q] # k
BY DEF Typed, PushesAreLive

(* The end of the select loop. *)
LEMMA ShapeLeave ==
  ASSUME Typed, Shape, NEW k \in Conn, Leave(k), phase[k] = "serving"
  PROVE  Shape'
<1> DEFINE on == [online EXCEPT ![who[k]] = NoConn]
           to == PushesFor(on, Person)
<1>1. online' = on /\ phase' = [phase EXCEPT ![k] = "leaving"] /\ UNCHANGED <<who, rx, down>>
  BY DEF Leave, store, wire
<1>2. PICK msgs : pend' = [pend EXCEPT ![k] = Pushing(msgs, to)]
  BY DEF Leave
<1>3. /\ online' \in [Person -> Conn \cup {NoConn}]
      /\ \A q \in Person : online'[q] # NoConn => online'[q] = online[q] /\ online'[q] # k
  BY <1>1, OffTheMap DEF Shape
<1>4. PushesAreLive'
  BY <1>1, <1>3 DEF Typed, Shape, PushesAreLive
<1>5. \A j \in to : j \in Conn /\ phase[j] = "serving"
  <2>1. \A j \in to : \E q \in Person : on[q] = j /\ j # NoConn
    <3>1. on \in [Person -> Conn \cup {NoConn}]
      BY <1>1, <1>3
    <3> HIDE DEF on
    <3> QED
      BY <3>1, PushesType
  <2> QED
    BY <1>1, <1>3, <2>1 DEF Typed, Shape, PushesAreLive
<1>6. Pushing(msgs, to).to \subseteq to
  BY DEF Pushing, Idle
<1>7. Known' /\ Quiet'
  BY <1>1, <1>2 DEF Typed, Shape, Known, Quiet
<1>8. NoReuse'
  <2> SUFFICES ASSUME NEW h \in Conn, NEW j \in pend'[h].to
               PROVE  phase'[j] # "hello"
    BY DEF NoReuse
  <2>1. CASE h = k
    <3>1. j \in to
      BY <1>2, <1>6, <2>1 DEF Typed
    <3> QED
      BY <1>1, <1>5, <3>1 DEF Typed
  <2>2. CASE h # k
    <3>1. j \in pend[h].to /\ j \in Conn
      BY <1>2, <2>2 DEF Typed, Work
    <3> QED
      BY <1>1, <3>1 DEF Typed, Shape, NoReuse
  <2> QED
    BY <2>1, <2>2
<1> QED
  BY <1>4, <1>7, <1>8 DEF Shape

(* Sign-in: nobody pushes to this connection yet. *)
LEMMA ShapeSignIn ==
  ASSUME Typed, Shape, NEW k \in Conn, SignIn(k)
  PROVE  Shape'
<1> DEFINE q == Head(up[k]).id
           cs == [convs EXCEPT ![Family].members = @ \cup {q}]
           on == [online EXCEPT ![q] = k]
           to == PushesFor(on, Person)
           welcome == [t |-> "welcome", members |-> members \cup {q},
                       convs |-> MetasFor(cs, q), online |-> OnlineIds(on)]
           push == <<[t |-> "members", members |-> members \cup {q}],
                     [t |-> "presence", online |-> OnlineIds(on)]>>
           work == [welcome |-> <<welcome>>, backlog |-> BacklogFor(cs, q),
                    push |-> push, to |-> to]
<1>1. Head(up[k]) \in Frames /\ Head(up[k]).t = "hello" /\ phase[k] = "hello"
  BY ConsumeType DEF SignIn, NextFrame
<1>2. q \in Person
  BY <1>1, FrameFields
<1>3. pend' = [pend EXCEPT ![k] = work] /\ work.to = to
  BY DEF SignIn
<1>4. /\ online' = on /\ phase' = [phase EXCEPT ![k] = "serving"]
      /\ who' = [who EXCEPT ![k] = q] /\ UNCHANGED <<rx, down>>
  BY DEF SignIn
<1> HIDE DEF q, work
<1>5. PushesAreLive'
  BY <1>1, <1>2, <1>4 DEF Typed, Shape, PushesAreLive
<1>6. Known' /\ Quiet'
  BY <1>1, <1>2, <1>3, <1>4 DEF Typed, Shape, Known, Quiet
<1>7. on \in [Person -> Conn \cup {NoConn}]
  BY DEF Typed
<1>8. \A j \in to : \E p \in Person : on[p] = j /\ j # NoConn
  <2> HIDE DEF on
  <2> QED
    BY <1>7, PushesType
<1>9. NoReuse'
  <2> SUFFICES ASSUME NEW h \in Conn, NEW j \in pend'[h].to
               PROVE  phase'[j] # "hello"
    BY DEF NoReuse
  <2>1. CASE h = k
    <3>1. PICK p \in Person : on[p] = j /\ j # NoConn
      BY <1>3, <1>8, <2>1 DEF Typed
    <3> QED
      BY <1>4, <1>5, <3>1 DEF PushesAreLive
  <2>2. CASE h # k
    <3>1. j \in pend[h].to /\ j \in Conn
      BY <1>3, <2>2 DEF Typed, Work
    <3> QED
      BY <1>4, <3>1 DEF Typed, Shape, NoReuse
  <2> QED
    BY <2>1, <2>2
<1> QED
  BY <1>5, <1>6, <1>9 DEF Shape

(* A serving handler that sets out to push to some live connections and    *)
(* touches neither map nor phases.                                         *)
LEMMA ShapePushing ==
  ASSUME Typed, Shape, NEW k \in Conn, phase[k] = "serving" \/ phase[k] = "leaving",
         NEW work, pend' = [pend EXCEPT ![k] = work],
         \A j \in work.to : j \in Conn /\ phase[j] # "hello",
         UNCHANGED <<online, phase, who>>,
         \A j \in Conn : phase[j] \in {"free", "hello"} => rx'[j] = rx[j] /\ down'[j] = down[j]
  PROVE  Shape'
<1>1. Known' /\ PushesAreLive'
  BY DEF Shape, Known, PushesAreLive
<1>2. Quiet'
  BY DEF Typed, Shape, Quiet
<1>3. NoReuse'
  BY DEF Typed, Shape, NoReuse, Work
<1> QED
  BY <1>1, <1>2, <1>3 DEF Shape

(* The welcome and the backlog. *)
LEMMA ShapeGreet ==
  ASSUME Typed, Shape, NEW k \in Conn, Greet(k)
  PROVE  Shape'
<1>0. pend[k] \in Work /\ \A j \in pend[k].to : j \in Conn /\ phase[j] # "hello"
  BY DEF Typed, Shape, NoReuse, Work
<1>1. CASE SendWelcome(k)
  <2>1. /\ phase[k] = "serving" /\ pend' = [pend EXCEPT ![k] = [@ EXCEPT !.welcome = <<>>]]
        /\ UNCHANGED <<online, phase, who, rx>>
        /\ \A j \in Conn : j # k => down'[j] = down[j]
    BY <1>1 DEF SendWelcome, SendOn, Typed
  <2> DEFINE work == [pend[k] EXCEPT !.welcome = <<>>]
  <2>2. work.to = pend[k].to
    BY <1>0 DEF Work
  <2>3. pend' = [pend EXCEPT ![k] = work]
    BY <2>1
  <2>4. \A j \in Conn : phase[j] \in {"free", "hello"} => rx'[j] = rx[j] /\ down'[j] = down[j]
    BY <2>1
  <2>5. \A j \in work.to : j \in Conn /\ phase[j] # "hello"
    BY <1>0, <2>2
  <2>6. UNCHANGED <<online, phase, who>> /\ (phase[k] = "serving" \/ phase[k] = "leaving")
    BY <2>1
  <2> HIDE DEF work
  <2> QED
    BY <2>3, <2>4, <2>5, <2>6, ShapePushing, Zenon
<1>2. CASE SendBacklog(k)
  <2>1. PICK m : /\ phase[k] = "serving"
                 /\ pend' = [pend EXCEPT ![k] = [pend[k] EXCEPT !.backlog = @ \ {m}]]
                 /\ UNCHANGED <<online, phase, who, rx>>
                 /\ \A j \in Conn : j # k => down'[j] = down[j]
    BY <1>2 DEF SendBacklog, SendOn, Typed
  <2> DEFINE work == [pend[k] EXCEPT !.backlog = @ \ {m}]
  <2>2. work.to = pend[k].to
    BY <1>0 DEF Work
  <2>3. pend' = [pend EXCEPT ![k] = work]
    BY <2>1
  <2>4. \A j \in Conn : phase[j] \in {"free", "hello"} => rx'[j] = rx[j] /\ down'[j] = down[j]
    BY <2>1
  <2>5. \A j \in work.to : j \in Conn /\ phase[j] # "hello"
    BY <1>0, <2>2
  <2>6. UNCHANGED <<online, phase, who>> /\ (phase[k] = "serving" \/ phase[k] = "leaving")
    BY <2>1
  <2> HIDE DEF work
  <2> QED
    BY <2>3, <2>4, <2>5, <2>6, ShapePushing, Zenon
<1>3. CASE GoOffline(k)
  BY <1>3, OffTheMap, ShapeTaskEnds DEF GoOffline, Shape
<1> QED
  BY <1>1, <1>2, <1>3 DEF Greet

(* A message goes into the queue of another handler. *)
LEMMA ShapePush ==
  ASSUME Typed, Shape, NEW k \in Conn, Push(k)
  PROVE  Shape'
<1>0. pend[k] \in Work /\ \A j \in pend[k].to : j \in Conn /\ phase[j] # "hello"
  BY DEF Typed, Shape, NoReuse, Work
<1>1. PICK j \in pend[k].to :
        /\ rx' = [rx EXCEPT ![j] = IF phase[j] = "serving" THEN @ \o pend[k].push ELSE @]
        /\ pend' = [pend EXCEPT ![k] =
             IF pend[k].to = {j} THEN Idle ELSE [pend[k] EXCEPT !.to = @ \ {j}]]
        /\ UNCHANGED <<online, phase, who, down>>
  BY DEF Push, wire
<1>2. phase[k] \in {"serving", "leaving"}
  BY <1>1 DEF Typed, Shape, Quiet, Idle
<1> DEFINE work == IF pend[k].to = {j} THEN Idle ELSE [pend[k] EXCEPT !.to = @ \ {j}]
<1>3. work.to \subseteq pend[k].to
  BY <1>0 DEF Work, Idle
<1>4. \A i \in Conn : phase[i] \in {"free", "hello"} => rx'[i] = rx[i] /\ down'[i] = down[i]
  BY <1>1 DEF Typed
<1> HIDE DEF work
<1>5. pend' = [pend EXCEPT ![k] = work]
  BY <1>1 DEF work
<1> QED
  BY <1>0, <1>1, <1>2, <1>3, <1>4, <1>5, ShapePushing

(* A message goes from a queue to its link. *)
LEMMA ShapeForwardPush ==
  ASSUME Typed, Shape, NEW k \in Conn, ForwardPush(k)
  PROVE  Shape'
<1>1. /\ phase[k] = "serving" /\ UNCHANGED <<online, phase, who, pend>>
      /\ \A j \in Conn : j # k => rx'[j] = rx[j] /\ down'[j] = down[j]
  BY DEF ForwardPush, AtSelect, SendOn, Typed, store
<1> QED
  BY <1>1 DEF Typed, Shape, Known, Quiet, NoReuse, PushesAreLive

(* A frame leaves the handler with pushes for live connections, or none.   *)
LEMMA ShapeHandleFrame ==
  ASSUME Typed, Shape, NEW k \in Conn, HandleFrame(k)
  PROVE  Shape'
<1>1. /\ phase[k] = "serving" /\ UNCHANGED <<online, phase, who, rx, down>>
      /\ pend[k] = Idle
  BY DEF HandleFrame, HandleSend, HandleAck, HandleOpenDm, HandleCreateRoom, IgnoreHello,
         AtSelect, store
<1>2. \/ UNCHANGED pend
      \/ \E msgs, S : pend' = [pend EXCEPT ![k] = Pushing(msgs, PushesFor(online, S))]
  <2>1. CASE HandleSend(k)
    BY <2>1 DEF HandleSend
  <2>2. CASE HandleAck(k) \/ IgnoreHello(k)
    BY <2>2 DEF HandleAck, IgnoreHello
  <2>3. CASE HandleOpenDm(k)
    BY <2>3 DEF HandleOpenDm
  <2>4. CASE HandleCreateRoom(k)
    BY <2>4 DEF HandleCreateRoom
  <2> QED
    BY <2>1, <2>2, <2>3, <2>4 DEF HandleFrame
<1>3. CASE UNCHANGED pend
  BY <1>1, <1>3 DEF Shape, Known, Quiet, NoReuse, PushesAreLive
<1>4. CASE \E msgs, S : pend' = [pend EXCEPT ![k] = Pushing(msgs, PushesFor(online, S))]
  <2>0. PICK msgs, S : pend' = [pend EXCEPT ![k] = Pushing(msgs, PushesFor(online, S))]
    BY <1>4
  <2>1. Pushing(msgs, PushesFor(online, S)).to \subseteq PushesFor(online, S)
    BY DEF Pushing, Idle
  <2>2. \A j \in PushesFor(online, S) : j \in Conn /\ phase[j] # "hello"
    BY PushesForLive DEF Shape
  <2> QED
    BY <1>1, <2>0, <2>1, <2>2, ShapePushing
<1> QED
  BY <1>2, <1>3, <1>4

(* Every step of a handler. *)
LEMMA ShapeHandler ==
  ASSUME Typed, Shape, NEW k \in Conn, Handler(k)
  PROVE  Shape'
<1>1. CASE DropEarlyFrame(k)
  BY <1>1 DEF DropEarlyFrame, Shape, Known, Quiet, NoReuse, PushesAreLive
<1>2. CASE GiveUpHello(k) \/ EndTask(k)
  <2>1. UNCHANGED online /\ phase[k] # "serving" /\ TaskEnds(k)
    BY <1>2 DEF GiveUpHello, EndTask
  <2>2. online' \in [Person -> Conn \cup {NoConn}]
    BY <2>1 DEF Typed
  <2>3. \A q \in Person : online'[q] # NoConn => online'[q] = online[q] /\ online'[q] # k
    BY <2>1 DEF Shape, PushesAreLive
  <2> QED
    BY <2>1, <2>2, <2>3, ShapeTaskEnds
<1>3. CASE PushRefused(k) \/ LinkEnded(k)
  BY <1>3, ShapeLeave DEF PushRefused, LinkEnded, AtSelect
<1> QED
  BY <1>1, <1>2, <1>3, ShapeSignIn, ShapeGreet, ShapePush, ShapeHandleFrame,
     ShapeForwardPush DEF Handler

(* Every step. *)
LEMMA ShapeStep ==
  ASSUME Typed, Shape, [Next]_vars
  PROVE  Shape'
<1>1. CASE UNCHANGED vars
  BY <1>1 DEF vars, Shape, Known, Quiet, NoReuse, PushesAreLive
<1>2. CASE Crash
  BY <1>2, ShapeCrash
<1>3. ASSUME NEW k \in Conn,
             Handler(k) \/ Network(k) \/ \E f \in Frames : ClientFrame(k, f)
      PROVE  Shape'
  BY <1>3, ShapeHandler, ShapeNetwork
<1> QED
  BY <1>1, <1>2, <1>3 DEF Next

-----------------------------------------------------------------------------
(* The four places a message can be in, and what keeps each of them right. *)

BacklogOk == \A k \in Conn : \A m \in pend[k].backlog : MaySee(who[k], m)
PushOk == \A k \in Conn : \A j \in pend[k].to, i \in DOMAIN pend[k].push :
            phase[j] = "serving" => MaySee(who[j], pend[k].push[i])
QueueOk == \A k \in Conn : \A i \in DOMAIN rx[k] : MaySee(who[k], rx[k][i])
LinkOk == \A k \in Conn : \A i \in DOMAIN down[k] : MaySee(who[k], down[k][i])

(* The places together are the property, now and after a step. *)
LEMMA FourPlaces ==
  /\ OnlyMembersReceive <=> BacklogOk /\ PushOk /\ QueueOk /\ LinkOk
  /\ OnlyMembersReceive' <=> BacklogOk' /\ PushOk' /\ QueueOk' /\ LinkOk'
BY DEF OnlyMembersReceive, BacklogOk, PushOk, QueueOk, LinkOk

(* Conversations only ever take people in. *)
Widen == \A c \in ConvId : convs[c].members \subseteq convs'[c].members

(* A message names its conversation. *)
LEMMA MsgConv ==
  ASSUME NEW m \in ServerMsgs, m.t = "msg"
  PROVE  m.conv \in ConvId
BY DEF ServerMsgs, Msgs, Welcomes, Notices

(* What is left of a sequence was in it. *)
LEMMA TailFrom ==
  ASSUME NEW S, NEW s \in Seq(S), s # <<>>, NEW i \in DOMAIN Tail(s)
  PROVE  i + 1 \in DOMAIN s /\ Tail(s)[i] = s[i + 1]
OBVIOUS

(* What is appended comes after what was there. *)
LEMMA AppendedFrom ==
  ASSUME NEW S, NEW s \in Seq(S), NEW t \in Seq(S),
         NEW i \in DOMAIN (s \o t), i \notin DOMAIN s
  PROVE  i - Len(s) \in DOMAIN t /\ (s \o t)[i] = t[i - Len(s)]
OBVIOUS

(* A backlog that only shrinks stays right. *)
LEMMA BacklogKept ==
  ASSUME Typed, BacklogOk, Widen,
         \A k \in Conn : pend'[k].backlog # {} =>
           who'[k] = who[k] /\ pend'[k].backlog \subseteq pend[k].backlog
  PROVE  BacklogOk'
<1> SUFFICES ASSUME NEW k \in Conn, NEW m \in pend'[k].backlog
             PROVE  MaySee(who[k], m)'
  BY DEF BacklogOk
<1>1. m \in pend[k].backlog /\ who'[k] = who[k]
  OBVIOUS
<1>2. m \in Msgs /\ m.conv \in ConvId
  BY <1>1 DEF Typed, Work, Msgs
<1> QED
  BY <1>1, <1>2 DEF BacklogOk, MaySee, Widen

(* Pushes that are only carried out stay right. *)
LEMMA PushKept ==
  ASSUME Typed, PushOk, Widen,
         \A k \in Conn : pend'[k].to # {} =>
           pend'[k].to \subseteq pend[k].to /\ pend'[k].push = pend[k].push,
         \A k \in Conn : \A j \in pend[k].to : phase'[j] = "serving" =>
           phase[j] = "serving" /\ who'[j] = who[j]
  PROVE  PushOk'
<1> SUFFICES ASSUME NEW k \in Conn, NEW j \in pend'[k].to, NEW i \in DOMAIN pend'[k].push,
                    phase'[j] = "serving"
             PROVE  MaySee(who[j], pend[k].push[i])'
  BY DEF PushOk
<1>1. j \in pend[k].to /\ pend'[k].push = pend[k].push
  OBVIOUS
<1>2. pend[k].push \in Seq(Msgs \cup Notices)
  BY DEF Typed, Work
<1>3. pend[k].push[i] \in ServerMsgs
  BY <1>1, <1>2 DEF ServerMsgs
<1> QED
  BY <1>1, <1>3, MsgConv DEF PushOk, MaySee, Widen

(* A queue that is only read stays right. *)
LEMMA QueueKept ==
  ASSUME Typed, QueueOk, Widen,
         \A k \in Conn : rx'[k] # <<>> =>
           who'[k] = who[k] /\ (rx'[k] = rx[k] \/ (rx[k] # <<>> /\ rx'[k] = Tail(rx[k])))
  PROVE  QueueOk'
<1> SUFFICES ASSUME NEW k \in Conn, NEW i \in DOMAIN rx'[k]
             PROVE  MaySee(who[k], rx[k][i])'
  BY DEF QueueOk
<1>1. rx[k] \in Seq(Msgs \cup Notices)
  BY DEF Typed
<1>2. rx'[k] # <<>> /\ who'[k] = who[k]
  OBVIOUS
<1>3. \E h \in DOMAIN rx[k] : rx'[k][i] = rx[k][h]
  <2>1. CASE rx'[k] = rx[k]
    BY <2>1
  <2>2. CASE rx[k] # <<>> /\ rx'[k] = Tail(rx[k])
    BY <1>1, <2>2, TailFrom
  <2> QED
    BY <1>2, <2>1, <2>2
<1>4. PICK h \in DOMAIN rx[k] : rx'[k][i] = rx[k][h]
  BY <1>3
<1>5. rx[k][h] \in ServerMsgs
  BY <1>1 DEF ServerMsgs
<1> QED
  BY <1>2, <1>4, <1>5, MsgConv DEF QueueOk, MaySee, Widen

(* A link that is only read stays right. *)
LEMMA LinkKept ==
  ASSUME Typed, LinkOk, Widen,
         \A k \in Conn : down'[k] # <<>> =>
           who'[k] = who[k] /\ (down'[k] = down[k] \/ (down[k] # <<>> /\ down'[k] = Tail(down[k])))
  PROVE  LinkOk'
<1> SUFFICES ASSUME NEW k \in Conn, NEW i \in DOMAIN down'[k]
             PROVE  MaySee(who[k], down[k][i])'
  BY DEF LinkOk
<1>1. down[k] \in Seq(ServerMsgs)
  BY DEF Typed
<1>2. down'[k] # <<>> /\ who'[k] = who[k]
  OBVIOUS
<1>3. \E h \in DOMAIN down[k] : down'[k][i] = down[k][h]
  <2>1. CASE down'[k] = down[k]
    BY <2>1
  <2>2. CASE down[k] # <<>> /\ down'[k] = Tail(down[k])
    BY <1>1, <2>2, TailFrom
  <2> QED
    BY <1>2, <2>1, <2>2
<1>4. PICK h \in DOMAIN down[k] : down'[k][i] = down[k][h]
  BY <1>3
<1>5. down[k][h] \in ServerMsgs
  BY <1>1
<1> QED
  BY <1>2, <1>4, <1>5, MsgConv DEF LinkOk, MaySee, Widen

(* Sending somebody a message she may see. *)
LEMMA SendOnSeen ==
  ASSUME Typed, LinkOk, UNCHANGED <<convs, who>>, NEW k \in Conn, NEW m \in ServerMsgs,
         SendOn(k, m), MaySee(who[k], m)
  PROVE  LinkOk'
<1>1. CASE UNCHANGED down
  BY <1>1 DEF LinkOk, MaySee
<1>2. CASE down' = [down EXCEPT ![k] = Append(@, m)]
  <2> SUFFICES ASSUME NEW h \in Conn, NEW i \in DOMAIN down'[h]
               PROVE  MaySee(who[h], down[h][i])'
    BY DEF LinkOk
  <2>1. down[h] \in Seq(ServerMsgs)
    BY DEF Typed
  <2>2. CASE h = k /\ i = Len(down[k]) + 1
    <3>1. down'[h][i] = m
      BY <1>2, <2>1, <2>2 DEF Typed
    <3> QED
      BY <2>2, <3>1 DEF MaySee
  <2>3. CASE ~(h = k /\ i = Len(down[k]) + 1)
    <3>1. i \in DOMAIN down[h] /\ down'[h][i] = down[h][i]
      BY <1>2, <2>1, <2>3 DEF Typed
    <3> QED
      BY <3>1 DEF LinkOk, MaySee
  <2> QED
    BY <2>2, <2>3
<1> QED
  BY <1>1, <1>2 DEF SendOn

-----------------------------------------------------------------------------
(* Each step in turn. *)

(* Steps of the clients and the network. *)
LEMMA SeenNetwork ==
  ASSUME Typed, Shape, OnlyMembersReceive, NEW k \in Conn,
         Network(k) \/ \E f \in Frames : ClientFrame(k, f)
  PROVE  OnlyMembersReceive'
<1>1. /\ UNCHANGED <<convs, who, pend, rx>>
      /\ \A h \in Conn : phase'[h] = phase[h] \/ phase'[h] = "hello"
      /\ \A h \in Conn : down'[h] # <<>> =>
           down'[h] = down[h] \/ (down[h] # <<>> /\ down'[h] = Tail(down[h]))
  BY DEF Network, Accept, Deliver, CutLink, ClientFrame, Typed, store
<1>2. Widen
  BY <1>1 DEF Widen
<1>3. BacklogOk' /\ QueueOk' /\ LinkOk'
  BY <1>1, <1>2, FourPlaces, BacklogKept, QueueKept, LinkKept
<1>4. PushOk'
  <2>1. \A h \in Conn : \A j \in pend[h].to : phase'[j] = "serving" => phase[j] = "serving"
    BY <1>1 DEF Typed, Work
  <2> QED
    BY <1>1, <1>2, <2>1, FourPlaces, PushKept
<1> QED
  BY <1>3, <1>4, FourPlaces

(* A restart loses everything under way. *)
LEMMA SeenCrash ==
  ASSUME Typed, Crash
  PROVE  OnlyMembersReceive'
BY DEF Crash, OnlyMembersReceive, Idle

(* A handler that ends loses what it had under way. *)
LEMMA SeenTaskEnds ==
  ASSUME Typed, OnlyMembersReceive, NEW k \in Conn, TaskEnds(k), UNCHANGED convs
  PROVE  OnlyMembersReceive'
<1>1. /\ phase' = [phase EXCEPT ![k] = "free"] /\ who' = [who EXCEPT ![k] = Nobody]
      /\ rx' = [rx EXCEPT ![k] = <<>>] /\ down' = [down EXCEPT ![k] = <<>>]
      /\ pend' = [pend EXCEPT ![k] = Idle]
  BY DEF TaskEnds
<1>2. Widen
  BY DEF Widen
<1>3. BacklogOk'
  BY <1>1, <1>2, FourPlaces, BacklogKept DEF Typed, Idle
<1>4. PushOk'
  <2>1. \A h \in Conn : pend'[h].to # {} =>
          pend'[h].to \subseteq pend[h].to /\ pend'[h].push = pend[h].push
    BY <1>1 DEF Typed, Idle
  <2>2. \A h \in Conn : \A j \in pend[h].to : phase'[j] = "serving" =>
          phase[j] = "serving" /\ who'[j] = who[j]
    BY <1>1 DEF Typed, Work
  <2> QED
    BY <1>2, <2>1, <2>2, FourPlaces, PushKept
<1>5. QueueOk' /\ LinkOk'
  BY <1>1, <1>2, FourPlaces, QueueKept, LinkKept DEF Typed
<1> QED
  BY <1>3, <1>4, <1>5, FourPlaces

(* A handler sets out to push: nothing else moves towards anybody.         *)
LEMMA SeenPushing ==
  ASSUME Typed, OnlyMembersReceive, Widen, NEW k \in Conn, NEW msgs, NEW S,
         pend' = [pend EXCEPT ![k] = Pushing(msgs, S)],
         UNCHANGED <<who, rx, down>>, S \subseteq Conn,
         \A j \in Conn : phase'[j] = "serving" => phase[j] = "serving",
         \A j \in S, i \in DOMAIN msgs : phase'[j] = "serving" =>
           (msgs[i].t = "msg" => who'[j] \in convs'[msgs[i].conv].members)
  PROVE  OnlyMembersReceive'
<1>1. Pushing(msgs, S).backlog = {} /\ Pushing(msgs, S).to \subseteq S
  BY DEF Pushing, Idle
<1>2. Pushing(msgs, S).to # {} => Pushing(msgs, S).push = msgs
  BY DEF Pushing, Idle
<1>3. BacklogOk'
  BY <1>1, FourPlaces, BacklogKept DEF Typed
<1>4. PushOk'
  <2> DEFINE old == [pend EXCEPT ![k] = Idle]
  <2> SUFFICES ASSUME NEW h \in Conn, NEW j \in pend'[h].to, NEW i \in DOMAIN pend'[h].push,
                      phase'[j] = "serving"
               PROVE  MaySee(who[j], pend[h].push[i])'
    BY DEF PushOk
  <2>1. CASE h = k
    <3>1. pend'[h] = Pushing(msgs, S)
      BY <2>1 DEF Typed
    <3>2. j \in S /\ pend'[h].push = msgs /\ i \in DOMAIN msgs
      BY <1>1, <1>2, <3>1
    <3> QED
      BY <3>2 DEF MaySee
  <2>2. CASE h # k
    <3>1. pend'[h] = pend[h] /\ pend[h] \in Work
      BY <2>2 DEF Typed
    <3>2. j \in Conn /\ pend[h].push \in Seq(Msgs \cup Notices)
      BY <3>1 DEF Work
    <3>3. pend[h].push[i] \in ServerMsgs
      BY <3>1, <3>2 DEF ServerMsgs
    <3>4. MaySee(who[j], pend[h].push[i])
      BY <3>1, <3>2, FourPlaces DEF PushOk
    <3> QED
      BY <3>1, <3>3, <3>4, MsgConv DEF MaySee, Widen
  <2> QED
    BY <2>1, <2>2
<1>5. QueueOk' /\ LinkOk'
  BY FourPlaces, QueueKept, LinkKept
<1> QED
  BY <1>3, <1>4, <1>5, FourPlaces

(* The end of the select loop: the news is who is online. *)
LEMMA SeenLeave ==
  ASSUME Typed, OnlyMembersReceive, NEW k \in Conn, Leave(k)
  PROVE  OnlyMembersReceive'
<1> DEFINE on == [online EXCEPT ![who[k]] = NoConn]
           m == [t |-> "presence", online |-> OnlineIds(on)]
           msgs == <<m>>
           to == PushesFor(on, Person)
<1>1. /\ pend' = [pend EXCEPT ![k] = Pushing(msgs, to)]
      /\ phase' = [phase EXCEPT ![k] = "leaving"]
      /\ UNCHANGED <<convs, who, rx, down>>
  BY DEF Leave, store, wire
<1>2. Widen /\ to \subseteq Conn
  <2>1. on \in [Person -> Conn \cup {NoConn}]
    BY DEF Typed
  <2> QED
    BY <1>1, <2>1, PushesType DEF Widen
<1>3. \A i \in DOMAIN msgs : msgs[i].t # "msg"
  OBVIOUS
<1>4. \A j \in Conn : phase'[j] = "serving" => phase[j] = "serving"
  BY <1>1 DEF Typed
<1> HIDE DEF msgs, to
<1>5. \A j \in to, i \in DOMAIN msgs : phase'[j] = "serving" =>
        (msgs[i].t = "msg" => who'[j] \in convs'[msgs[i].conv].members)
  BY <1>3
<1>6. UNCHANGED <<who, rx, down>>
  BY <1>1
<1> QED
  BY <1>1, <1>2, <1>4, <1>5, <1>6, SeenPushing

(* Sign-in: the backlog is from conversations its reader is in. *)
LEMMA SeenSignIn ==
  ASSUME Typed, Shape, OnlyMembersReceive, NEW k \in Conn, SignIn(k)
  PROVE  OnlyMembersReceive'
<1> DEFINE q == Head(up[k]).id
           cs == [convs EXCEPT ![Family].members = @ \cup {q}]
           on == [online EXCEPT ![q] = k]
           welcome == [t |-> "welcome", members |-> members \cup {q},
                       convs |-> MetasFor(cs, q), online |-> OnlineIds(on)]
           push == <<[t |-> "members", members |-> members \cup {q}],
                     [t |-> "presence", online |-> OnlineIds(on)]>>
           work == [welcome |-> <<welcome>>, backlog |-> BacklogFor(cs, q),
                    push |-> push, to |-> PushesFor(on, Person)]
<1>1. /\ pend' = [pend EXCEPT ![k] = work] /\ convs' = cs
      /\ who' = [who EXCEPT ![k] = q] /\ phase' = [phase EXCEPT ![k] = "serving"]
      /\ UNCHANGED <<rx, down>> /\ phase[k] = "hello"
  BY DEF SignIn
<1>2. Widen
  BY <1>1 DEF Widen, Typed, Conv
<1>3. cs \in [ConvId -> Conv]
  BY <1>1, SignInType DEF Typed
<1>4. rx[k] = <<>> /\ down[k] = <<>> /\ \A h \in Conn : k \notin pend[h].to
  BY <1>1 DEF Shape, Quiet, NoReuse
<1>5. work.backlog = BacklogFor(cs, q) /\ work.push = push
  OBVIOUS
<1>6. \A i \in DOMAIN push : push[i].t # "msg"
  OBVIOUS
<1> HIDE DEF q, cs, push, work
<1>7. BacklogOk'
  <2> SUFFICES ASSUME NEW h \in Conn, NEW m \in pend'[h].backlog
               PROVE  MaySee(who[h], m)'
    BY DEF BacklogOk
  <2>1. CASE h = k
    <3>1. m \in BacklogFor(cs, q) /\ who'[h] = q
      BY <1>1, <1>5, <2>1 DEF Typed
    <3> QED
      BY <1>1, <1>3, <3>1, BacklogType DEF MaySee
  <2>2. CASE h # k
    <3>1. m \in pend[h].backlog /\ who'[h] = who[h] /\ pend[h] \in Work
      BY <1>1, <2>2 DEF Typed
    <3>2. m.conv \in ConvId
      BY <3>1 DEF Work, Msgs
    <3> QED
      BY <1>2, <3>1, <3>2, FourPlaces DEF BacklogOk, MaySee, Widen
  <2> QED
    BY <2>1, <2>2
<1>8. PushOk'
  <2> SUFFICES ASSUME NEW h \in Conn, NEW j \in pend'[h].to, NEW i \in DOMAIN pend'[h].push,
                      phase'[j] = "serving"
               PROVE  MaySee(who[j], pend[h].push[i])'
    BY DEF PushOk
  <2>1. CASE h = k
    <3>1. pend'[h].push = push
      BY <1>1, <1>5, <2>1 DEF Typed
    <3> QED
      BY <1>6, <3>1 DEF MaySee
  <2>2. CASE h # k
    <3>1. pend'[h] = pend[h] /\ pend[h] \in Work
      BY <1>1, <2>2 DEF Typed
    <3>2. j \in Conn /\ j # k /\ pend[h].push \in Seq(Msgs \cup Notices)
      BY <1>4, <3>1 DEF Work
    <3>3. pend[h].push[i] \in ServerMsgs
      BY <3>1, <3>2 DEF ServerMsgs
    <3>4. phase[j] = "serving" /\ who'[j] = who[j]
      BY <1>1, <3>2 DEF Typed
    <3>5. MaySee(who[j], pend[h].push[i])
      BY <3>1, <3>4, FourPlaces DEF PushOk
    <3> QED
      BY <1>2, <3>1, <3>3, <3>4, <3>5, MsgConv DEF MaySee, Widen
  <2> QED
    BY <2>1, <2>2
<1>9. QueueOk' /\ LinkOk'
  BY <1>1, <1>2, <1>4, FourPlaces, QueueKept, LinkKept DEF Typed
<1> QED
  BY <1>7, <1>8, <1>9, FourPlaces

(* The welcome and the backlog. *)
LEMMA SeenGreet ==
  ASSUME Typed, Shape, OnlyMembersReceive, NEW k \in Conn, Greet(k)
  PROVE  OnlyMembersReceive'
<1>0. pend[k] \in Work
  BY DEF Typed
<1>1. CASE SendWelcome(k)
  <2> DEFINE m == pend[k].welcome[1]
             work == [pend[k] EXCEPT !.welcome = <<>>]
  <2>1. m \in Welcomes
    BY <1>0, <1>1 DEF SendWelcome, Work
  <2>2. m \in ServerMsgs /\ MaySee(who[k], m)
    BY <2>1 DEF ServerMsgs, MaySee, Welcomes
  <2>3. SendOn(k, m) /\ UNCHANGED <<convs, who, phase, rx>> /\ pend' = [pend EXCEPT ![k] = work]
    BY <1>1 DEF SendWelcome, store
  <2>4. LinkOk'
    BY <2>2, <2>3, SendOnSeen, FourPlaces
  <2>5. Widen
    BY <2>3 DEF Widen
  <2>6. work.backlog = pend[k].backlog /\ work.to = pend[k].to /\ work.push = pend[k].push
    BY <1>0 DEF Work
  <2> HIDE DEF work
  <2>7. BacklogOk' /\ QueueOk'
    BY <2>3, <2>5, <2>6, FourPlaces, BacklogKept, QueueKept DEF Typed
  <2>8. PushOk'
    BY <2>3, <2>5, <2>6, FourPlaces, PushKept DEF Typed
  <2> QED
    BY <2>4, <2>7, <2>8, FourPlaces
<1>2. CASE SendBacklog(k)
  <2>1. PICK m \in pend[k].backlog :
          SendOn(k, m) /\ pend' = [pend EXCEPT ![k].backlog = @ \ {m}]
    BY <1>2 DEF SendBacklog
  <2> DEFINE work == [pend[k] EXCEPT !.backlog = @ \ {m}]
  <2>2. m \in ServerMsgs /\ MaySee(who[k], m)
    BY <1>0, FourPlaces DEF Work, ServerMsgs, BacklogOk
  <2>3. UNCHANGED <<convs, who, phase, rx>> /\ pend' = [pend EXCEPT ![k] = work]
    BY <1>2, <2>1 DEF SendBacklog, store
  <2>4. LinkOk'
    BY <2>1, <2>2, <2>3, SendOnSeen, FourPlaces
  <2>5. Widen
    BY <2>3 DEF Widen
  <2>6. /\ work.backlog \subseteq pend[k].backlog
        /\ work.to = pend[k].to /\ work.push = pend[k].push
    BY <1>0 DEF Work
  <2> HIDE DEF work
  <2>7. BacklogOk' /\ QueueOk'
    BY <2>3, <2>5, <2>6, FourPlaces, BacklogKept, QueueKept DEF Typed
  <2>8. PushOk'
    BY <2>3, <2>5, <2>6, FourPlaces, PushKept DEF Typed
  <2> QED
    BY <2>4, <2>7, <2>8, FourPlaces
<1>3. CASE GoOffline(k)
  BY <1>3, SeenTaskEnds DEF GoOffline, store
<1> QED
  BY <1>1, <1>2, <1>3 DEF Greet

(* A message goes into the queue of another handler. *)
LEMMA SeenPush ==
  ASSUME Typed, Shape, OnlyMembersReceive, NEW k \in Conn, Push(k)
  PROVE  OnlyMembersReceive'
<1>0. pend[k] \in Work
  BY DEF Typed
<1>1. PICK j \in pend[k].to :
        /\ rx' = [rx EXCEPT ![j] = IF phase[j] = "serving" THEN @ \o pend[k].push ELSE @]
        /\ pend' = [pend EXCEPT ![k] =
             IF pend[k].to = {j} THEN Idle ELSE [pend[k] EXCEPT !.to = @ \ {j}]]
        /\ UNCHANGED <<convs, phase, who, down>>
  BY DEF Push, wire, store
<1>2. Widen
  BY <1>1 DEF Widen
<1> DEFINE work == IF pend[k].to = {j} THEN Idle ELSE [pend[k] EXCEPT !.to = @ \ {j}]
<1>3. /\ work.backlog \subseteq pend[k].backlog /\ work.to \subseteq pend[k].to
      /\ work.to # {} => work.push = pend[k].push
  BY <1>0 DEF Work, Idle
<1>4. pend' = [pend EXCEPT ![k] = work]
  BY <1>1
<1> HIDE DEF work
<1>5. BacklogOk' /\ LinkOk'
  BY <1>1, <1>2, <1>3, <1>4, FourPlaces, BacklogKept, LinkKept DEF Typed
<1>6. PushOk'
  BY <1>1, <1>2, <1>3, <1>4, FourPlaces, PushKept DEF Typed
<1>7. QueueOk'
  <2> SUFFICES ASSUME NEW h \in Conn, NEW i \in DOMAIN rx'[h]
               PROVE  MaySee(who[h], rx[h][i])'
    BY DEF QueueOk
  <2>1. rx[h] \in Seq(Msgs \cup Notices) /\ pend[k].push \in Seq(Msgs \cup Notices)
    <3>1. rx \in [Conn -> Seq(Msgs \cup Notices)]
      BY DEF Typed
    <3> QED
      BY <1>0, <3>1 DEF Work
  <2>2. CASE rx'[h] = rx[h]
    BY <1>1, <2>2, FourPlaces DEF QueueOk, MaySee
  <2>3. CASE h = j /\ phase[j] = "serving" /\ rx'[h] = rx[h] \o pend[k].push
    <3>1. CASE i \in DOMAIN rx[h]
      <4>1. rx'[h][i] = rx[h][i]
        BY <2>1, <2>3, <3>1
      <4> QED
        BY <1>1, <3>1, <4>1, FourPlaces DEF QueueOk, MaySee
    <3>2. CASE i \notin DOMAIN rx[h]
      <4>1. i - Len(rx[h]) \in DOMAIN pend[k].push
            /\ rx'[h][i] = pend[k].push[i - Len(rx[h])]
        <5>1. i \in DOMAIN (rx[h] \o pend[k].push)
          BY <2>3
        <5>2. i - Len(rx[h]) \in DOMAIN pend[k].push
              /\ (rx[h] \o pend[k].push)[i] = pend[k].push[i - Len(rx[h])]
          BY <2>1, <3>2, <5>1, AppendedFrom, Zenon
        <5> QED
          BY <2>3, <5>2
      <4> QED
        BY <1>1, <2>3, <4>1, FourPlaces DEF PushOk, MaySee
    <3> QED
      BY <3>1, <3>2
  <2> QED
    BY <1>1, <2>2, <2>3 DEF Typed
<1> QED
  BY <1>5, <1>6, <1>7, FourPlaces

(* A message goes from a queue to its link. *)
LEMMA SeenForwardPush ==
  ASSUME Typed, OnlyMembersReceive, NEW k \in Conn, ForwardPush(k)
  PROVE  OnlyMembersReceive'
<1>1. /\ rx[k] # <<>> /\ rx' = [rx EXCEPT ![k] = Tail(rx[k])] /\ SendOn(k, Head(rx[k]))
      /\ UNCHANGED <<convs, phase, who, pend>>
  BY DEF ForwardPush, store
<1>2. rx[k] \in Seq(Msgs \cup Notices)
  BY DEF Typed
<1>3. Head(rx[k]) \in ServerMsgs /\ MaySee(who[k], Head(rx[k]))
  <2>1. Head(rx[k]) = rx[k][1] /\ 1 \in DOMAIN rx[k]
    BY <1>1, <1>2
  <2> QED
    BY <1>2, <2>1, FourPlaces DEF QueueOk, ServerMsgs
<1>4. LinkOk'
  BY <1>1, <1>3, SendOnSeen, FourPlaces
<1>5. Widen
  BY <1>1 DEF Widen
<1>6. BacklogOk' /\ PushOk' /\ QueueOk'
  <2>1. BacklogOk' /\ PushOk'
    BY <1>1, <1>5, FourPlaces, BacklogKept, PushKept DEF Typed
  <2>2. QueueOk'
    BY <1>1, <1>5, FourPlaces, QueueKept DEF Typed
  <2> QED
    BY <2>1, <2>2
<1> QED
  BY <1>4, <1>6, FourPlaces

(* A message is pushed to members of its conversation. *)
LEMMA SeenHandleSend ==
  ASSUME Typed, Shape, OnlyMembersReceive, NEW k \in Conn, HandleSend(k)
  PROVE  OnlyMembersReceive'
<1> DEFINE f == Head(up[k])
           conv == Posted(convs[f.conv], who[k], f.text)
           msg == Msg(f.conv, conv.log[Len(conv.log)])
           msgs == <<msg>>
           to == PushesFor(online, Recipients(conv, who[k]))
<1>1. f \in Frames /\ f.t = "send" /\ who[k] \in Person
  BY ConsumeType DEF HandleSend, NextFrame, AtSelect, Shape, Known
<1>2. f.conv \in ConvId /\ f.text \in Text /\ convs[f.conv] \in Conv
  BY <1>1, FrameFields DEF Typed
<1>3. UNCHANGED <<phase, who, rx, down>>
  BY DEF HandleSend
<1>4. CASE Has(convs[f.conv], who[k])
  <2>1. /\ convs' = [convs EXCEPT ![f.conv] = conv]
        /\ pend' = [pend EXCEPT ![k] = Pushing(msgs, to)]
    BY <1>4 DEF HandleSend
  <2>2. conv.members = convs[f.conv].members
    BY <1>1, <1>2, PostedType
  <2>3. Widen /\ convs'[f.conv].members = convs[f.conv].members
    <3> HIDE DEF conv, f
    <3> QED
      BY <1>2, <2>1, <2>2 DEF Widen, Typed
  <2>4. to \subseteq Conn /\ \A j \in to : phase[j] = "serving" /\ who[j] \in conv.members
    <3>1. \A j \in to : j \in Conn /\ phase[j] = "serving"
                        /\ who[j] \in Recipients(conv, who[k]) \cap Person
      BY PushesForLive DEF Shape
    <3> QED
      BY <3>1 DEF Recipients
  <2>5. \A i \in DOMAIN msgs : msgs[i].t = "msg" /\ msgs[i].conv = f.conv
    <3>1. msg.t = "msg" /\ msg.conv = f.conv
      BY DEF Msg
    <3> HIDE DEF msg, f
    <3> QED
      BY <3>1
  <2> HIDE DEF msgs, to, conv, f
  <2>6. \A j \in to, i \in DOMAIN msgs : phase'[j] = "serving" =>
          (msgs[i].t = "msg" => who'[j] \in convs'[msgs[i].conv].members)
    BY <1>3, <2>2, <2>3, <2>4, <2>5
  <2> QED
    BY <1>3, <2>1, <2>3, <2>4, <2>6, SeenPushing
<1>5. CASE ~Has(convs[f.conv], who[k])
  <2>1. UNCHANGED <<convs, pend>>
    BY <1>5, Zenon DEF HandleSend
  <2> QED
    BY <1>3, <2>1 DEF OnlyMembersReceive, MaySee
<1> QED
  BY <1>4, <1>5

(* Notices of a new conversation carry no message.                         *)
LEMMA SeenNotice ==
  ASSUME Typed, Shape, OnlyMembersReceive, Widen, NEW k \in Conn, NEW msgs, NEW S,
         pend' = [pend EXCEPT ![k] = Pushing(msgs, PushesFor(online, S))],
         UNCHANGED <<phase, who, rx, down>>, \A i \in DOMAIN msgs : msgs[i].t # "msg"
  PROVE  OnlyMembersReceive'
<1> DEFINE to == PushesFor(online, S)
<1>1. to \subseteq Conn
  BY PushesForLive DEF Shape
<1>2. \A j \in to, i \in DOMAIN msgs : phase'[j] = "serving" =>
        (msgs[i].t = "msg" => who'[j] \in convs'[msgs[i].conv].members)
  OBVIOUS
<1>3. pend' = [pend EXCEPT ![k] = Pushing(msgs, to)]
  OBVIOUS
<1>4. \A j \in Conn : phase'[j] = "serving" => phase[j] = "serving"
  OBVIOUS
<1> HIDE DEF to
<1> QED
  BY <1>1, <1>2, <1>3, <1>4, SeenPushing

(* An Ack sends nothing. *)
LEMMA SeenHandleAck ==
  ASSUME Typed, Shape, OnlyMembersReceive, NEW k \in Conn, HandleAck(k)
  PROVE  OnlyMembersReceive'
<1> DEFINE f == Head(up[k])
<1>1. f \in Frames /\ f.t = "ack" /\ who[k] \in Person
  BY ConsumeType DEF HandleAck, NextFrame, AtSelect, Shape, Known
<1>2. f.conv \in ConvId /\ f.seq \in Nat /\ convs[f.conv] \in Conv
  BY <1>1, FrameFields DEF Typed
<1>3. /\ UNCHANGED <<phase, who, pend, rx, down>>
      /\ convs' = IF convs[f.conv].members = {} THEN convs
                  ELSE [convs EXCEPT ![f.conv] = Acked(@, who[k], f.seq)]
  BY DEF HandleAck
<1>4. \A c \in ConvId : convs'[c].members = convs[c].members
  <2> DEFINE conv == Acked(convs[f.conv], who[k], f.seq)
  <2>1. conv.members = convs[f.conv].members
    BY <1>1, <1>2, AckedType
  <2>2. convs' = convs \/ convs' = [convs EXCEPT ![f.conv] = conv]
    BY <1>3
  <2> HIDE DEF conv, f
  <2> QED
    BY <1>2, <2>1, <2>2 DEF Typed
<1>5. Widen
  BY <1>4 DEF Widen
<1>6. BacklogOk' /\ PushOk'
  BY <1>3, <1>5, FourPlaces, BacklogKept, PushKept
<1>7. QueueOk' /\ LinkOk'
  BY <1>3, <1>5, FourPlaces, QueueKept, LinkKept
<1> QED
  BY <1>6, <1>7, FourPlaces

(* A conversation of two is opened, and announced to both. *)
LEMMA SeenHandleOpenDm ==
  ASSUME Typed, Shape, OnlyMembersReceive, NEW k \in Conn, HandleOpenDm(k)
  PROVE  OnlyMembersReceive'
<1> DEFINE c == {who[k], Head(up[k]).peer}
           m == [t |-> "conv", conv |-> c]
           msgs == IF Cardinality(c) = 1 THEN <<m, m>> ELSE <<m>>
<1>1. /\ pend' = [pend EXCEPT ![k] = Pushing(msgs, PushesFor(online, c))]
      /\ UNCHANGED <<phase, who, rx, down>>
      /\ IF convs[c].members = {} THEN convs' = [convs EXCEPT ![c] = NewConv(c)]
         ELSE UNCHANGED convs
  BY DEF HandleOpenDm
<1>2. \A i \in DOMAIN msgs : msgs[i].t # "msg"
  OBVIOUS
<1>3. Widen
  <2> HIDE DEF c
  <2> QED
    BY <1>1 DEF Widen, Typed
<1> HIDE DEF msgs, c
<1> QED
  BY <1>1, <1>2, <1>3, SeenNotice

(* A room is created, and announced to its members. *)
LEMMA SeenHandleCreateRoom ==
  ASSUME Typed, Shape, OnlyMembersReceive, NEW k \in Conn, HandleCreateRoom(k)
  PROVE  OnlyMembersReceive'
<1> DEFINE S == Head(up[k]).members \cup {who[k]}
<1>1. PICK r \in UnusedRooms :
        /\ convs' = [convs EXCEPT ![r] = NewConv(S)]
        /\ pend' = [pend EXCEPT ![k] =
             Pushing(<<[t |-> "conv", conv |-> r]>>, PushesFor(online, S))]
        /\ UNCHANGED <<phase, who, rx, down>>
  BY DEF HandleCreateRoom
<1> DEFINE msgs == <<[t |-> "conv", conv |-> r]>>
<1>2. pend' = [pend EXCEPT ![k] = Pushing(msgs, PushesFor(online, S))]
  BY <1>1
<1>3. \A i \in DOMAIN msgs : msgs[i].t # "msg"
  OBVIOUS
<1>4. Widen
  <2>1. convs[r].members = {}
    BY DEF UnusedRooms
  <2> HIDE DEF S
  <2> QED
    BY <1>1, <2>1 DEF Widen, Typed
<1> HIDE DEF msgs, S
<1> QED
  BY <1>1, <1>2, <1>3, <1>4, SeenNotice

(* Every step of a handler. *)
LEMMA SeenHandler ==
  ASSUME Typed, Shape, OnlyMembersReceive, NEW k \in Conn, Handler(k)
  PROVE  OnlyMembersReceive'
<1>1. CASE DropEarlyFrame(k) \/ IgnoreHello(k)
  BY <1>1 DEF DropEarlyFrame, IgnoreHello, store, OnlyMembersReceive, MaySee
<1>2. CASE GiveUpHello(k) \/ EndTask(k)
  BY <1>2, SeenTaskEnds DEF GiveUpHello, EndTask, store
<1>3. CASE PushRefused(k) \/ LinkEnded(k)
  BY <1>3, SeenLeave DEF PushRefused, LinkEnded
<1>4. CASE HandleFrame(k)
  BY <1>1, <1>4, SeenHandleSend, SeenHandleAck, SeenHandleOpenDm, SeenHandleCreateRoom
     DEF HandleFrame
<1> QED
  BY <1>1, <1>2, <1>3, <1>4, SeenSignIn, SeenGreet, SeenPush, SeenForwardPush DEF Handler

(* Every step. *)
LEMMA SeenStep ==
  ASSUME Typed, Shape, OnlyMembersReceive, [Next]_vars
  PROVE  OnlyMembersReceive'
<1>1. CASE UNCHANGED vars
  BY <1>1 DEF vars, OnlyMembersReceive, MaySee
<1>2. CASE Crash
  BY <1>2, SeenCrash
<1>3. ASSUME NEW k \in Conn,
             Handler(k) \/ Network(k) \/ \E f \in Frames : ClientFrame(k, f)
      PROVE  OnlyMembersReceive'
  BY <1>3, SeenHandler, SeenNetwork
<1> QED
  BY <1>1, <1>2, <1>3 DEF Next

-----------------------------------------------------------------------------
(* The invariant, and what follows from it. *)

(* The invariant holds of an empty hub. *)
LEMMA InvInit == Init => IInv
<1> SUFFICES ASSUME Init PROVE IInv
  OBVIOUS
<1>1. Typed
  BY TypeInit, TypedIsTypeOK
<1>2. Shape
  BY DEF Init, Shape, Known, Quiet, NoReuse, PushesAreLive, Idle
<1>3. OnlyMembersReceive
  BY DEF Init, OnlyMembersReceive, Idle
<1> QED
  BY <1>1, <1>2, <1>3 DEF IInv

(* Every step keeps it. *)
LEMMA InvStep == IInv /\ [Next]_vars => IInv'
<1> SUFFICES ASSUME IInv, [Next]_vars PROVE IInv'
  OBVIOUS
<1>1. Typed'
  BY TypeStep DEF IInv, Shape
<1>2. Shape'
  BY ShapeStep DEF IInv
<1>3. OnlyMembersReceive'
  BY SeenStep DEF IInv
<1> QED
  BY <1>1, <1>2, <1>3 DEF IInv

(* In every behaviour, whatever clients, network and crashes do.           *)
THEOREM Invariance == Spec => []IInv
BY InvInit, InvStep, PTL DEF Spec

(* The state of the hub - its conversations, its state file, the online    *)
(* map and all queues - is always of the shape the code's types say.       *)
THEOREM TypeCorrect == Spec => []TypeOK
<1>1. IInv => TypeOK
  BY TypedIsTypeOK DEF IInv
<1> QED
  BY <1>1, Invariance, PTL

(* go_offline, the sign-in that replaces a channel and the end of a task   *)
(* never leave a channel on the online map that nobody forwards from, or   *)
(* that forwards to somebody else.                                         *)
THEOREM PushesLive == Spec => []PushesAreLive
<1>1. IInv => PushesAreLive
  BY DEF IInv, Shape
<1> QED
  BY <1>1, Invariance, PTL

(* do_send's membership check, pushes_for, the replay at sign-in and the   *)
(* reuse of nothing but free connections together keep every conversation  *)
(* to its members.                                                         *)
THEOREM Confidential == Spec => []OnlyMembersReceive
<1>1. IInv => OnlyMembersReceive
  BY DEF IInv
<1> QED
  BY <1>1, Invariance, PTL

-----------------------------------------------------------------------------
(* What a step can do to the conversations: nothing, load them, or change  *)
(* one of them and write them all.                                         *)

Changes(a, b) ==
  \/ \E q \in Person, x \in Text : Has(a, q) /\ b = Posted(a, q, x)
  \/ \E q \in Person, n \in Nat : a.members # {} /\ b = Acked(a, q, n)
  \/ \E q \in Person : b = [a EXCEPT !.members = @ \cup {q}]
  \/ \E S \in SUBSET Person : a.members = {} /\ S # {} /\ b = NewConv(S)

Rewrites(cs, cs2) ==
  \/ cs2 = cs
  \/ \E c \in ConvId : \E b : Changes(cs[c], b) /\ cs2 = [cs EXCEPT ![c] = b]

Stores == \E ms, cs : Rewrites(convs, cs) /\ Persist(ms, cs) /\ convs' = cs /\ members' = ms

(* The handler of a signed-in connection reads its next frame. *)
LEMMA FrameRead ==
  ASSUME Typed, Shape, NEW k \in Conn, NEW type, AtSelect(k), NextFrame(k, type)
  PROVE  Head(up[k]) \in Frames /\ Head(up[k]).t = type /\ who[k] \in Person
<1>1. who[k] \in Person
  BY DEF AtSelect, Shape, Known
<1>2. Head(up[k]) \in Frames
  BY ConsumeType DEF NextFrame
<1> QED
  BY <1>1, <1>2 DEF NextFrame

(* A message is posted, or refused to who is not a member. *)
LEMMA StoreSend ==
  ASSUME Typed, Shape, NEW k \in Conn, HandleSend(k)
  PROVE  Stores \/ UNCHANGED <<convs, disk>>
<1> DEFINE f == Head(up[k])
           conv == Posted(convs[f.conv], who[k], f.text)
           cs == [convs EXCEPT ![f.conv] = conv]
<1>1. f \in Frames /\ f.t = "send" /\ who[k] \in Person
  BY FrameRead, Zenon DEF HandleSend
<1>2. f.conv \in ConvId /\ f.text \in Text
  BY <1>1, FrameFields
<1>3. CASE Has(convs[f.conv], who[k])
  <2>1. Persist(members, cs) /\ convs' = cs /\ members' = members
    BY <1>3, Zenon DEF HandleSend
  <2>2. Changes(convs[f.conv], conv)
    BY <1>1, <1>2, <1>3 DEF Changes
  <2> HIDE DEF f, conv
  <2>3. Rewrites(convs, cs)
    BY <1>2, <2>2, Zenon DEF Rewrites
  <2> HIDE DEF cs
  <2> QED
    BY <2>1, <2>3, Zenon DEF Stores
<1>4. CASE ~Has(convs[f.conv], who[k])
  BY <1>4, Zenon DEF HandleSend
<1> QED
  BY <1>3, <1>4

(* An Ack raises a cursor of a conversation there is, if it is higher.     *)
LEMMA StoreAck ==
  ASSUME Typed, Shape, NEW k \in Conn, HandleAck(k)
  PROVE  Stores
<1> DEFINE f == Head(up[k])
           conv == Acked(convs[f.conv], who[k], f.seq)
           cs == IF convs[f.conv].members = {} THEN convs ELSE [convs EXCEPT ![f.conv] = conv]
<1>1. f \in Frames /\ f.t = "ack" /\ who[k] \in Person
  BY FrameRead, Zenon DEF HandleAck
<1>2. f.conv \in ConvId /\ f.seq \in Nat
  BY <1>1, FrameFields
<1>3. Persist(members, cs) /\ convs' = cs /\ members' = members
  BY DEF HandleAck
<1>4. convs[f.conv].members # {} => Changes(convs[f.conv], conv)
  BY <1>1, <1>2 DEF Changes
<1> HIDE DEF f, conv
<1>5. Rewrites(convs, cs)
  BY <1>2, <1>4 DEF Rewrites
<1> HIDE DEF cs
<1> QED
  BY <1>3, <1>5, Zenon DEF Stores

(* A conversation is opened where there was none.                          *)
LEMMA StoreNew ==
  ASSUME NEW c \in ConvId, convs[c].members = {}, NEW S \in SUBSET Person, S # {},
         Persist(members, [convs EXCEPT ![c] = NewConv(S)]),
         convs' = [convs EXCEPT ![c] = NewConv(S)], members' = members
  PROVE  Stores
<1>1. Changes(convs[c], NewConv(S))
  BY Zenon DEF Changes
<1>2. Rewrites(convs, [convs EXCEPT ![c] = NewConv(S)])
  BY <1>1, Zenon DEF Rewrites
<1> QED
  BY <1>2, Zenon DEF Stores

(* A conversation of two, unless it is there.                              *)
LEMMA StoreOpenDm ==
  ASSUME Typed, Shape, NEW k \in Conn, HandleOpenDm(k)
  PROVE  Stores \/ UNCHANGED <<convs, disk>>
<1> DEFINE c == {who[k], Head(up[k]).peer}
<1>1. Head(up[k]) \in Frames /\ Head(up[k]).t = "open_dm" /\ who[k] \in Person
  BY FrameRead, Zenon DEF HandleOpenDm
<1>2. Head(up[k]).peer \in Person
  BY <1>1, FrameFields
<1>3. c \in ConvId /\ c \in SUBSET Person /\ c # {}
  BY <1>1, <1>2 DEF ConvId, Dm
<1>4. /\ members' = members
      /\ IF convs[c].members = {}
         THEN /\ Persist(members, [convs EXCEPT ![c] = NewConv(c)])
              /\ convs' = [convs EXCEPT ![c] = NewConv(c)]
         ELSE UNCHANGED <<convs, disk>>
  BY DEF HandleOpenDm
<1> HIDE DEF c
<1> QED
  BY <1>3, <1>4, StoreNew, Zenon

(* A room, under an id no conversation has.                                *)
LEMMA StoreCreateRoom ==
  ASSUME Typed, Shape, NEW k \in Conn, HandleCreateRoom(k)
  PROVE  Stores
<1> DEFINE S == Head(up[k]).members \cup {who[k]}
<1>1. Head(up[k]) \in Frames /\ Head(up[k]).t = "create_room" /\ who[k] \in Person
  BY FrameRead, Zenon DEF HandleCreateRoom
<1>2. S \in SUBSET Person /\ S # {}
  BY <1>1, FrameFields
<1>3. PICK r \in UnusedRooms : Persist(members, [convs EXCEPT ![r] = NewConv(S)])
                               /\ convs' = [convs EXCEPT ![r] = NewConv(S)]
  BY DEF HandleCreateRoom
<1>4. r \in ConvId /\ convs[r].members = {}
  BY DEF UnusedRooms, ConvId
<1>5. members' = members
  BY DEF HandleCreateRoom
<1> HIDE DEF S
<1> QED
  BY <1>2, <1>3, <1>4, <1>5, StoreNew, Zenon

(* Sign-in puts somebody in the family room.                               *)
LEMMA StoreSignIn ==
  ASSUME Typed, NEW k \in Conn, SignIn(k)
  PROVE  Stores
<1> DEFINE q == Head(up[k]).id
           b == [convs[Family] EXCEPT !.members = @ \cup {q}]
           cs == [convs EXCEPT ![Family] = b]
<1>1. Head(up[k]) \in Frames /\ Head(up[k]).t = "hello"
  BY ConsumeType DEF SignIn, NextFrame
<1>2. q \in Person /\ Family \in ConvId
  BY <1>1, FrameFields DEF ConvId
<1>3. Persist(members \cup {q}, cs) /\ convs' = cs /\ members' = members \cup {q}
  BY DEF SignIn
<1>4. Changes(convs[Family], b)
  BY <1>2 DEF Changes
<1> HIDE DEF b, q
<1>5. Rewrites(convs, cs)
  BY <1>2, <1>4, Zenon DEF Rewrites
<1> HIDE DEF cs
<1> QED
  BY <1>3, <1>5, Zenon DEF Stores

(* The other steps of a handler, the clients and the network touch neither *)
(* the conversations nor the file.                                         *)
LEMMA StoreUntouched ==
  ASSUME NEW k \in Conn,
         \/ Handler(k) /\ ~SignIn(k) /\ ~HandleFrame(k)
         \/ IgnoreHello(k)
         \/ Network(k) \/ \E f \in Frames : ClientFrame(k, f)
  PROVE  UNCHANGED <<convs, disk>>
<1>1. CASE Handler(k) /\ ~SignIn(k) /\ ~HandleFrame(k)
  BY <1>1 DEF Handler, DropEarlyFrame, GiveUpHello, Greet, SendWelcome, SendBacklog, GoOffline,
     Push, ForwardPush, PushRefused, LinkEnded, Leave, EndTask, store
<1>2. CASE IgnoreHello(k)
  BY <1>2 DEF IgnoreHello, store
<1>3. CASE Network(k) \/ \E f \in Frames : ClientFrame(k, f)
  BY <1>3 DEF Network, Accept, Deliver, CutLink, ClientFrame, store
<1> QED
  BY <1>1, <1>2, <1>3

(* Every step. *)
LEMMA StoreStep ==
  ASSUME Typed, Shape, [Next]_vars
  PROVE  Stores \/ Crash \/ UNCHANGED <<convs, disk>>
<1>1. CASE UNCHANGED vars
  BY <1>1 DEF vars
<1>2. ASSUME NEW k \in Conn, HandleFrame(k)
      PROVE  Stores \/ UNCHANGED <<convs, disk>>
  BY <1>2, StoreSend, StoreAck, StoreOpenDm, StoreCreateRoom, StoreUntouched, Zenon
     DEF HandleFrame
<1>3. ASSUME NEW k \in Conn,
             Handler(k) \/ Network(k) \/ \E f \in Frames : ClientFrame(k, f)
      PROVE  Stores \/ UNCHANGED <<convs, disk>>
  BY <1>2, <1>3, StoreSignIn, StoreUntouched, Zenon
<1> QED
  BY <1>1, <1>3, Zenon DEF Next

-----------------------------------------------------------------------------
(* The numbering of a log.  It takes that the state file is as well        *)
(* numbered as what is in memory, since that is what a restart loads.      *)

Contiguous(conv) ==
  /\ Len(conv.log) = (IF conv.nextSeq < MaxLog THEN conv.nextSeq ELSE MaxLog)
  /\ \A i \in 1 .. Len(conv.log) : conv.log[i].seq = conv.nextSeq - Len(conv.log) + i

AllContiguous(cs) == \A c \in ConvId : Contiguous(cs[c])
Numbered == AllContiguous(convs) /\ AllContiguous(disk.convs)

(* Trimming keeps the last n entries, in their order. *)
LEMMA TrimKeeps ==
  ASSUME NEW log \in Seq(Entry), NEW n \in Nat \ {0}
  PROVE  LET l == Trim(log, n)
             cut == IF Len(log) > n THEN Len(log) - n ELSE 0
         IN Len(l) = Len(log) - cut /\ \A i \in 1 .. Len(l) : l[i] = log[i + cut]
BY DEF Trim

(* Posting numbers the new entry next and trims the oldest. *)
LEMMA PostedContiguous ==
  ASSUME NEW conv \in Conv, NEW q \in Person, NEW x \in Text, Contiguous(conv)
  PROVE  Contiguous(Posted(conv, q, x))
<1> DEFINE s == conv.nextSeq + 1
           e == [seq |-> s, from |-> q, text |-> x]
           log == Append(conv.log, e)
           post == Posted(conv, q, x)
           cut == IF Len(log) > MaxLog THEN Len(log) - MaxLog ELSE 0
<1>1. conv.log \in Seq(Entry) /\ conv.nextSeq \in Nat /\ conv.cursors \in [Person -> Nat]
  BY DEF Conv
<1>2. MaxLog \in Nat \ {0}
  BY HubAssumption
<1>3. e \in Entry /\ e.seq = s
  BY <1>1 DEF Entry
<1>4. post.log = Trim(log, MaxLog) /\ post.nextSeq = s
  <2>1. post = [conv EXCEPT !.nextSeq = s, !.log = Trim(log, MaxLog),
                            !.cursors = [conv.cursors EXCEPT ![q] = s]]
    BY DEF Posted
  <2> HIDE DEF log, s, e, post
  <2> QED
    BY <2>1 DEF Conv
<1> HIDE DEF e
<1>5. /\ log \in Seq(Entry) /\ Len(log) = Len(conv.log) + 1
      /\ \A i \in 1 .. Len(log) : log[i].seq = conv.nextSeq - Len(conv.log) + i
  <2>1. log \in Seq(Entry) /\ Len(log) = Len(conv.log) + 1
    BY <1>1, <1>3
  <2>2. ASSUME NEW i \in 1 .. Len(log)
        PROVE  log[i].seq = conv.nextSeq - Len(conv.log) + i
    <3>1. CASE i = Len(conv.log) + 1
      <4>1. log[i] = e
        BY <1>1, <3>1
      <4> QED
        BY <1>1, <1>3, <3>1, <4>1
    <3>2. CASE i \in 1 .. Len(conv.log)
      <4>1. log[i] = conv.log[i]
        BY <1>1, <3>2
      <4> QED
        BY <3>2, <4>1 DEF Contiguous
    <3> QED
      BY <1>1, <2>1, <3>1, <3>2
  <2> QED
    BY <2>1, <2>2
<1> HIDE DEF log, post
<1>6. /\ Len(post.log) = Len(log) - cut
      /\ \A i \in 1 .. Len(post.log) : post.log[i] = log[i + cut]
  <2>1. log \in Seq(Entry)
    BY <1>5
  <2>2. LET l == Trim(log, MaxLog)
            c == IF Len(log) > MaxLog THEN Len(log) - MaxLog ELSE 0
        IN Len(l) = Len(log) - c /\ \A i \in 1 .. Len(l) : l[i] = log[i + c]
    BY <1>2, <2>1, TrimKeeps, Zenon
  <2> QED
    BY <1>4, <2>2, Zenon
<1>7. Len(post.log) = (IF s < MaxLog THEN s ELSE MaxLog)
  <2>1. Len(conv.log) = (IF conv.nextSeq < MaxLog THEN conv.nextSeq ELSE MaxLog)
    BY DEF Contiguous
  <2>2. Len(log) = Len(conv.log) + 1 /\ Len(post.log) = Len(log) - cut
    BY <1>5, <1>6
  <2> QED
    BY <1>1, <1>2, <2>1, <2>2
<1>8. ASSUME NEW i \in 1 .. Len(post.log)
      PROVE  post.log[i].seq = s - Len(post.log) + i
  <2>1. i + cut \in 1 .. Len(log) /\ post.log[i] = log[i + cut]
    BY <1>1, <1>2, <1>5, <1>6
  <2>2. log[i + cut].seq = conv.nextSeq - Len(conv.log) + (i + cut)
    BY <1>5, <2>1
  <2>3. Len(conv.log) \in Nat /\ Len(log) = Len(conv.log) + 1 /\ cut \in Nat
    BY <1>1, <1>2, <1>5
  <2> HIDE DEF cut
  <2> QED
    BY <1>1, <1>6, <2>1, <2>2, <2>3
<1>9. Contiguous(post)
  BY <1>4, <1>7, <1>8 DEF Contiguous
<1> QED
  BY <1>9 DEF post

(* Acknowledging leaves the log alone. *)
LEMMA AckedContiguous ==
  ASSUME NEW conv \in Conv, NEW q \in Person, NEW n \in Nat, Contiguous(conv)
  PROVE  Contiguous(Acked(conv, q, n))
<1>1. Acked(conv, q, n).log = conv.log /\ Acked(conv, q, n).nextSeq = conv.nextSeq
  BY DEF Acked, Conv
<1> QED
  BY <1>1 DEF Contiguous

(* A conversation just opened has an empty log. *)
LEMMA NewConvContiguous ==
  ASSUME NEW S
  PROVE  Contiguous(NewConv(S))
<1>1. NewConv(S).log = <<>> /\ NewConv(S).nextSeq = 0
  BY DEF NewConv, NoConv
<1> QED
  BY <1>1, HubAssumption DEF Contiguous

(* Whatever becomes of a conversation, its log stays numbered.             *)
LEMMA ChangedContiguous ==
  ASSUME NEW a \in Conv, NEW b, Changes(a, b), Contiguous(a)
  PROVE  Contiguous(b)
<1>1. ASSUME NEW q \in Person, b = [a EXCEPT !.members = @ \cup {q}]
      PROVE  Contiguous(b)
  BY <1>1 DEF Contiguous, Conv
<1> QED
  BY <1>1, PostedContiguous, AckedContiguous, NewConvContiguous DEF Changes

(* Every step writes what it keeps, reads back what was written, or does   *)
(* neither.                                                                *)
LEMMA NumberedStep ==
  ASSUME Typed, Shape, Numbered, [Next]_vars
  PROVE  Numbered'
<1>1. CASE UNCHANGED <<convs, disk>>
  BY <1>1 DEF Numbered
<1>2. CASE Crash
  BY <1>2 DEF Crash, Numbered
<1>3. ASSUME NEW ms, NEW cs, Rewrites(convs, cs), Persist(ms, cs), convs' = cs
      PROVE  Numbered'
  <2>1. AllContiguous(cs)
    <3>1. CASE cs = convs
      BY <3>1 DEF Numbered
    <3>2. ASSUME NEW c \in ConvId, NEW b, Changes(convs[c], b), cs = [convs EXCEPT ![c] = b]
          PROVE  AllContiguous(cs)
      <4>1. convs[c] \in Conv /\ Contiguous(convs[c])
        BY DEF Typed, Numbered, AllContiguous
      <4>2. Contiguous(b)
        BY <3>2, <4>1, ChangedContiguous, Zenon
      <4> QED
        BY <3>2, <4>2 DEF Typed, Numbered, AllContiguous
    <3> QED
      BY <1>3, <3>1, <3>2 DEF Rewrites
  <2>2. AllContiguous(disk.convs)
    BY DEF Numbered
  <2>3. disk'.convs = cs \/ disk' = disk
    BY <1>3 DEF Persist
  <2> QED
    BY <1>3, <2>1, <2>2, <2>3 DEF Numbered
<1> QED
  BY <1>1, <1>2, <1>3, StoreStep DEF Stores

(* Every log holds the latest entries, numbered without gap or repetition  *)
(* up to the last seq given out, for any MAX_LOG, across trimming, failed  *)
(* writes of the state file and restarts from it.                          *)
THEOREM LogsContiguous == Spec => []LogContiguous
<1>1. Init => Numbered
  <2> SUFFICES ASSUME Init PROVE Numbered
    OBVIOUS
  <2>1. Contiguous(NoConv)
    <3>1. NoConv.log = <<>> /\ NoConv.nextSeq = 0
      BY DEF NoConv
    <3> QED
      BY <3>1, HubAssumption DEF Contiguous
  <2> QED
    BY <2>1 DEF Init, Numbered, AllContiguous
<1>2. IInv /\ Numbered /\ [Next]_vars => Numbered'
  BY NumberedStep DEF IInv
<1>3. Numbered => LogContiguous
  BY DEF Numbered, AllContiguous, Contiguous, LogContiguous
<1> QED
  BY <1>1, <1>2, <1>3, Invariance, PTL DEF Spec

-----------------------------------------------------------------------------
(* What becomes of one conversation. *)

(* Everything posting changes. *)
LEMMA PostedFields ==
  ASSUME NEW a \in Conv, NEW q \in Person, NEW x \in Text
  PROVE  LET e == [seq |-> a.nextSeq + 1, from |-> q, text |-> x]
             b == Posted(a, q, x)
         IN /\ b.members = a.members /\ b.nextSeq = a.nextSeq + 1
            /\ b.log = Trim(Append(a.log, e), MaxLog)
            /\ b.cursors = [a.cursors EXCEPT ![q] = a.nextSeq + 1]
<1> DEFINE s == a.nextSeq + 1
           log == Trim(Append(a.log, [seq |-> s, from |-> q, text |-> x]), MaxLog)
           cursors == [a.cursors EXCEPT ![q] = s]
<1>1. Posted(a, q, x) = [a EXCEPT !.nextSeq = s, !.log = log, !.cursors = cursors]
  BY DEF Posted
<1> HIDE DEF s, log, cursors
<1>2. /\ Posted(a, q, x).members = a.members /\ Posted(a, q, x).nextSeq = s
      /\ Posted(a, q, x).log = log /\ Posted(a, q, x).cursors = cursors
  BY <1>1 DEF Conv
<1> QED
  BY <1>2 DEF s, log, cursors

(* What is in a log after posting was there, or is the new entry. *)
LEMMA PostedEntries ==
  ASSUME NEW a \in Conv, NEW q \in Person, NEW x \in Text,
         NEW j \in DOMAIN Posted(a, q, x).log
  PROVE  \/ Posted(a, q, x).log[j] = [seq |-> a.nextSeq + 1, from |-> q, text |-> x]
         \/ \E i \in DOMAIN a.log : Posted(a, q, x).log[j] = a.log[i]
<1> DEFINE e == [seq |-> a.nextSeq + 1, from |-> q, text |-> x]
           log == Append(a.log, e)
           cut == IF Len(log) > MaxLog THEN Len(log) - MaxLog ELSE 0
<1>1. a.log \in Seq(Entry) /\ a.nextSeq \in Nat /\ MaxLog \in Nat \ {0}
  BY HubAssumption DEF Conv
<1>2. Posted(a, q, x).log = Trim(log, MaxLog)
  BY PostedFields, Zenon
<1>3. e \in Entry /\ e.seq = a.nextSeq + 1
  BY <1>1 DEF Entry
<1> HIDE DEF e
<1>4. /\ log \in Seq(Entry) /\ Len(log) = Len(a.log) + 1
      /\ \A i \in 1 .. Len(log) : log[i] = e \/ (i \in DOMAIN a.log /\ log[i] = a.log[i])
  <2>1. log \in Seq(Entry) /\ Len(log) = Len(a.log) + 1
    BY <1>1, <1>3
  <2>2. ASSUME NEW i \in 1 .. Len(log)
        PROVE  log[i] = e \/ (i \in DOMAIN a.log /\ log[i] = a.log[i])
    <3>1. i = Len(a.log) + 1 \/ i \in DOMAIN a.log
      BY <1>1, <2>1
    <3> QED
      BY <1>1, <3>1
  <2> HIDE DEF log
  <2> QED
    BY <2>1, <2>2
<1> HIDE DEF log
<1>5. /\ Len(Trim(log, MaxLog)) = Len(log) - cut
      /\ \A i \in 1 .. Len(Trim(log, MaxLog)) : Trim(log, MaxLog)[i] = log[i + cut]
  BY <1>1, <1>4, TrimKeeps, Zenon
<1>6. Trim(log, MaxLog) \in Seq(Entry)
  BY <1>1, <1>4, TrimType
<1>7. j \in 1 .. Len(Trim(log, MaxLog))
  <2>1. j \in DOMAIN Trim(log, MaxLog)
    BY <1>2, Zenon
  <2>2. ASSUME NEW t \in Seq(Entry) PROVE DOMAIN t = 1 .. Len(t)
    OBVIOUS
  <2>3. DOMAIN Trim(log, MaxLog) = 1 .. Len(Trim(log, MaxLog))
    BY <1>6, <2>2, Zenon
  <2> QED
    BY <2>1, <2>3, Zenon
<1>8. j + cut \in 1 .. Len(log)
  <2>1. Len(log) \in Nat /\ cut \in Nat
    BY <1>1, <1>4
  <2>2. Len(Trim(log, MaxLog)) = Len(log) - cut
    BY <1>5, Zenon
  <2> HIDE DEF cut
  <2> QED
    BY <1>7, <2>1, <2>2
<1>9. Posted(a, q, x).log[j] = log[j + cut]
  BY <1>2, <1>5, <1>7, Zenon
<1> QED
  BY <1>4, <1>8, <1>9 DEF e

(* In a numbered log, a seq stands in one place, none above the last given out. *)
LEMMA SeqOnce ==
  ASSUME NEW a \in Conv, Contiguous(a), NEW i \in DOMAIN a.log
  PROVE  /\ a.log[i].seq \in Nat /\ a.log[i].seq <= a.nextSeq
         /\ \A j \in DOMAIN a.log : a.log[i].seq = a.log[j].seq => i = j
<1>1. a.log \in Seq(Entry) /\ a.nextSeq \in Nat
  BY DEF Conv
<1>2. Len(a.log) \in Nat /\ DOMAIN a.log = 1 .. Len(a.log)
  BY <1>1
<1>3. \A j \in 1 .. Len(a.log) : a.log[j].seq = a.nextSeq - Len(a.log) + j
  BY Zenon DEF Contiguous
<1>4. Len(a.log) <= a.nextSeq
  <2>1. Len(a.log) = (IF a.nextSeq < MaxLog THEN a.nextSeq ELSE MaxLog)
    BY DEF Contiguous
  <2>2. MaxLog \in Nat
    BY HubAssumption
  <2> QED
    BY <1>1, <2>1, <2>2
<1> DEFINE n == Len(a.log)
<1>5. ASSUME NEW j \in 1 .. n
      PROVE  a.log[j].seq = a.nextSeq - n + j
  BY <1>3, Zenon
<1> HIDE DEF n
<1>6. n \in Nat /\ n <= a.nextSeq /\ i \in 1 .. n /\ DOMAIN a.log = 1 .. n
  BY <1>2, <1>4 DEF n
<1>7. a.log[i].seq = a.nextSeq - n + i
  BY <1>5, <1>6
<1>8. ASSUME NEW j \in DOMAIN a.log, a.log[i].seq = a.log[j].seq
      PROVE  i = j
  <2>1. j \in 1 .. n /\ a.log[j].seq = a.nextSeq - n + j
    BY <1>5, <1>6
  <2> QED
    BY <1>1, <1>6, <1>7, <1>8, <2>1
<1> QED
  BY <1>1, <1>6, <1>7, <1>8

(* A conversation nobody is in is one that was never opened. *)
Unborn(conv) == conv.members = {} => conv.log = <<>> /\ conv.nextSeq = 0

(* Only conversations that were opened have members, and change. *)
LEMMA ChangedUnborn ==
  ASSUME NEW a \in Conv, NEW b, Changes(a, b), Unborn(a)
  PROVE  Unborn(b)
<1>1. ASSUME NEW q \in Person, NEW x \in Text, Has(a, q), b = Posted(a, q, x)
      PROVE  Unborn(b)
  <2>1. b.members = a.members
    BY <1>1, PostedType
  <2>2. q \in a.members
    BY <1>1 DEF Has
  <2> QED
    BY <2>1, <2>2 DEF Unborn
<1>2. ASSUME NEW q \in Person, NEW n \in Nat, a.members # {}, b = Acked(a, q, n)
      PROVE  Unborn(b)
  BY <1>2, AckedType DEF Unborn
<1>3. ASSUME NEW q \in Person, b = [a EXCEPT !.members = @ \cup {q}]
      PROVE  Unborn(b)
  <2>1. q \in b.members
    BY <1>3 DEF Conv
  <2> QED
    BY <2>1 DEF Unborn
<1>4. ASSUME NEW S \in SUBSET Person, S # {}, b = NewConv(S)
      PROVE  Unborn(b)
  BY <1>4, NewConvType DEF Unborn
<1> QED
  BY <1>1, <1>2, <1>3, <1>4 DEF Changes

(* One conversation's part of the history and of the cursors. *)
SameHistory(a, b) ==
  /\ b.nextSeq >= a.nextSeq
  /\ \A i \in DOMAIN a.log, j \in DOMAIN b.log :
       a.log[i].seq = b.log[j].seq => a.log[i] = b.log[j]

SameAcks(a, b) ==
  \A q \in Person :
    LET was == a.cursors[q]
    IN b.cursors[q] >= (IF was < a.nextSeq THEN was ELSE a.nextSeq)

(* What does not change keeps both. *)
LEMMA HistorySame ==
  ASSUME NEW a \in Conv, Contiguous(a)
  PROVE  SameHistory(a, a) /\ SameAcks(a, a)
<1>1. a.nextSeq \in Nat /\ a.cursors \in [Person -> Nat]
  BY DEF Conv
<1>2. SameHistory(a, a)
  BY <1>1, SeqOnce DEF SameHistory
<1>3. SameAcks(a, a)
  BY <1>1 DEF SameAcks
<1> QED
  BY <1>2, <1>3

(* Posting takes the next seq, and moves one cursor to it. *)
LEMMA PostedHistory ==
  ASSUME NEW a \in Conv, Contiguous(a), NEW q \in Person, NEW x \in Text
  PROVE  SameHistory(a, Posted(a, q, x)) /\ SameAcks(a, Posted(a, q, x))
<1> DEFINE b == Posted(a, q, x)
<1>1. a.nextSeq \in Nat /\ a.cursors \in [Person -> Nat]
  BY DEF Conv
<1>2. b.nextSeq = a.nextSeq + 1 /\ b.cursors = [a.cursors EXCEPT ![q] = a.nextSeq + 1]
  BY PostedFields, Zenon
<1>3. ASSUME NEW i \in DOMAIN a.log, NEW j \in DOMAIN b.log, a.log[i].seq = b.log[j].seq
      PROVE  a.log[i] = b.log[j]
  <2>1. a.log[i].seq \in Nat /\ a.log[i].seq <= a.nextSeq
    BY SeqOnce
  <2>2. b.log[j] # [seq |-> a.nextSeq + 1, from |-> q, text |-> x]
    BY <1>1, <1>3, <2>1
  <2>3. PICK h \in DOMAIN a.log : b.log[j] = a.log[h]
    BY <2>2, PostedEntries, Zenon
  <2> QED
    BY <1>3, <2>3, SeqOnce
<1> HIDE DEF b
<1>4. SameHistory(a, b)
  BY <1>1, <1>2, <1>3 DEF SameHistory
<1>5. SameAcks(a, b)
  BY <1>1, <1>2 DEF SameAcks
<1> QED
  BY <1>4, <1>5 DEF b

(* Acknowledging raises one cursor, or none. *)
LEMMA AckedHistory ==
  ASSUME NEW a \in Conv, Contiguous(a), NEW q \in Person, NEW n \in Nat
  PROVE  SameHistory(a, Acked(a, q, n)) /\ SameAcks(a, Acked(a, q, n))
<1> DEFINE b == Acked(a, q, n)
           raised == IF n > a.cursors[q] THEN n ELSE a.cursors[q]
<1>1. a.nextSeq \in Nat /\ a.cursors \in [Person -> Nat]
  BY DEF Conv
<1>2. /\ b.nextSeq = a.nextSeq /\ b.log = a.log
      /\ b.cursors = [a.cursors EXCEPT ![q] = raised]
  BY DEF Acked, Conv
<1>3. raised \in Nat /\ raised >= a.cursors[q]
  BY <1>1
<1> HIDE DEF b, raised
<1>4. SameHistory(a, b)
  BY <1>2, HistorySame DEF SameHistory
<1>5. SameAcks(a, b)
  BY <1>1, <1>2, <1>3 DEF SameAcks
<1> QED
  BY <1>4, <1>5 DEF b

(* Opening a conversation takes nothing back: there was none.              *)
LEMMA NewConvHistory ==
  ASSUME NEW a \in Conv, Unborn(a), a.members = {}, NEW S
  PROVE  SameHistory(a, NewConv(S)) /\ SameAcks(a, NewConv(S))
<1>1. /\ NewConv(S).nextSeq = 0 /\ NewConv(S).log = <<>>
      /\ NewConv(S).cursors = [q \in Person |-> 0]
  BY DEF NewConv, NoConv
<1>2. a.nextSeq = 0 /\ a.log = <<>> /\ a.cursors \in [Person -> Nat]
  BY DEF Unborn, Conv
<1>3. SameHistory(a, NewConv(S))
  BY <1>1, <1>2 DEF SameHistory
<1>4. SameAcks(a, NewConv(S))
  BY <1>1, <1>2 DEF SameAcks
<1> QED
  BY <1>3, <1>4

(* Whatever becomes of a conversation, its past stays. *)
LEMMA ChangedHistory ==
  ASSUME NEW a \in Conv, NEW b, Changes(a, b), Contiguous(a), Unborn(a)
  PROVE  SameHistory(a, b) /\ SameAcks(a, b)
<1>1. ASSUME NEW q \in Person, b = [a EXCEPT !.members = @ \cup {q}]
      PROVE  SameHistory(a, b) /\ SameAcks(a, b)
  <2>1. b.nextSeq = a.nextSeq /\ b.log = a.log /\ b.cursors = a.cursors
    BY <1>1 DEF Conv
  <2> QED
    BY <2>1, HistorySame DEF SameHistory, SameAcks
<1> QED
  BY <1>1, PostedHistory, AckedHistory, NewConvHistory DEF Changes

-----------------------------------------------------------------------------
(* The store.  When no write fails, the file is always what is in memory:  *)
(* every step that changes the conversations writes them all before the    *)
(* lock is released.                                                       *)

Saved == ~PersistMayFail => disk.convs = convs

AllUnborn(cs) == \A c \in ConvId : Unborn(cs[c])

(* What the conversations in memory and on disk are, at any time. *)
Store == Numbered /\ AllUnborn(convs) /\ AllUnborn(disk.convs) /\ Saved

HInv == IInv /\ Store

(* What a step does to the conversations and the file. *)
LEMMA IInvStoreStep ==
  ASSUME IInv, [Next]_vars
  PROVE  Stores \/ Crash \/ UNCHANGED <<convs, disk>>
BY StoreStep DEF IInv

(* An empty hub has an empty file. *)
LEMMA StoreInit == Init => Store
<1> SUFFICES ASSUME Init PROVE Store
  OBVIOUS
<1>1. NoConv.log = <<>> /\ NoConv.nextSeq = 0
  BY DEF NoConv
<1>2. Contiguous(NoConv) /\ Unborn(NoConv)
  BY <1>1, HubAssumption DEF Contiguous, Unborn
<1> QED
  BY <1>2 DEF Init, Store, Numbered, AllContiguous, AllUnborn, Saved

(* Every step writes what it keeps, or loads what was written. *)
LEMMA StoreInvStep ==
  ASSUME IInv, Store, [Next]_vars
  PROVE  Store'
<1>1. Numbered'
  BY NumberedStep DEF IInv, Store
<1>2. CASE UNCHANGED <<convs, disk>>
  BY <1>1, <1>2 DEF Store, Saved
<1>3. CASE Crash
  BY <1>1, <1>3 DEF Crash, Store, Saved
<1>4. ASSUME NEW ms, NEW cs, Rewrites(convs, cs), Persist(ms, cs), convs' = cs
      PROVE  Store'
  <2>1. AllUnborn(cs)
    <3>1. CASE cs = convs
      BY <3>1 DEF Store
    <3>2. ASSUME NEW c \in ConvId, NEW b, Changes(convs[c], b), cs = [convs EXCEPT ![c] = b]
          PROVE  AllUnborn(cs)
      <4>1. convs \in [ConvId -> Conv] /\ convs[c] \in Conv /\ Unborn(convs[c])
        BY DEF IInv, Typed, Store, AllUnborn
      <4>2. Unborn(b)
        BY <3>2, <4>1, ChangedUnborn, Zenon
      <4> QED
        BY <3>2, <4>1, <4>2 DEF Store, AllUnborn
    <3> QED
      BY <1>4, <3>1, <3>2 DEF Rewrites
  <2>2. disk'.convs = cs \/ (PersistMayFail /\ disk' = disk)
    BY <1>4 DEF Persist
  <2> QED
    BY <1>1, <1>4, <2>1, <2>2 DEF Store, Saved
<1> QED
  BY <1>2, <1>3, <1>4, IInvStoreStep DEF Stores

(* In every behaviour, failed writes and restarts included. *)
THEOREM StoreInvariance == Spec => []HInv
<1>1. Init => HInv
  BY InvInit, StoreInit DEF HInv
<1>2. HInv /\ [Next]_vars => HInv'
  BY InvStep, StoreInvStep DEF HInv
<1> QED
  BY <1>1, <1>2, PTL DEF Spec

-----------------------------------------------------------------------------
(* History and cursors. *)

(* Every step that is not a restart keeps every conversation's past. *)
LEMMA PastKept ==
  ASSUME HInv, [Next]_vars, ~Crash \/ ~PersistMayFail
  PROVE  \A c \in ConvId : SameHistory(convs[c], convs'[c]) /\ SameAcks(convs[c], convs'[c])
<1>1. \A c \in ConvId : convs[c] \in Conv /\ Contiguous(convs[c]) /\ Unborn(convs[c])
  BY DEF HInv, IInv, Typed, Store, Numbered, AllContiguous, AllUnborn
<1>2. CASE convs' = convs
  BY <1>1, <1>2, HistorySame
<1>3. CASE Crash
  BY <1>2, <1>3 DEF Crash, HInv, Store, Saved
<1>4. CASE Stores
  <2>1. PICK cs : Rewrites(convs, cs) /\ convs' = cs
    BY <1>4 DEF Stores
  <2>2. ASSUME NEW c \in ConvId, NEW b, Changes(convs[c], b), convs' = [convs EXCEPT ![c] = b],
               NEW d \in ConvId
        PROVE  SameHistory(convs[d], convs'[d]) /\ SameAcks(convs[d], convs'[d])
    <3>1. convs'[d] = convs[d] \/ (d = c /\ convs'[d] = b)
      BY <2>2 DEF HInv, IInv, Typed
    <3> QED
      BY <1>1, <2>2, <3>1, HistorySame, ChangedHistory
  <2> QED
    BY <1>2, <2>1, <2>2 DEF Rewrites
<1> QED
  BY <1>2, <1>3, <1>4, IInvStoreStep DEF HInv

(* With a disk that takes every write, no step, a crash and a restart      *)
(* included, numbers two messages alike or takes a number back: do_send    *)
(* writes the state file before anybody is told of the number.             *)
THEOREM HistoryKept ==
  ASSUME ~PersistMayFail
  PROVE  Spec => HistoryImmutable
<1>1. HInv /\ [Next]_vars =>
        [\A c \in ConvId :
           /\ convs'[c].nextSeq >= convs[c].nextSeq
           /\ \A i \in DOMAIN convs[c].log, j \in DOMAIN convs'[c].log :
                convs[c].log[i].seq = convs'[c].log[j].seq =>
                  convs[c].log[i] = convs'[c].log[j]]_vars
  BY PastKept, Zenon DEF SameHistory
<1> QED
  BY <1>1, StoreInvariance, PTL DEF Spec, HistoryImmutable

(* With a disk that takes every write, no step, a crash and a restart      *)
(* included, takes back what somebody acknowledged by an Ack or a post:    *)
(* it is not replayed at her next sign-in.                                 *)
THEOREM AcksKept ==
  ASSUME ~PersistMayFail
  PROVE  Spec => AckedStaysAcked
<1>1. HInv /\ [Next]_vars =>
        [\A c \in ConvId, q \in Person :
           LET was == convs[c].cursors[q]
           IN convs'[c].cursors[q] >= (IF was < convs[c].nextSeq THEN was
                                       ELSE convs[c].nextSeq)]_vars
  BY PastKept, Zenon DEF SameAcks
<1> QED
  BY <1>1, StoreInvariance, PTL DEF Spec, AckedStaysAcked

(* With a disk that may refuse writes, whose errors persist() ignores, the *)
(* past is lost by nothing but a restart.                                  *)
THEOREM OnlyRestartsForget ==
  Spec => [][~Crash => \A c \in ConvId : /\ SameHistory(convs[c], convs[c]')
                                         /\ SameAcks(convs[c], convs[c]')]_vars
<1>1. HInv /\ [Next]_vars =>
        [~Crash => \A c \in ConvId : /\ SameHistory(convs[c], convs[c]')
                                     /\ SameAcks(convs[c], convs[c]')]_vars
  BY PastKept, Zenon
<1> QED
  BY <1>1, StoreInvariance, PTL DEF Spec

-----------------------------------------------------------------------------
(* One copy.  A message of a conversation's seq is on its way to a         *)
(* connection in at most one place: in the backlog its handler has still   *)
(* to send, in its push queue, on its link, or with a handler that has     *)
(* still to push to it.  It takes that a seq in use anywhere was given     *)
(* out, and that a handler carries one message at a time.                  *)

IsMsg(m, c, s) == m.t = "msg" /\ m.conv = c /\ m.seq = s

Hits(seq, c, s) == {i \in DOMAIN seq : IsMsg(seq[i], c, s)}
Among(S, c, s) == {m \in S : IsMsg(m, c, s)}
Pushers(k, c, s) == {j \in Conn : k \in pend[j].to /\ IsMsg(pend[j].push[1], c, s)}

AtMostOne(S) == \A x, y \in S : x = y
OneOf(B, R, D, P) ==
  /\ AtMostOne(B) /\ AtMostOne(R) /\ AtMostOne(D) /\ AtMostOne(P)
  /\ B # {} => R = {} /\ D = {} /\ P = {}
  /\ R # {} => D = {} /\ P = {}
  /\ D # {} => P = {}
OnePlace(k, c, s) ==
  OneOf(Among(pend[k].backlog, c, s), Hits(rx[k], c, s), Hits(down[k], c, s), Pushers(k, c, s))
Single == \A k \in Conn, c \in ConvId, s \in Nat : OnePlace(k, c, s)

(* A handler with somebody to push to has something to push, and pushes    *)
(* nothing along with a message.                                           *)
OneMessage(w) ==
  /\ w.to # {} => w.push # <<>>
  /\ \A i \in DOMAIN w.push : w.push[i].t = "msg" => Len(w.push) = 1
Carries == \A k \in Conn : OneMessage(pend[k])

(* Every message under way has a seq that was given out. *)
Entries(seq) == {seq[i] : i \in DOMAIN seq}
Around(k) == pend[k].backlog \cup Entries(pend[k].push) \cup Entries(rx[k]) \cup Entries(down[k])
\* What is under way to the person of a connection.
Due(k) == pend[k].backlog \cup Entries(rx[k]) \cup Entries(down[k])

Given(cs, m) == m.t = "msg" => m.seq <= cs[m.conv].nextSeq
GivenOut == \A k \in Conn : \A m \in Around(k) : Given(convs, m)

(* Fewer copies than at most one are at most one; what moved up in a queue *)
(* is where it was.                                                        *)
LEMMA Fewer ==
  ASSUME NEW B, NEW R, NEW D, NEW P, OneOf(B, R, D, P),
         NEW B1, NEW R1, NEW D1, NEW P1, B1 \subseteq B, P1 \subseteq P,
         R1 \subseteq R \/ (R1 \subseteq Int /\ \A i \in R1 : i + 1 \in R),
         D1 \subseteq D \/ (D1 \subseteq Int /\ \A i \in D1 : i + 1 \in D)
  PROVE  OneOf(B1, R1, D1, P1)
<1>1. AtMostOne(B1) /\ AtMostOne(P1)
  BY DEF OneOf, AtMostOne
<1>2. AtMostOne(R1)
  BY DEF OneOf, AtMostOne
<1>3. AtMostOne(D1)
  BY DEF OneOf, AtMostOne
<1>4. (R1 # {} => R # {}) /\ (D1 # {} => D # {})
  OBVIOUS
<1> QED
  BY <1>1, <1>2, <1>3, <1>4 DEF OneOf

(* Where a message stands in what is left of a queue. *)
LEMMA HitsTail ==
  ASSUME NEW S, NEW q \in Seq(S), q # <<>>, NEW c, NEW s
  PROVE  /\ Hits(Tail(q), c, s) \subseteq Nat \ {0}
         /\ \A i \in Hits(Tail(q), c, s) : i + 1 \in Hits(q, c, s)
BY TailFrom DEF Hits

(* Where a message stands in a longer queue. *)
LEMMA HitsAppend ==
  ASSUME NEW S, NEW q \in Seq(S), NEW m, NEW c, NEW s
  PROVE  /\ Hits(Append(q, m), c, s) \subseteq Hits(q, c, s) \cup {Len(q) + 1}
         /\ ~IsMsg(m, c, s) => Hits(Append(q, m), c, s) \subseteq Hits(q, c, s)
<1> SUFFICES ASSUME NEW i \in Hits(Append(q, m), c, s)
             PROVE  i \in Hits(q, c, s) \/ (i = Len(q) + 1 /\ IsMsg(m, c, s))
  OBVIOUS
<1>1. i \in DOMAIN Append(q, m) /\ IsMsg(Append(q, m)[i], c, s)
  BY DEF Hits
<1>2. CASE i = Len(q) + 1
  BY <1>1, <1>2
<1>3. CASE i # Len(q) + 1
  BY <1>1, <1>3 DEF Hits
<1> QED
  BY <1>2, <1>3

(* Where a message stands in two queues one behind the other. *)
LEMMA HitsConcat ==
  ASSUME NEW S, NEW q \in Seq(S), NEW r \in Seq(S), NEW c, NEW s, NEW i \in Hits(q \o r, c, s)
  PROVE  i \in Hits(q, c, s) \/ i - Len(q) \in Hits(r, c, s)
<1>1. i \in DOMAIN (q \o r) /\ IsMsg((q \o r)[i], c, s)
  BY DEF Hits
<1>2. CASE i \in DOMAIN q
  <2>1. (q \o r)[i] = q[i]
    BY <1>2
  <2> QED
    BY <1>1, <1>2, <2>1 DEF Hits
<1>3. CASE i \notin DOMAIN q
  <2>1. i - Len(q) \in DOMAIN r /\ (q \o r)[i] = r[i - Len(q)]
    BY <1>1, <1>3, AppendedFrom
  <2> QED
    BY <1>1, <2>1 DEF Hits
<1> QED
  BY <1>2, <1>3

(* What is in a queue after it is read. *)
LEMMA EntriesTail ==
  ASSUME NEW S, NEW q \in Seq(S), q # <<>>
  PROVE  Entries(Tail(q)) \subseteq Entries(q) /\ Head(q) \in Entries(q)
<1>1. Head(q) = q[1] /\ 1 \in DOMAIN q
  OBVIOUS
<1> QED
  BY <1>1, TailFrom DEF Entries

(* What is in a queue after something is put in it. *)
LEMMA EntriesAppend ==
  ASSUME NEW S, NEW q \in Seq(S), NEW m
  PROVE  Entries(Append(q, m)) \subseteq Entries(q) \cup {m}
<1>1. \A i \in DOMAIN Append(q, m) : Append(q, m)[i] = m \/ (i \in DOMAIN q /\ Append(q, m)[i] = q[i])
  OBVIOUS
<1> QED
  BY <1>1 DEF Entries

(* What is in two queues one behind the other. *)
LEMMA EntriesConcat ==
  ASSUME NEW S, NEW q \in Seq(S), NEW r \in Seq(S)
  PROVE  Entries(q \o r) \subseteq Entries(q) \cup Entries(r)
<1>1. ASSUME NEW i \in DOMAIN (q \o r)
      PROVE  (q \o r)[i] \in Entries(q) \cup Entries(r)
  <2>1. CASE i \in DOMAIN q
    <3>1. (q \o r)[i] = q[i]
      BY <2>1
    <3> QED
      BY <2>1, <3>1 DEF Entries
  <2>2. CASE i \notin DOMAIN q
    BY <2>2, AppendedFrom DEF Entries
  <2> QED
    BY <2>1, <2>2
<1> QED
  BY <1>1 DEF Entries

-----------------------------------------------------------------------------
(* What a step can do to what is under way. *)

Still == UNCHANGED <<pend, rx, down>>

Loses(k) ==
  /\ UNCHANGED <<pend, rx>>
  /\ \/ down' = [down EXCEPT ![k] = <<>>]
     \/ down[k] # <<>> /\ down' = [down EXCEPT ![k] = Tail(down[k])]

\* Before all else its handler sends a welcome and the backlog.
Greeting(k) == pend[k].welcome # <<>> \/ pend[k].backlog # {}

Resets(k) ==
  /\ phase' = [phase EXCEPT ![k] = "free"]
  /\ pend[k].to = {} \/ Greeting(k)
  /\ pend' = [pend EXCEPT ![k] = Idle]
  /\ rx' = [rx EXCEPT ![k] = <<>>] /\ down' = [down EXCEPT ![k] = <<>>]

Greets(k) ==
  /\ Greeting(k) /\ UNCHANGED rx
  /\ \E m, w :
       /\ SendOn(k, m) /\ pend' = [pend EXCEPT ![k] = w]
       /\ w.to = pend[k].to /\ w.push = pend[k].push
       /\ \/ m \in Welcomes /\ w.backlog = pend[k].backlog
          \/ m \in pend[k].backlog /\ w.backlog = pend[k].backlog \ {m}

Starts(k, w) ==
  /\ pend[k] = Idle /\ pend' = [pend EXCEPT ![k] = w]
  /\ UNCHANGED <<rx, down>>

NoMsg(q) == \A i \in DOMAIN q : q[i].t # "msg"

Signs(k) ==
  \E q \in Person : \E w :
    /\ phase[k] = "hello" /\ who' = [who EXCEPT ![k] = q] /\ Starts(k, w) /\ NoMsg(w.push) /\ w.push # <<>>
    /\ w.backlog = BacklogFor(convs', q)

Tells(k) ==
  \E q, S : q # <<>> /\ NoMsg(q) /\ Starts(k, Pushing(q, S))

Posting(k) ==
  \E c \in ConvId : \E e, S :
    /\ Starts(k, Pushing(<<Msg(c, e)>>, S))
    /\ e.seq = convs[c].nextSeq + 1 /\ convs'[c].nextSeq = e.seq
    /\ e = convs'[c].log[Len(convs'[c].log)] /\ e.from = who[k]
    /\ S = PushesFor(online, convs'[c].members \ {who[k]})

\* By a handler; by anybody, with what clients and network take from a link.
Handles(k) == \/ Still \/ Resets(k) \/ Greets(k) \/ Signs(k) \/ Tells(k)
              \/ Posting(k) \/ Push(k) \/ ForwardPush(k)
Moves(k) == Loses(k) \/ Handles(k)

(* The clients and the network only take from links. *)
LEMMA MovesNetwork ==
  ASSUME NEW k \in Conn, Network(k) \/ \E f \in Frames : ClientFrame(k, f)
  PROVE  Still \/ Loses(k)
<1>1. CASE Accept(k)
  BY <1>1 DEF Accept, Still
<1>2. CASE Deliver(k)
  BY <1>2 DEF Deliver, Loses
<1>3. CASE CutLink(k)
  BY <1>3 DEF CutLink, Loses
<1>4. CASE \E f \in Frames : ClientFrame(k, f)
  BY <1>4 DEF ClientFrame, Still
<1> QED
  BY <1>1, <1>2, <1>3, <1>4 DEF Network

(* The entry a post adds is the last of the log, under the next seq.       *)
LEMMA PostedLast ==
  ASSUME NEW a \in Conv, Contiguous(a), NEW q \in Person, NEW x \in Text
  PROVE  LET b == Posted(a, q, x)
         IN /\ b.nextSeq = a.nextSeq + 1 /\ Len(b.log) \in DOMAIN b.log
            /\ b.log[Len(b.log)] = [seq |-> a.nextSeq + 1, from |-> q, text |-> x]
<1> DEFINE b == Posted(a, q, x)
<1>1. b.nextSeq = a.nextSeq + 1
  BY PostedFields, Zenon
<1>2. b \in Conv /\ b.log # <<>>
  BY PostedType, Zenon
<1>3. Contiguous(b)
  BY PostedContiguous, Zenon
<1>4. a.nextSeq \in Nat
  BY DEF Conv
<1> HIDE DEF b
<1>5. b.log \in Seq(Entry)
  BY <1>2 DEF Conv
<1>6. Len(b.log) \in Nat \ {0}
  BY <1>2, <1>5
<1>7. b.log[Len(b.log)].seq = b.nextSeq - Len(b.log) + Len(b.log)
  <2>1. \A i \in 1 .. Len(b.log) : b.log[i].seq = b.nextSeq - Len(b.log) + i
    BY <1>3, Zenon DEF Contiguous
  <2>2. Len(b.log) \in 1 .. Len(b.log)
    BY <1>6
  <2> QED
    BY <2>1, <2>2, Zenon
<1>8. b.log[Len(b.log)].seq = a.nextSeq + 1 /\ Len(b.log) \in DOMAIN b.log
  BY <1>1, <1>4, <1>5, <1>6, <1>7
<1>9. \A i \in DOMAIN a.log : a.log[i].seq # a.nextSeq + 1
  <2>1. ASSUME NEW i \in DOMAIN a.log
        PROVE  a.log[i].seq \in Nat /\ a.log[i].seq <= a.nextSeq
    BY SeqOnce
  <2> QED
    BY <1>4, <2>1
<1>10. b.log[Len(b.log)] = [seq |-> a.nextSeq + 1, from |-> q, text |-> x]
  BY <1>8, <1>9, PostedEntries DEF b
<1> QED
  BY <1>1, <1>8, <1>10, Zenon DEF b

(* A message is posted, or refused. *)
LEMMA MovesSend ==
  ASSUME Typed, Shape, Numbered, NEW k \in Conn, HandleSend(k)
  PROVE  (Still /\ UNCHANGED convs) \/ Posting(k)
<1> DEFINE f == Head(up[k])
           conv == Posted(convs[f.conv], who[k], f.text)
           e == conv.log[Len(conv.log)]
           to == PushesFor(online, Recipients(conv, who[k]))
<1>1. f \in Frames /\ f.t = "send" /\ who[k] \in Person
  BY FrameRead, Zenon DEF HandleSend
<1>2. f.conv \in ConvId /\ f.text \in Text
  BY <1>1, FrameFields
<1>3. UNCHANGED <<rx, down>> /\ pend[k] = Idle
  BY DEF HandleSend, AtSelect
<1>4. CASE Has(convs[f.conv], who[k])
  <2>1. /\ convs' = [convs EXCEPT ![f.conv] = conv]
        /\ pend' = [pend EXCEPT ![k] = Pushing(<<Msg(f.conv, e)>>, to)]
    BY <1>4, Zenon DEF HandleSend
  <2>2. convs[f.conv] \in Conv /\ Contiguous(convs[f.conv]) /\ convs \in [ConvId -> Conv]
    BY <1>2 DEF Typed, Numbered, AllContiguous
  <2>3. conv.nextSeq = convs[f.conv].nextSeq + 1
        /\ e = [seq |-> convs[f.conv].nextSeq + 1, from |-> who[k], text |-> f.text]
    <3> DEFINE a == convs[f.conv]
               x == f.text
    <3>1. a \in Conv /\ Contiguous(a) /\ x \in Text /\ who[k] \in Person /\ conv = Posted(a, who[k], x)
      BY <1>1, <1>2, <2>2
    <3> HIDE DEF a, x, f, conv
    <3>2. /\ conv.nextSeq = a.nextSeq + 1
          /\ conv.log[Len(conv.log)] = [seq |-> a.nextSeq + 1, from |-> who[k], text |-> x]
      BY <3>1, PostedLast
    <3> QED
      BY <3>2 DEF a, x
  <2>9. e = conv.log[Len(conv.log)] /\ to = PushesFor(online, conv.members \ {who[k]})
    <3> HIDE DEF conv
    <3> QED
      BY DEF Recipients
  <2> HIDE DEF f, conv, e, to
  <2>4. convs'[f.conv] = conv
    BY <1>2, <2>1, <2>2
  <2>5. Starts(k, Pushing(<<Msg(f.conv, e)>>, to))
    BY <1>3, <2>1 DEF Starts
  <2>6. e.seq = convs[f.conv].nextSeq + 1 /\ convs'[f.conv].nextSeq = e.seq /\ e.from = who[k]
    BY <2>3, <2>4
  <2>7. /\ e = convs'[f.conv].log[Len(convs'[f.conv].log)]
        /\ to = PushesFor(online, convs'[f.conv].members \ {who[k]})
    BY <2>4, <2>9, Zenon
  <2> QED
    <3> DEFINE P(d, y, S) ==
                 /\ Starts(k, Pushing(<<Msg(d, y)>>, S))
                 /\ y.seq = convs[d].nextSeq + 1 /\ convs'[d].nextSeq = y.seq
                 /\ y = convs'[d].log[Len(convs'[d].log)] /\ y.from = who[k]
                 /\ S = PushesFor(online, convs'[d].members \ {who[k]})
    <3>1. P(f.conv, e, to)
      BY <2>5, <2>6, <2>7
    <3>2. Posting(k) <=> \E d \in ConvId : \E y, S : P(d, y, S)
      BY DEF Posting
    <3> HIDE DEF P
    <3> QED
      BY <1>2, <3>1, <3>2, Zenon
<1>5. CASE ~Has(convs[f.conv], who[k])
  <2>1. UNCHANGED pend /\ UNCHANGED convs
    BY <1>5, Zenon DEF HandleSend
  <2> QED
    BY <1>3, <2>1 DEF Still
<1> QED
  BY <1>4, <1>5

(* Every kind of frame. *)
LEMMA MovesFrame ==
  ASSUME Typed, Shape, Numbered, NEW k \in Conn, HandleFrame(k)
  PROVE  Still \/ Posting(k) \/ Tells(k)
<1>1. CASE HandleAck(k) \/ IgnoreHello(k)
  BY <1>1 DEF HandleAck, IgnoreHello, Still
<1>2. CASE HandleOpenDm(k)
  <2> DEFINE c == {who[k], Head(up[k]).peer}
             m == [t |-> "conv", conv |-> c]
             msgs == IF Cardinality(c) = 1 THEN <<m, m>> ELSE <<m>>
             to == PushesFor(online, c)
  <2>1. pend[k] = Idle /\ pend' = [pend EXCEPT ![k] = Pushing(msgs, to)] /\ UNCHANGED <<rx, down>>
    BY <1>2 DEF HandleOpenDm, AtSelect
  <2>2. msgs # <<>> /\ NoMsg(msgs)
    BY DEF NoMsg
  <2> HIDE DEF msgs, to
  <2>3. Starts(k, Pushing(msgs, to))
    BY <2>1 DEF Starts
  <2> QED
    BY <2>2, <2>3, Zenon DEF Tells
<1>3. CASE HandleCreateRoom(k)
  <2> DEFINE to == PushesFor(online, Head(up[k]).members \cup {who[k]})
             msgs(r) == <<[t |-> "conv", conv |-> r]>>
  <2>1. PICK r \in UnusedRooms : pend' = [pend EXCEPT ![k] = Pushing(msgs(r), to)]
    BY <1>3 DEF HandleCreateRoom
  <2>2. pend[k] = Idle /\ UNCHANGED <<rx, down>>
    BY <1>3 DEF HandleCreateRoom, AtSelect
  <2>3. msgs(r) # <<>> /\ NoMsg(msgs(r))
    BY DEF NoMsg
  <2> HIDE DEF msgs, to
  <2>4. Starts(k, Pushing(msgs(r), to))
    BY <2>1, <2>2 DEF Starts
  <2> QED
    BY <2>3, <2>4, Zenon DEF Tells
<1> QED
  BY <1>1, <1>2, <1>3, MovesSend DEF HandleFrame

(* The end of the select loop, and of the task. *)
LEMMA MovesLeave ==
  ASSUME NEW k \in Conn, PushRefused(k) \/ LinkEnded(k)
  PROVE  Tells(k)
<1> DEFINE on == [online EXCEPT ![who[k]] = NoConn]
           msgs == <<[t |-> "presence", online |-> OnlineIds(on)]>>
           to == PushesFor(on, Person)
<1>1. Leave(k) /\ pend[k] = Idle
  BY DEF PushRefused, LinkEnded, AtSelect
<1>2. pend' = [pend EXCEPT ![k] = Pushing(msgs, to)] /\ UNCHANGED <<rx, down>>
  BY <1>1 DEF Leave, wire
<1>3. msgs # <<>> /\ NoMsg(msgs)
  BY DEF NoMsg
<1> HIDE DEF msgs, to
<1>4. Starts(k, Pushing(msgs, to))
  BY <1>1, <1>2 DEF Starts
<1> QED
  BY <1>3, <1>4, Zenon DEF Tells

(* The welcome and the backlog. *)
LEMMA MovesGreet ==
  ASSUME Typed, NEW k \in Conn, Greet(k)
  PROVE  Greets(k) \/ Resets(k)
<1>0. pend[k] \in Work
  BY DEF Typed
<1>1. CASE SendWelcome(k)
  <2> DEFINE m == pend[k].welcome[1]
             w == [pend[k] EXCEPT !.welcome = <<>>]
  <2>1. m \in Welcomes
    BY <1>0, <1>1 DEF SendWelcome, Work
  <2>2. w.to = pend[k].to /\ w.push = pend[k].push /\ w.backlog = pend[k].backlog
    BY <1>0 DEF Work
  <2>3. SendOn(k, m) /\ pend' = [pend EXCEPT ![k] = w] /\ UNCHANGED rx
    BY <1>1 DEF SendWelcome
  <2>4. Greeting(k)
    BY <1>1 DEF SendWelcome, Greeting
  <2> HIDE DEF m, w
  <2> QED
    BY <2>1, <2>2, <2>3, <2>4 DEF Greets
<1>2. CASE SendBacklog(k)
  <2>1. PICK m \in pend[k].backlog :
          SendOn(k, m) /\ pend' = [pend EXCEPT ![k].backlog = @ \ {m}]
    BY <1>2 DEF SendBacklog
  <2> DEFINE w == [pend[k] EXCEPT !.backlog = @ \ {m}]
  <2>2. w.to = pend[k].to /\ w.push = pend[k].push /\ w.backlog = pend[k].backlog \ {m}
    BY <1>0 DEF Work
  <2>3. pend' = [pend EXCEPT ![k] = w] /\ UNCHANGED rx
    BY <1>2, <2>1 DEF SendBacklog
  <2>4. Greeting(k)
    BY <2>1 DEF Greeting
  <2> HIDE DEF w
  <2> QED
    BY <2>1, <2>2, <2>3, <2>4 DEF Greets
<1>3. CASE GoOffline(k)
  BY <1>3 DEF GoOffline, TaskEnds, Resets, Greeting
<1> QED
  BY <1>1, <1>2, <1>3 DEF Greet

(* Sign-in: what is still to send is the backlog, and news of the sign-in. *)
LEMMA MovesSignIn ==
  ASSUME Typed, Shape, NEW k \in Conn, SignIn(k)
  PROVE  Signs(k)
<1> DEFINE q == Head(up[k]).id
           cs == [convs EXCEPT ![Family].members = @ \cup {q}]
           on == [online EXCEPT ![q] = k]
           push == <<[t |-> "members", members |-> members \cup {q}],
                     [t |-> "presence", online |-> OnlineIds(on)]>>
           w == [welcome |-> <<[t |-> "welcome", members |-> members \cup {q},
                                convs |-> MetasFor(cs, q), online |-> OnlineIds(on)]>>,
                 backlog |-> BacklogFor(cs, q), push |-> push, to |-> PushesFor(on, Person)]
<1>1. phase[k] = "hello" /\ pend' = [pend EXCEPT ![k] = w] /\ convs' = cs /\ UNCHANGED <<rx, down>>
      /\ who' = [who EXCEPT ![k] = q]
  BY DEF SignIn
<1>7. q \in Person
  <2>1. Head(up[k]) \in Frames /\ Head(up[k]).t = "hello"
    BY ConsumeType DEF SignIn, NextFrame
  <2> QED
    BY <2>1, FrameFields
<1>2. pend[k] = Idle
  BY <1>1 DEF Shape, Quiet
<1>3. w.backlog = BacklogFor(cs, q) /\ w.push = push
  OBVIOUS
<1>4. push # <<>> /\ NoMsg(push)
  BY DEF NoMsg
<1> HIDE DEF q, cs, push, w
<1>5. Starts(k, w)
  BY <1>1, <1>2 DEF Starts
<1>6. NoMsg(w.push) /\ w.push # <<>> /\ w.backlog = BacklogFor(convs', q)
  BY <1>1, <1>3, <1>4
<1> QED
  BY <1>1, <1>5, <1>6, <1>7 DEF Signs

(* Every step of a handler. *)
LEMMA MovesHandler ==
  ASSUME Typed, Shape, Numbered, NEW k \in Conn, Handler(k)
  PROVE  Handles(k)
<1>1. CASE DropEarlyFrame(k)
  BY <1>1 DEF DropEarlyFrame, Still, Handles
<1>2. CASE GiveUpHello(k) \/ EndTask(k)
  <2>1. TaskEnds(k) /\ (phase[k] = "hello" \/ pend[k].to = {})
    BY <1>2 DEF GiveUpHello, EndTask
  <2>2. pend[k].to = {}
    BY <2>1 DEF Shape, Quiet, Idle
  <2> QED
    BY <2>1, <2>2 DEF TaskEnds, Resets, Handles
<1>3. CASE SignIn(k) \/ Greet(k) \/ HandleFrame(k)
  BY <1>3, MovesSignIn, MovesGreet, MovesFrame DEF Handles
<1>4. CASE PushRefused(k) \/ LinkEnded(k)
  BY <1>4, MovesLeave DEF Handles
<1>5. CASE Push(k) \/ ForwardPush(k)
  BY <1>5 DEF Handles
<1> QED
  BY <1>1, <1>2, <1>3, <1>4, <1>5 DEF Handler

(* Every step. *)
LEMMA MovesStep ==
  ASSUME HInv, [Next]_vars
  PROVE  Still \/ Crash \/ \E k \in Conn : Moves(k)
<1>1. CASE UNCHANGED vars
  BY <1>1 DEF vars, Still
<1>2. ASSUME NEW k \in Conn,
             Handler(k) \/ Network(k) \/ \E f \in Frames : ClientFrame(k, f)
      PROVE  Moves(k)
  <2>1. Typed /\ Shape /\ Numbered
    BY DEF HInv, IInv, Store
  <2>2. CASE Handler(k)
    BY <2>1, <2>2, MovesHandler DEF Moves
  <2>3. CASE Network(k) \/ \E f \in Frames : ClientFrame(k, f)
    BY <2>3, MovesNetwork DEF Moves, Handles
  <2> QED
    BY <1>2, <2>2, <2>3
<1> QED
  BY <1>1, <1>2 DEF Next

-----------------------------------------------------------------------------
(* What a handler carries. *)

(* A handler that starts to push notices, or one message, carries as much. *)
LEMMA PushingCarries ==
  ASSUME NEW q, NEW S, q # <<>>, \A i \in DOMAIN q : q[i].t = "msg" => Len(q) = 1
  PROVE  OneMessage(Pushing(q, S))
<1>1. CASE S = {}
  <2>1. Pushing(q, S).push = <<>> /\ Pushing(q, S).to = {}
    BY <1>1 DEF Pushing, Idle
  <2> QED
    BY <2>1 DEF OneMessage
<1>2. CASE S # {}
  <2>1. Pushing(q, S).push = q
    BY <1>2 DEF Pushing, Idle
  <2> QED
    BY <2>1 DEF OneMessage
<1> QED
  BY <1>1, <1>2

(* Nothing to do carries nothing. *)
LEMMA IdleCarries == OneMessage(Idle)
BY DEF OneMessage, Idle

(* Carrying on with the same push, or starting one, keeps it to one message. *)
LEMMA CarriesMoves ==
  ASSUME Typed, Carries, NEW k \in Conn, Moves(k)
  PROVE  Carries'
<1> DEFINE Replaced(w) == pend' = [pend EXCEPT ![k] = w] /\ OneMessage(w)
<1>1. ASSUME NEW w, Replaced(w)
      PROVE  Carries'
  BY <1>1 DEF Typed, Carries
<1>2. CASE Still \/ Loses(k) \/ ForwardPush(k)
  BY <1>2 DEF Still, Loses, ForwardPush, Carries
<1>3. CASE Resets(k)
  BY <1>1, <1>3, IdleCarries DEF Resets
<1>4. CASE Greets(k)
  <2>1. PICK w : pend' = [pend EXCEPT ![k] = w] /\ w.to = pend[k].to /\ w.push = pend[k].push
    BY <1>4 DEF Greets
  <2> QED
    BY <1>1, <2>1 DEF Carries, OneMessage
<1>5. CASE Signs(k)
  BY <1>1, <1>5 DEF Signs, Starts, NoMsg, OneMessage
<1>6. CASE Tells(k)
  <2>1. PICK q, S : q # <<>> /\ NoMsg(q) /\ Starts(k, Pushing(q, S))
    BY <1>6 DEF Tells
  <2>2. OneMessage(Pushing(q, S))
    BY <2>1, PushingCarries DEF NoMsg
  <2> QED
    BY <1>1, <2>1, <2>2 DEF Starts
<1>7. CASE Posting(k)
  <2>1. PICK m, S : Starts(k, Pushing(<<m>>, S))
    BY <1>7 DEF Posting
  <2>2. OneMessage(Pushing(<<m>>, S))
    BY PushingCarries
  <2> QED
    BY <1>1, <2>1, <2>2 DEF Starts
<1>8. CASE Push(k)
  <2>1. PICK j : pend' = [pend EXCEPT ![k] =
             IF pend[k].to = {j} THEN Idle ELSE [pend[k] EXCEPT !.to = @ \ {j}]]
    BY <1>8 DEF Push
  <2> DEFINE w == [pend[k] EXCEPT !.to = @ \ {j}]
  <2>2. w.push = pend[k].push /\ w.to \subseteq pend[k].to
    BY DEF Typed, Work
  <2> HIDE DEF w
  <2>3. OneMessage(w)
    BY <2>2 DEF Carries, OneMessage
  <2>4. pend' = [pend EXCEPT ![k] = Idle] \/ pend' = [pend EXCEPT ![k] = w]
    BY <2>1 DEF w
  <2> QED
    BY <1>1, <2>3, <2>4, IdleCarries
<1> QED
  BY <1>2, <1>3, <1>4, <1>5, <1>6, <1>7, <1>8 DEF Moves, Handles

-----------------------------------------------------------------------------
(* Every seq under way was given out. *)

(* Everything under way is a message of the hub. *)
LEMMA AroundType ==
  ASSUME Typed, NEW k \in Conn
  PROVE  Around(k) \subseteq ServerMsgs
<1>1. /\ pend[k].backlog \subseteq Msgs /\ pend[k].push \in Seq(Msgs \cup Notices)
      /\ rx[k] \in Seq(Msgs \cup Notices) /\ down[k] \in Seq(ServerMsgs)
  BY DEF Typed, Work
<1>2. ASSUME NEW S, NEW q \in Seq(S) PROVE Entries(q) \subseteq S
  BY DEF Entries
<1>3. /\ Entries(pend[k].push) \subseteq Msgs \cup Notices
      /\ Entries(rx[k]) \subseteq Msgs \cup Notices /\ Entries(down[k]) \subseteq ServerMsgs
  BY <1>1, <1>2, Zenon
<1> QED
  BY <1>1, <1>3 DEF Around, ServerMsgs

Grows == \A c \in ConvId : convs[c].nextSeq <= convs'[c].nextSeq

(* A seq that was given out still is. *)
LEMMA GivenKept ==
  ASSUME Typed, Typed', Grows, NEW m \in ServerMsgs, Given(convs, m)
  PROVE  Given(convs', m)
<1> SUFFICES ASSUME m.t = "msg"
             PROVE  m.seq <= convs'[m.conv].nextSeq
  BY DEF Given
<1>1. m.conv \in ConvId /\ m.seq \in Nat
  BY DEF ServerMsgs, Msgs, Welcomes, Notices
<1>2. convs[m.conv].nextSeq \in Nat /\ convs'[m.conv].nextSeq \in Nat
  BY <1>1 DEF Typed, Conv
<1>3. m.seq <= convs[m.conv].nextSeq /\ convs[m.conv].nextSeq <= convs'[m.conv].nextSeq
  BY <1>1 DEF Given, Grows
<1> QED
  BY <1>1, <1>2, <1>3

(* What was under way somewhere, or was given out, is all there is.        *)
LEMMA FreshFrom ==
  ASSUME Typed, Typed', Grows, GivenOut,
         \A k \in Conn : \A m \in Around(k)' :
           (\E h \in Conn : m \in Around(h)) \/ Given(convs', m)
  PROVE  GivenOut'
<1> SUFFICES ASSUME NEW k \in Conn, NEW m \in Around(k)'
             PROVE  Given(convs', m)
  BY DEF GivenOut
<1>1. ASSUME NEW h \in Conn, m \in Around(h)
      PROVE  Given(convs', m)
  <2>1. m \in ServerMsgs /\ Given(convs, m)
    BY <1>1, AroundType DEF GivenOut
  <2> QED
    BY <2>1, GivenKept
<1> QED
  BY <1>1

(* A backlog is replayed from a numbered log. *)
LEMMA BacklogGiven ==
  ASSUME NEW cs \in [ConvId -> Conv], AllContiguous(cs), NEW q, NEW m \in BacklogFor(cs, q)
  PROVE  Given(cs, m)
<1>1. PICK c \in ConvId : Has(cs[c], q) /\ \E e \in Unread(cs[c], q) : m = Msg(c, e)
  BY DEF BacklogFor
<1>2. PICK e \in Unread(cs[c], q) : m = Msg(c, e)
  BY <1>1
<1>3. PICK i \in DOMAIN cs[c].log : e = cs[c].log[i]
  <2>1. cs[c].log \in Seq(Entry)
    BY DEF Conv
  <2> QED
    BY <1>2, <2>1 DEF Unread
<1>4. e.seq <= cs[c].nextSeq
  BY <1>3, SeqOnce DEF AllContiguous
<1> QED
  BY <1>2, <1>4 DEF Given, Msg

(* Reading from a link, ending, greeting and forwarding move what is there. *)
LEMMA DueCarried ==
  ASSUME Typed, NEW k \in Conn, Loses(k) \/ Resets(k) \/ Greets(k) \/ ForwardPush(k),
         NEW h \in Conn, NEW m \in Due(h)'
  PROVE  m \in Due(h) \/ m.t # "msg"
<1>1. rx[h] \in Seq(Msgs \cup Notices) /\ down[h] \in Seq(ServerMsgs) /\ pend[h] \in Work
  BY DEF Typed
<1>2. m \in pend'[h].backlog \/ m \in Entries(rx'[h]) \/ m \in Entries(down'[h])
  BY DEF Due, Entries
<1>3. CASE Loses(k)
  <2>1. pend'[h] = pend[h] /\ rx'[h] = rx[h]
    BY <1>3 DEF Loses
  <2>2. down'[h] \in {down[h], <<>>} \/ (down[h] # <<>> /\ down'[h] = Tail(down[h]))
    BY <1>3 DEF Loses, Typed
  <2>3. Entries(down'[h]) \subseteq Entries(down[h])
    <3>1. Entries(<<>>) = {}
      BY DEF Entries
    <3>2. down[h] # <<>> => Entries(Tail(down[h])) \subseteq Entries(down[h])
      BY <1>1, EntriesTail
    <3> QED
      BY <2>2, <3>1, <3>2
  <2> QED
    BY <1>2, <2>1, <2>3 DEF Due
<1>4. CASE Resets(k)
  <2>1. /\ pend'[h] \in {pend[h], Idle} /\ rx'[h] \in {rx[h], <<>>}
        /\ down'[h] \in {down[h], <<>>}
    BY <1>4 DEF Resets, Typed
  <2>2. Idle.backlog = {} /\ Idle.push = <<>> /\ Entries(<<>>) = {}
    BY DEF Idle, Entries
  <2> QED
    BY <1>2, <2>1, <2>2, Zenon DEF Due
<1>5. CASE Greets(k)
  <2>1. PICK n, w :
          /\ SendOn(k, n) /\ pend' = [pend EXCEPT ![k] = w]
          /\ w.push = pend[k].push /\ w.backlog \subseteq pend[k].backlog
          /\ n \in Welcomes \/ n \in pend[k].backlog
    BY <1>5 DEF Greets
  <2>2. rx'[h] = rx[h]
    BY <1>5 DEF Greets
  <2>3. pend'[h].push = pend[h].push /\ pend'[h].backlog \subseteq pend[h].backlog
    BY <2>1 DEF Typed
  <2>4. down'[h] = down[h] \/ (h = k /\ down'[h] = Append(down[h], n))
    BY <2>1 DEF SendOn, Typed
  <2>5. Entries(down'[h]) \subseteq Entries(down[h]) \cup {n} /\ (h = k \/ down'[h] = down[h])
    <3>1. Entries(Append(down[h], n)) \subseteq Entries(down[h]) \cup {n}
      BY <1>1, EntriesAppend
    <3> QED
      BY <2>4, <3>1
  <2>6. n.t # "msg" \/ n \in pend[k].backlog
    BY <2>1 DEF Welcomes
  <2> QED
    BY <1>2, <2>2, <2>3, <2>5, <2>6 DEF Due
<1>6. CASE ForwardPush(k)
  <2>1. /\ rx[k] # <<>> /\ rx' = [rx EXCEPT ![k] = Tail(rx[k])] /\ SendOn(k, Head(rx[k]))
        /\ pend' = pend
    BY <1>6 DEF ForwardPush
  <2>2. rx'[h] = rx[h] \/ (h = k /\ rx'[h] = Tail(rx[h]))
    BY <2>1 DEF Typed
  <2>3. down'[h] = down[h] \/ (h = k /\ down'[h] = Append(down[h], Head(rx[h])))
    BY <2>1 DEF SendOn, Typed
  <2>4. h = k => Entries(Tail(rx[h])) \subseteq Entries(rx[h]) /\ Head(rx[h]) \in Entries(rx[h])
    BY <1>1, <2>1, EntriesTail
  <2>5. Entries(rx'[h]) \subseteq Entries(rx[h])
    BY <2>2, <2>4
  <2>6. Entries(down'[h]) \subseteq Entries(down[h]) \cup Entries(rx[h])
    <3>1. Entries(Append(down[h], Head(rx[h]))) \subseteq Entries(down[h]) \cup {Head(rx[h])}
      BY <1>1, EntriesAppend
    <3> QED
      BY <2>3, <2>4, <3>1
  <2> QED
    BY <1>2, <2>1, <2>5, <2>6 DEF Due
<1> QED
  BY <1>3, <1>4, <1>5, <1>6

(* With what its handler carries to others. *)
LEMMA FreshCarried ==
  ASSUME Typed, NEW k \in Conn, Loses(k) \/ Resets(k) \/ Greets(k) \/ ForwardPush(k),
         NEW h \in Conn, NEW m \in Around(h)'
  PROVE  m \in Around(h) \/ m.t # "msg"
<1>1. m \in Due(h)' \/ m \in Entries(pend'[h].push)
  BY DEF Around, Due, Entries
<1>2. pend'[h].push = pend[h].push \/ pend'[h].push = <<>>
  <2>1. Loses(k) \/ ForwardPush(k) => UNCHANGED pend
    BY DEF Loses, ForwardPush
  <2>2. Resets(k) => pend' = [pend EXCEPT ![k] = Idle]
    BY DEF Resets
  <2>3. ASSUME Greets(k)
        PROVE  pend'[h].push = pend[h].push
    <3>1. PICK w : w.push = pend[k].push /\ pend' = [pend EXCEPT ![k] = w]
      BY <2>3 DEF Greets
    <3> QED
      BY <3>1 DEF Typed
  <2>4. Resets(k) => pend'[h].push = pend[h].push \/ pend'[h].push = <<>>
    <3>1. pend \in [Conn -> Work] /\ Idle.push = <<>>
      BY DEF Typed, Idle
    <3>2. Resets(k) => pend'[h] = IF h = k THEN Idle ELSE pend[h]
      BY <2>2, <3>1
    <3> QED
      BY <3>1, <3>2
  <2> QED
    BY <2>1, <2>3, <2>4
<1>3. Entries(<<>>) = {}
  BY DEF Entries
<1> QED
  BY <1>1, <1>2, <1>3, DueCarried DEF Around, Due

(* A push puts in another queue what its handler carried. *)
LEMMA DuePush ==
  ASSUME Typed, NEW k \in Conn, Push(k), NEW h \in Conn, NEW m \in Due(h)'
  PROVE  \/ m \in Due(h)
         \/ h \in pend[k].to /\ phase[h] = "serving" /\ m \in Entries(pend[k].push)
<1>0. pend[k] \in Work /\ pend[h] \in Work /\ rx[h] \in Seq(Msgs \cup Notices)
  BY DEF Typed
<1>1. PICK j \in pend[k].to :
        /\ rx' = [rx EXCEPT ![j] = IF phase[j] = "serving" THEN @ \o pend[k].push ELSE @]
        /\ pend' = [pend EXCEPT ![k] =
             IF pend[k].to = {j} THEN Idle ELSE [pend[k] EXCEPT !.to = @ \ {j}]]
        /\ UNCHANGED down
  BY DEF Push, wire
<1>2. rx'[h] = rx[h] \/ (h = j /\ phase[h] = "serving" /\ rx'[h] = rx[h] \o pend[k].push)
  BY <1>1 DEF Typed
<1>3. pend[k].push \in Seq(Msgs \cup Notices)
  BY <1>0 DEF Work
<1>4. Entries(rx[h] \o pend[k].push) \subseteq Entries(rx[h]) \cup Entries(pend[k].push)
  BY <1>0, <1>3, EntriesConcat
<1>5. pend'[h].backlog \subseteq pend[h].backlog
  BY <1>0, <1>1 DEF Typed, Work, Idle
<1>6. m \in pend'[h].backlog \/ m \in Entries(rx'[h]) \/ m \in Entries(down[h])
  BY <1>1 DEF Due, Entries
<1> QED
  BY <1>2, <1>4, <1>5, <1>6 DEF Due

(* With what its handler carries to others. *)
LEMMA FreshPush ==
  ASSUME Typed, NEW k \in Conn, Push(k), NEW h \in Conn, NEW m \in Around(h)'
  PROVE  m \in Around(h) \/ m \in Around(k)
<1>1. m \in Due(h)' \/ m \in Entries(pend'[h].push)
  BY DEF Around, Due, Entries
<1>2. pend'[h].push = pend[h].push \/ pend'[h].push = <<>>
  BY DEF Push, Typed, Work, Idle
<1>3. Entries(<<>>) = {}
  BY DEF Entries
<1> QED
  BY <1>1, <1>2, <1>3, DuePush DEF Around, Due

(* A handler that starts to send something. *)
LEMMA FreshStarts ==
  ASSUME Typed, NEW k \in Conn, NEW w, Starts(k, w), NEW h \in Conn, NEW m \in Around(h)'
  PROVE  m \in Around(h) \/ m \in w.backlog \/ m \in Entries(w.push)
<1>1. pend'[h] = pend[h] \/ pend'[h] = w
  BY DEF Starts, Typed
<1>2. rx'[h] = rx[h] /\ down'[h] = down[h]
  BY DEF Starts
<1> QED
  BY <1>1, <1>2 DEF Around, Entries

(* What a Pushing pushes. *)
LEMMA PushingEntries ==
  ASSUME NEW q, NEW S
  PROVE  Pushing(q, S).backlog = {} /\ Entries(Pushing(q, S).push) \subseteq Entries(q)
BY DEF Pushing, Idle, Entries

(* Whatever a handler does, every seq under way was given out. *)
LEMMA FreshMoves ==
  ASSUME HInv, HInv', GivenOut, Grows, NEW k \in Conn, Moves(k)
  PROVE  GivenOut'
<1>0. Typed /\ Typed'
  BY DEF HInv, IInv
<1> SUFFICES ASSUME NEW h \in Conn, NEW m \in Around(h)'
             PROVE  (\E j \in Conn : m \in Around(j)) \/ Given(convs', m)
  BY <1>0, FreshFrom
<1>1. CASE Still
  BY <1>1 DEF Still, Around, Entries
<1>2. CASE Loses(k) \/ Resets(k) \/ Greets(k) \/ ForwardPush(k)
  BY <1>0, <1>2, FreshCarried DEF Given
<1>3. CASE Push(k)
  BY <1>0, <1>3, FreshPush
<1>4. CASE Signs(k)
  <2>1. PICK q, w : Starts(k, w) /\ NoMsg(w.push) /\ w.backlog = BacklogFor(convs', q)
    BY <1>4 DEF Signs
  <2>2. convs' \in [ConvId -> Conv] /\ AllContiguous(convs')
    BY DEF HInv, IInv, Typed, Store, Numbered
  <2>3. m \in w.backlog => Given(convs', m)
    BY <2>1, <2>2, BacklogGiven
  <2>4. m \in Entries(w.push) => Given(convs', m)
    BY <2>1 DEF NoMsg, Entries, Given
  <2> QED
    BY <1>0, <2>1, <2>3, <2>4, FreshStarts
<1>5. CASE Tells(k)
  <2>1. PICK q, S : NoMsg(q) /\ Starts(k, Pushing(q, S))
    BY <1>5 DEF Tells
  <2>2. m \in Entries(q) => Given(convs', m)
    BY <2>1 DEF NoMsg, Entries, Given
  <2> QED
    BY <1>0, <2>1, <2>2, FreshStarts, PushingEntries
<1>6. CASE Posting(k)
  <2>0. PICK c \in ConvId : \E e, S :
          /\ Starts(k, Pushing(<<Msg(c, e)>>, S))
          /\ convs'[c].nextSeq = e.seq
    BY <1>6 DEF Posting
  <2>1. PICK e, S :
          /\ Starts(k, Pushing(<<Msg(c, e)>>, S))
          /\ convs'[c].nextSeq = e.seq
    BY <2>0
  <2>2. Entries(<<Msg(c, e)>>) = {Msg(c, e)}
    BY DEF Entries
  <2>3. convs'[c].nextSeq \in Nat
    BY <1>0 DEF Typed, Conv
  <2>4. Given(convs', Msg(c, e))
    BY <2>1, <2>3 DEF Given, Msg
  <2> QED
    BY <1>0, <2>1, <2>2, <2>4, FreshStarts, PushingEntries
<1> QED
  BY <1>1, <1>2, <1>3, <1>4, <1>5, <1>6 DEF Moves, Handles

-----------------------------------------------------------------------------
(* At most one copy. *)

(* A message that was never given out is nowhere. *)
LEMMA NowhereYet ==
  ASSUME Typed, Carries, GivenOut, NEW k \in Conn, NEW c \in ConvId, NEW s \in Nat,
         s > convs[c].nextSeq
  PROVE  /\ Among(pend[k].backlog, c, s) = {} /\ Hits(rx[k], c, s) = {}
         /\ Hits(down[k], c, s) = {} /\ Pushers(k, c, s) = {}
<1>1. convs[c].nextSeq \in Nat
  BY DEF Typed, Conv
<1>2. ASSUME NEW h \in Conn, NEW m \in Around(h)
      PROVE  ~IsMsg(m, c, s)
  BY <1>1 DEF GivenOut, Given, IsMsg
<1>3. Among(pend[k].backlog, c, s) = {}
  BY <1>2 DEF Among, Around
<1>4. Hits(rx[k], c, s) = {} /\ Hits(down[k], c, s) = {}
  BY <1>2 DEF Hits, Around, Entries
<1>5. ASSUME NEW j \in Conn, k \in pend[j].to
      PROVE  ~IsMsg(pend[j].push[1], c, s)
  <2>1. pend[j].push # <<>> /\ pend[j].push \in Seq(Msgs \cup Notices)
    BY <1>5 DEF Carries, OneMessage, Typed, Work
  <2>2. 1 \in DOMAIN pend[j].push
    BY <2>1
  <2> QED
    BY <1>2, <2>2 DEF Around, Entries
<1> QED
  BY <1>3, <1>4, <1>5 DEF Pushers

(* A push still under way to somebody was under way. *)
LEMMA PushersKept ==
  ASSUME NEW k \in Conn, NEW c, NEW s,
         \A j \in Conn : k \in pend'[j].to /\ IsMsg(pend'[j].push[1], c, s) =>
           k \in pend[j].to /\ pend'[j].push = pend[j].push
  PROVE  Pushers(k, c, s)' \subseteq Pushers(k, c, s)
BY DEF Pushers

(* The places after a step, for the prime to go inside. *)
LEMMA PlacesAfter ==
  ASSUME NEW k, NEW c, NEW s
  PROVE  OnePlace(k, c, s)' <=>
           OneOf(Among(pend'[k].backlog, c, s), Hits(rx'[k], c, s), Hits(down'[k], c, s),
                 Pushers(k, c, s)')
BY DEF OnePlace, OneOf, AtMostOne, Among, Hits

(* Reading from a link. *)
LEMMA SingleLoses ==
  ASSUME Typed, NEW k \in Conn, Loses(k), NEW h \in Conn, NEW c, NEW s, OnePlace(h, c, s)
  PROVE  OnePlace(h, c, s)'
<1>1. pend' = pend /\ rx' = rx
  BY DEF Loses
<1>2. Pushers(h, c, s)' \subseteq Pushers(h, c, s)
  BY <1>1, PushersKept
<1>3. down'[h] = down[h] \/ down'[h] = <<>> \/ (down[h] # <<>> /\ down'[h] = Tail(down[h]))
  BY DEF Loses, Typed
<1>4. Hits(<<>>, c, s) = {}
  BY DEF Hits
<1>5. down[h] \in Seq(ServerMsgs)
  BY DEF Typed
<1>6. \/ Hits(down'[h], c, s) \subseteq Hits(down[h], c, s)
      \/ /\ Hits(down'[h], c, s) \subseteq Int
         /\ \A i \in Hits(down'[h], c, s) : i + 1 \in Hits(down[h], c, s)
  <2>1. CASE down[h] # <<>> /\ down'[h] = Tail(down[h])
    BY <1>5, <2>1, HitsTail
  <2> QED
    BY <1>3, <1>4, <2>1
<1> QED
  BY <1>1, <1>2, <1>6, Fewer, PlacesAfter DEF OnePlace

(* The end of a task. *)
LEMMA SingleResets ==
  ASSUME Typed, NEW k \in Conn, Resets(k), NEW h \in Conn, NEW c, NEW s, OnePlace(h, c, s)
  PROVE  OnePlace(h, c, s)'
<1>1. /\ pend'[h] \in {pend[h], Idle} /\ rx'[h] \in {rx[h], <<>>}
      /\ down'[h] \in {down[h], <<>>}
  BY DEF Resets, Typed
<1>2. Hits(<<>>, c, s) = {} /\ Idle.backlog = {} /\ Idle.to = {}
  BY DEF Hits, Idle
<1>3. \A j \in Conn : pend'[j] \in {pend[j], Idle}
  BY DEF Resets, Typed
<1>4. Pushers(h, c, s)' \subseteq Pushers(h, c, s)
  BY <1>2, <1>3, PushersKept
<1>5. Among(pend'[h].backlog, c, s) \subseteq Among(pend[h].backlog, c, s)
  BY <1>1, <1>2 DEF Among
<1>6. /\ Hits(rx'[h], c, s) \subseteq Hits(rx[h], c, s)
      /\ Hits(down'[h], c, s) \subseteq Hits(down[h], c, s)
  BY <1>1, <1>2
<1> QED
  BY <1>4, <1>5, <1>6, Fewer, PlacesAfter DEF OnePlace

(* The welcome, and a message of the backlog that goes to the link. *)
LEMMA SingleGreets ==
  ASSUME Typed, NEW k \in Conn, Greets(k), NEW h \in Conn, NEW c, NEW s, OnePlace(h, c, s)
  PROVE  OnePlace(h, c, s)'
<1>1. PICK m, w :
        /\ SendOn(k, m) /\ pend' = [pend EXCEPT ![k] = w]
        /\ w.to = pend[k].to /\ w.push = pend[k].push
        /\ \/ m \in Welcomes /\ w.backlog = pend[k].backlog
           \/ m \in pend[k].backlog /\ w.backlog = pend[k].backlog \ {m}
  BY DEF Greets
<1>2. rx'[h] = rx[h]
  BY DEF Greets
<1>3. \A j \in Conn : pend'[j].to = pend[j].to /\ pend'[j].push = pend[j].push
  BY <1>1 DEF Typed
<1>4. Pushers(h, c, s)' \subseteq Pushers(h, c, s)
  BY <1>3, PushersKept
<1>5. down[h] \in Seq(ServerMsgs)
  BY DEF Typed
<1>6. \/ down'[h] = down[h] \/ (h = k /\ down'[h] = Append(down[h], m))
  BY <1>1 DEF SendOn, Typed
<1>7. Among(pend'[h].backlog, c, s) \subseteq Among(pend[h].backlog, c, s)
  BY <1>1 DEF Typed, Among
<1>8. CASE Hits(down'[h], c, s) \subseteq Hits(down[h], c, s)
  BY <1>2, <1>4, <1>7, <1>8, Fewer, PlacesAfter DEF OnePlace
<1>9. CASE ~(Hits(down'[h], c, s) \subseteq Hits(down[h], c, s))
  <2>1. h = k /\ down'[h] = Append(down[h], m) /\ IsMsg(m, c, s)
    BY <1>5, <1>6, <1>9, HitsAppend
  <2>2. m \in pend[h].backlog /\ pend'[h].backlog = pend[h].backlog \ {m}
    BY <1>1, <2>1 DEF Typed, IsMsg, Welcomes
  <2>3. m \in Among(pend[h].backlog, c, s)
    BY <2>1, <2>2 DEF Among
  <2>4. /\ Among(pend'[h].backlog, c, s) = {} /\ Hits(rx[h], c, s) = {}
        /\ Hits(down[h], c, s) = {} /\ Pushers(h, c, s) = {}
    BY <2>2, <2>3 DEF OnePlace, OneOf, AtMostOne, Among
  <2>5. Hits(down'[h], c, s) \subseteq {Len(down[h]) + 1}
    BY <1>5, <2>1, <2>4, HitsAppend
  <2>6. Pushers(h, c, s)' = {}
    BY <1>4, <2>4
  <2> QED
    BY <1>2, <2>4, <2>5, <2>6, PlacesAfter DEF OneOf, AtMostOne
<1> QED
  BY <1>8, <1>9

(* A message goes from a push queue to the link. *)
LEMMA SingleForwardPush ==
  ASSUME Typed, NEW k \in Conn, ForwardPush(k), NEW h \in Conn, NEW c, NEW s, OnePlace(h, c, s)
  PROVE  OnePlace(h, c, s)'
<1>1. /\ rx[k] # <<>> /\ rx' = [rx EXCEPT ![k] = Tail(rx[k])] /\ SendOn(k, Head(rx[k]))
      /\ pend' = pend
  BY DEF ForwardPush
<1>2. Pushers(h, c, s)' \subseteq Pushers(h, c, s)
  BY <1>1, PushersKept
<1>3. rx[h] \in Seq(Msgs \cup Notices) /\ down[h] \in Seq(ServerMsgs)
  BY DEF Typed
<1>4. CASE h # k
  <2>1. rx'[h] = rx[h] /\ down'[h] = down[h]
    BY <1>1, <1>4 DEF SendOn, Typed
  <2> QED
    BY <1>1, <1>2, <2>1, Fewer, PlacesAfter DEF OnePlace
<1>5. CASE h = k
  <2> DEFINE m == Head(rx[h])
  <2>1. rx[h] # <<>> /\ rx'[h] = Tail(rx[h])
    BY <1>1, <1>5 DEF Typed
  <2>2. down'[h] = down[h] \/ down'[h] = Append(down[h], m)
    BY <1>1, <1>5 DEF SendOn, Typed
  <2>3. /\ Hits(rx'[h], c, s) \subseteq Nat \ {0}
        /\ \A i \in Hits(rx'[h], c, s) : i + 1 \in Hits(rx[h], c, s)
    BY <1>3, <2>1, HitsTail
  <2>4. CASE ~IsMsg(m, c, s)
    <3>1. Hits(down'[h], c, s) \subseteq Hits(down[h], c, s)
      BY <1>3, <2>2, <2>4, HitsAppend
    <3>2. Hits(rx'[h], c, s) \subseteq Int
      BY <2>3
    <3> QED
      BY <1>1, <1>2, <2>3, <3>1, <3>2, Fewer, PlacesAfter DEF OnePlace
  <2>5. CASE IsMsg(m, c, s)
    <3>1. 1 \in Hits(rx[h], c, s)
      BY <1>3, <2>1, <2>5 DEF Hits
    <3>2. /\ Among(pend[h].backlog, c, s) = {} /\ Hits(down[h], c, s) = {}
          /\ Pushers(h, c, s) = {} /\ AtMostOne(Hits(rx[h], c, s))
      BY <3>1 DEF OnePlace, OneOf
    <3>3. Hits(rx'[h], c, s) = {}
      <4> SUFFICES ASSUME NEW i \in Hits(rx'[h], c, s) PROVE FALSE
        OBVIOUS
      <4>1. i \in Nat \ {0} /\ i + 1 = 1
        BY <2>3, <3>1, <3>2 DEF AtMostOne
      <4> QED
        BY <4>1
    <3>4. Hits(down'[h], c, s) \subseteq {Len(down[h]) + 1}
      BY <1>3, <2>2, <3>2, HitsAppend
    <3>5. Pushers(h, c, s)' = {}
      BY <1>2, <3>2
    <3> QED
      BY <1>1, <3>2, <3>3, <3>4, <3>5, PlacesAfter DEF OneOf, AtMostOne
  <2> QED
    BY <2>4, <2>5
<1> QED
  BY <1>4, <1>5

(* A message goes from a handler to the push queue of another. *)
LEMMA SinglePush ==
  ASSUME Typed, Carries, NEW k \in Conn, Push(k), NEW h \in Conn, NEW c, NEW s,
         OnePlace(h, c, s)
  PROVE  OnePlace(h, c, s)'
<1> DEFINE push == pend[k].push
<1>0. pend[k] \in Work /\ push \in Seq(Msgs \cup Notices) /\ rx[h] \in Seq(Msgs \cup Notices)
  BY DEF Typed, Work
<1>1. PICK j \in pend[k].to :
        /\ rx' = [rx EXCEPT ![j] = IF phase[j] = "serving" THEN @ \o pend[k].push ELSE @]
        /\ pend' = [pend EXCEPT ![k] =
             IF pend[k].to = {j} THEN Idle ELSE [pend[k] EXCEPT !.to = @ \ {j}]]
        /\ UNCHANGED down
  BY DEF Push, wire
<1> DEFINE w == [pend[k] EXCEPT !.to = @ \ {j}]
<1>2. w.push = push /\ w.backlog = pend[k].backlog /\ w.to = pend[k].to \ {j}
  BY <1>0 DEF Work
<1>3. \A i \in Conn : pend'[i] = pend[i] \/ (i = k /\ pend'[i] \in {Idle, w})
  BY <1>1 DEF Typed
<1> HIDE DEF w
<1>4. Idle.to = {} /\ Idle.backlog = {}
  BY DEF Idle
<1>5. Pushers(h, c, s)' \subseteq Pushers(h, c, s)
  BY <1>2, <1>3, <1>4, PushersKept
<1>6. Among(pend'[h].backlog, c, s) \subseteq Among(pend[h].backlog, c, s)
  BY <1>2, <1>3, <1>4 DEF Among
<1>7. down'[h] = down[h]
  BY <1>1
<1>8. CASE Hits(rx'[h], c, s) \subseteq Hits(rx[h], c, s)
  BY <1>5, <1>6, <1>7, <1>8, Fewer, PlacesAfter DEF OnePlace
<1>9. CASE ~(Hits(rx'[h], c, s) \subseteq Hits(rx[h], c, s))
  <2>1. h = j /\ rx'[h] = rx[h] \o push
    BY <1>1, <1>9 DEF Typed
  <2> HIDE DEF push
  <2>2. \A i \in Hits(rx'[h], c, s) : i \in Hits(rx[h], c, s) \/ i - Len(rx[h]) \in Hits(push, c, s)
    BY <1>0, <2>1, HitsConcat
  <2>3. PICK n : n \in Hits(push, c, s)
    BY <1>9, <2>2
  <2>4. Len(push) = 1
    BY <2>3 DEF push, Carries, OneMessage, Hits, IsMsg
  <2>5. Hits(push, c, s) = {1}
    BY <1>0, <2>3, <2>4 DEF Hits
  <2>6. k \in Pushers(h, c, s)
    BY <1>1, <2>1, <2>5 DEF Pushers, Hits, push
  <2>7. /\ Among(pend[h].backlog, c, s) = {} /\ Hits(rx[h], c, s) = {}
        /\ Hits(down[h], c, s) = {} /\ Pushers(h, c, s) = {k}
    BY <2>6 DEF OnePlace, OneOf, AtMostOne
  <2>8. Pushers(h, c, s)' = {}
    <3>1. h \notin pend'[k].to
      BY <1>1, <1>2, <1>4, <2>1 DEF Typed, w
    <3> QED
      BY <1>5, <2>7, <3>1 DEF Pushers
  <2>9. AtMostOne(Hits(rx'[h], c, s))
    <3>1. ASSUME NEW i \in Hits(rx'[h], c, s) PROVE i - Len(rx[h]) = 1
      BY <2>2, <2>5, <2>7
    <3>2. Hits(rx'[h], c, s) \subseteq Int
      BY <1>0, <2>1 DEF Hits
    <3>3. Len(rx[h]) \in Nat
      BY <1>0
    <3> QED
      BY <3>1, <3>2, <3>3 DEF AtMostOne
  <2> QED
    BY <1>6, <1>7, <2>7, <2>8, <2>9, PlacesAfter DEF OneOf, AtMostOne
<1> QED
  BY <1>8, <1>9

(* In a numbered log there is one message of each seq to replay. *)
LEMMA BacklogOnce ==
  ASSUME NEW cs \in [ConvId -> Conv], AllContiguous(cs), NEW q, NEW c, NEW s
  PROVE  AtMostOne(Among(BacklogFor(cs, q), c, s))
<1>1. ASSUME NEW m \in BacklogFor(cs, q), IsMsg(m, c, s)
      PROVE  c \in ConvId /\ \E i \in DOMAIN cs[c].log : m = Msg(c, cs[c].log[i]) /\ cs[c].log[i].seq = s
  <2>1. PICK d \in ConvId : Has(cs[d], q) /\ \E e \in Unread(cs[d], q) : m = Msg(d, e)
    BY DEF BacklogFor
  <2>2. PICK e \in Unread(cs[d], q) : m = Msg(d, e)
    BY <2>1
  <2>3. cs[d].log \in Seq(Entry)
    BY DEF Conv
  <2>4. PICK i \in DOMAIN cs[d].log : e = cs[d].log[i]
    BY <2>2, <2>3 DEF Unread
  <2>5. d = c /\ e.seq = s
    BY <1>1, <2>2 DEF IsMsg, Msg
  <2> QED
    BY <2>1, <2>2, <2>4, <2>5
<1>2. ASSUME NEW m \in BacklogFor(cs, q), NEW n \in BacklogFor(cs, q),
             IsMsg(m, c, s), IsMsg(n, c, s)
      PROVE  m = n
  <2>1. c \in ConvId
    BY <1>1, <1>2
  <2>2. PICK i \in DOMAIN cs[c].log : m = Msg(c, cs[c].log[i]) /\ cs[c].log[i].seq = s
    BY <1>1, <1>2
  <2>3. PICK j \in DOMAIN cs[c].log : n = Msg(c, cs[c].log[j]) /\ cs[c].log[j].seq = s
    BY <1>1, <1>2
  <2>4. cs[c] \in Conv /\ Contiguous(cs[c])
    BY <2>1 DEF AllContiguous
  <2>5. i = j
    BY <2>2, <2>3, <2>4, SeqOnce
  <2> QED
    BY <2>2, <2>3, <2>5
<1> QED
  BY <1>2 DEF AtMostOne, Among

(* A handler that starts to push notices pushes nobody a message. *)
LEMMA NoticesPushers ==
  ASSUME Typed, Typed', NEW k \in Conn, NEW w, Starts(k, w), NoMsg(w.push),
         w.to # {} => w.push # <<>>, NEW h \in Conn, NEW c, NEW s
  PROVE  Pushers(h, c, s)' \subseteq Pushers(h, c, s)
<1>1. \A j \in Conn : pend'[j] = pend[j] \/ (j = k /\ pend'[j] = w)
  BY DEF Starts, Typed
<1>2. w.push \in Seq(Msgs \cup Notices)
  <2>1. pend'[k] = w /\ pend'[k] \in Work
    BY DEF Starts, Typed
  <2> QED
    BY <2>1 DEF Work
<1>3. w.to # {} => ~IsMsg(w.push[1], c, s)
  BY <1>2 DEF NoMsg, IsMsg
<1> QED
  BY <1>1, <1>3, PushersKept

(* The queues and links of all, and what the others carry, stay. *)
LEMMA StartsPlaces ==
  ASSUME Typed, NEW k \in Conn, NEW w, Starts(k, w), NEW h \in Conn
  PROVE  /\ rx'[h] = rx[h] /\ down'[h] = down[h]
         /\ pend'[h] = (IF h = k THEN w ELSE pend[h]) /\ pend[k].backlog = {}
BY DEF Starts, Typed, Idle

(* News of a conversation, of a room, or of somebody who left. *)
LEMMA SingleTells ==
  ASSUME Typed, Typed', NEW k \in Conn, Tells(k), NEW h \in Conn, NEW c, NEW s,
         OnePlace(h, c, s)
  PROVE  OnePlace(h, c, s)'
<1>1. PICK q, S : q # <<>> /\ NoMsg(q) /\ Starts(k, Pushing(q, S))
  BY DEF Tells
<1> DEFINE w == Pushing(q, S)
<1>2. w.backlog = {} /\ NoMsg(w.push) /\ (w.to # {} => w.push # <<>>)
  BY <1>1 DEF Pushing, Idle, NoMsg
<1>3. Starts(k, w)
  BY <1>1
<1> HIDE DEF w
<1>4. Pushers(h, c, s)' \subseteq Pushers(h, c, s)
  BY <1>2, <1>3, NoticesPushers
<1>5. rx'[h] = rx[h] /\ down'[h] = down[h] /\ pend'[h].backlog = pend[h].backlog
  BY <1>2, <1>3, StartsPlaces
<1> QED
  BY <1>4, <1>5, Fewer, PlacesAfter DEF OnePlace

(* A sign-in reads the backlog for a connection nothing is on its way to.  *)
LEMMA SingleSigns ==
  ASSUME HInv, HInv', NEW k \in Conn, Signs(k), NEW h \in Conn, NEW c, NEW s,
         OnePlace(h, c, s)
  PROVE  OnePlace(h, c, s)'
<1>0. Typed /\ Typed' /\ Quiet /\ NoReuse /\ AllContiguous(convs')
  BY DEF HInv, IInv, Shape, Store, Numbered
<1>1. PICK q, w :
        /\ phase[k] = "hello" /\ Starts(k, w) /\ NoMsg(w.push) /\ w.push # <<>>
        /\ w.backlog = BacklogFor(convs', q)
  BY SMT DEF Signs
<1>2. Pushers(h, c, s)' \subseteq Pushers(h, c, s)
  BY <1>0, <1>1, NoticesPushers
<1>3. /\ rx'[h] = rx[h] /\ down'[h] = down[h]
      /\ pend'[h] = (IF h = k THEN w ELSE pend[h])
  BY <1>0, <1>1, StartsPlaces
<1>4. CASE h # k
  BY <1>2, <1>3, <1>4, Fewer, PlacesAfter DEF OnePlace
<1>5. CASE h = k
  <2>1. rx[h] = <<>> /\ down[h] = <<>>
    BY <1>0, <1>1, <1>5 DEF Quiet
  <2>2. Pushers(h, c, s) = {}
    BY <1>0, <1>1, <1>5 DEF NoReuse, Pushers
  <2>3. convs' \in [ConvId -> Conv]
    BY <1>0 DEF Typed
  <2>4. AtMostOne(Among(pend'[h].backlog, c, s))
    BY <1>0, <1>1, <1>3, <1>5, <2>3, BacklogOnce
  <2>5. Hits(rx'[h], c, s) = {} /\ Hits(down'[h], c, s) = {}
    BY <1>3, <2>1 DEF Hits
  <2>6. Pushers(h, c, s)' = {}
    BY <1>2, <2>2
  <2> QED
    BY <2>4, <2>5, <2>6, PlacesAfter DEF OneOf, AtMostOne
<1> QED
  BY <1>4, <1>5

(* A post takes a seq nothing under way has. *)
LEMMA SinglePosting ==
  ASSUME Typed, Typed', Carries, GivenOut, NEW k \in Conn, Posting(k),
         NEW h \in Conn, NEW c \in ConvId, NEW s \in Nat, OnePlace(h, c, s)
  PROVE  OnePlace(h, c, s)'
<1>0. PICK d \in ConvId : \E e, S :
        /\ Starts(k, Pushing(<<Msg(d, e)>>, S)) /\ e.seq = convs[d].nextSeq + 1
  BY DEF Posting
<1>1. PICK e, S :
        /\ Starts(k, Pushing(<<Msg(d, e)>>, S)) /\ e.seq = convs[d].nextSeq + 1
  BY <1>0
<1> DEFINE w == Pushing(<<Msg(d, e)>>, S)
<1>2. w.backlog = {} /\ (w.to = {} \/ w.push = <<Msg(d, e)>>)
  BY DEF Pushing, Idle
<1>3. Starts(k, w)
  BY <1>1
<1> HIDE DEF w
<1>4. rx'[h] = rx[h] /\ down'[h] = down[h] /\ pend'[h].backlog = pend[h].backlog
  BY <1>2, <1>3, StartsPlaces
<1>5. \A j \in Conn : pend'[j] = pend[j] \/ (j = k /\ pend'[j] = w)
  BY <1>3 DEF Starts, Typed
<1>6. CASE Pushers(h, c, s)' \subseteq Pushers(h, c, s)
  BY <1>4, <1>6, Fewer, PlacesAfter DEF OnePlace
<1>7. CASE ~(Pushers(h, c, s)' \subseteq Pushers(h, c, s))
  <2>1. IsMsg(w.push[1], c, s) /\ w.to # {}
    BY <1>5, <1>7, PushersKept
  <2>2. c = d /\ s = e.seq
    BY <1>2, <2>1 DEF IsMsg, Msg
  <2>3. s > convs[c].nextSeq
    <3>1. convs[c].nextSeq \in Nat
      BY DEF Typed, Conv
    <3> QED
      BY <1>1, <2>2, <3>1
  <2>4. /\ Among(pend[h].backlog, c, s) = {} /\ Hits(rx[h], c, s) = {}
        /\ Hits(down[h], c, s) = {} /\ Pushers(h, c, s) = {}
    BY <2>3, NowhereYet
  <2>5. Pushers(h, c, s)' \subseteq {k}
    BY <1>5, <2>4 DEF Pushers
  <2> QED
    BY <1>4, <2>4, <2>5, PlacesAfter DEF OneOf, AtMostOne
<1> QED
  BY <1>6, <1>7

(* Whatever a handler does. *)
LEMMA SingleMoves ==
  ASSUME HInv, HInv', Carries, GivenOut, Single, NEW k \in Conn, Moves(k)
  PROVE  Single'
<1>0. Typed /\ Typed'
  BY DEF HInv, IInv
<1> SUFFICES ASSUME NEW h \in Conn, NEW c \in ConvId, NEW s \in Nat
             PROVE  OnePlace(h, c, s)'
  BY DEF Single
<1>1. OnePlace(h, c, s)
  BY DEF Single
<1>2. CASE Still
  BY <1>1, <1>2 DEF Still, OnePlace, Pushers
<1>3. CASE Loses(k) \/ Resets(k) \/ Greets(k)
  BY <1>0, <1>1, <1>3, SingleLoses, SingleResets, SingleGreets
<1>4. CASE Signs(k)
  BY <1>1, <1>4, SingleSigns
<1>5. CASE Tells(k)
  BY <1>0, <1>1, <1>5, SingleTells
<1>6. CASE Posting(k)
  BY <1>0, <1>1, <1>6, SinglePosting
<1>7. CASE Push(k) \/ ForwardPush(k)
  BY <1>0, <1>1, <1>7, SinglePush, SingleForwardPush
<1> QED
  BY <1>2, <1>3, <1>4, <1>5, <1>6, <1>7 DEF Moves, Handles

-----------------------------------------------------------------------------
(* The invariant of what is under way. *)

CInv == HInv /\ Carries /\ GivenOut /\ Single

(* At the beginning, and after a restart, nothing is under way. *)
LEMMA NothingUnderWay ==
  ASSUME pend = [k \in Conn |-> Idle], rx = [k \in Conn |-> <<>>],
         down = [k \in Conn |-> <<>>]
  PROVE  Carries /\ GivenOut /\ Single
<1>1. Idle.backlog = {} /\ Idle.push = <<>> /\ Idle.to = {}
  BY DEF Idle
<1>2. Carries
  BY <1>1 DEF Carries, OneMessage
<1>3. \A k \in Conn : Around(k) = {}
  BY <1>1 DEF Around, Entries
<1>4. GivenOut
  BY <1>3 DEF GivenOut
<1>5. ASSUME NEW k \in Conn, NEW c \in ConvId, NEW s \in Nat
      PROVE  OnePlace(k, c, s)
  <2>1. /\ Among(pend[k].backlog, c, s) = {} /\ Hits(rx[k], c, s) = {}
        /\ Hits(down[k], c, s) = {} /\ Pushers(k, c, s) = {}
    BY <1>1 DEF Among, Hits, Pushers
  <2> QED
    BY <2>1 DEF OnePlace, OneOf, AtMostOne
<1> QED
  BY <1>2, <1>4, <1>5 DEF Single

(* The same of the state after a step. *)
LEMMA NothingUnderWayNext ==
  ASSUME pend' = [k \in Conn |-> Idle], rx' = [k \in Conn |-> <<>>],
         down' = [k \in Conn |-> <<>>]
  PROVE  Carries' /\ GivenOut' /\ Single'
<1>1. Idle.backlog = {} /\ Idle.push = <<>> /\ Idle.to = {}
  BY DEF Idle
<1>2. Carries'
  BY <1>1 DEF Carries, OneMessage
<1>3. \A k \in Conn : Around(k)' = {}
  BY <1>1 DEF Around, Entries
<1>4. GivenOut'
  BY <1>3 DEF GivenOut
<1>5. ASSUME NEW k \in Conn, NEW c \in ConvId, NEW s \in Nat
      PROVE  OnePlace(k, c, s)'
  <2>1. /\ Among(pend'[k].backlog, c, s) = {} /\ Hits(rx'[k], c, s) = {}
        /\ Hits(down'[k], c, s) = {} /\ Pushers(k, c, s)' = {}
    BY <1>1 DEF Among, Hits, Pushers
  <2> QED
    BY <2>1, PlacesAfter DEF OneOf, AtMostOne
<1> QED
  BY <1>2, <1>4, <1>5 DEF Single

(* It holds at the beginning. *)
LEMMA CInvInit == Init => CInv
BY InvInit, StoreInit, NothingUnderWay DEF CInv, HInv, Init

(* A step that is not a restart only adds to what was given out. *)
LEMMA GrowsStep ==
  ASSUME HInv, [Next]_vars, ~Crash
  PROVE  Grows
<1>1. \A c \in ConvId : SameHistory(convs[c], convs'[c])
  BY PastKept
<1>2. \A c \in ConvId : convs[c].nextSeq \in Nat
  BY DEF HInv, IInv, Typed, Conv
<1> QED
  BY <1>1, <1>2 DEF Grows, SameHistory

(* Every step keeps it. *)
LEMMA CInvStep == CInv /\ [Next]_vars => CInv'
<1> SUFFICES ASSUME CInv, [Next]_vars PROVE CInv'
  OBVIOUS
<1>1. HInv /\ HInv'
  BY InvStep, StoreInvStep DEF CInv, HInv
<1>2. CASE Crash
  BY <1>1, <1>2, NothingUnderWayNext DEF Crash, CInv
<1>3. ASSUME NEW k \in Conn, Moves(k), Grows
      PROVE  CInv'
  <2>1. Typed
    BY <1>1 DEF HInv, IInv
  <2> QED
    BY <1>1, <1>3, <2>1, CarriesMoves, FreshMoves, SingleMoves DEF CInv
<1>4. CASE ~Crash
  <2>1. Grows
    BY <1>1, <1>4, GrowsStep
  <2>2. CASE \E k \in Conn : Moves(k)
    BY <1>3, <2>1, <2>2
  <2>3. CASE Still
    <3>1. CASE Conn = {}
      BY <1>1, <3>1 DEF CInv, Carries, GivenOut, Single
    <3>2. CASE Conn # {}
      BY <1>3, <2>1, <2>3, <3>2 DEF Moves, Handles
    <3> QED
      BY <3>1, <3>2
  <2> QED
    BY <1>1, <1>4, <2>2, <2>3, MovesStep
<1> QED
  BY <1>2, <1>4

(* In every behaviour, failed writes and restarts included. *)
THEOREM UnderWayInvariance == Spec => []CInv
BY CInvInit, CInvStep, PTL DEF Spec


(* How many a set of at most one has. *)
LEMMA Few ==
  ASSUME NEW S, AtMostOne(S)
  PROVE  Cardinality(S) = (IF S = {} THEN 0 ELSE 1)
<1>1. CASE S = {}
  BY <1>1, FS_EmptySet
<1>2. ASSUME NEW x \in S
      PROVE  Cardinality(S) = 1
  <2>1. S = {x}
    BY DEF AtMostOne
  <2> QED
    BY <2>1, FS_Singleton
<1> QED
  BY <1>1, <1>2

(* In one place is at most one copy. *)
LEMMA OneOfCount ==
  ASSUME NEW B, NEW R, NEW D, NEW P, OneOf(B, R, D, P)
  PROVE  Cardinality(B) + Cardinality(R) + Cardinality(D) + Cardinality(P) <= 1
BY Few DEF OneOf

(* A message is replayed to a connection or pushed to it, never both and   *)
(* never twice, however sign-ins, posts, pushes, reused connections, cut   *)
(* links, failed writes and restarts interleave.                           *)
THEOREM OneCopy == Spec => []AtMostOneCopy
<1>1. ASSUME CInv
      PROVE  AtMostOneCopy
  <2> SUFFICES ASSUME NEW k \in Conn, NEW c \in ConvId, NEW s \in 1 .. convs[c].nextSeq
               PROVE  Copies(k, c, s) <= 1
    BY DEF AtMostOneCopy
  <2>1. s \in Nat
    BY <1>1 DEF CInv, HInv, IInv, Typed, Conv
  <2>2. OneOf(Among(pend[k].backlog, c, s), Hits(rx[k], c, s), Hits(down[k], c, s),
              Pushers(k, c, s))
    BY <1>1, <2>1 DEF CInv, Single, OnePlace
  <2>3. Copies(k, c, s) = Cardinality(Among(pend[k].backlog, c, s))
          + Cardinality(Hits(rx[k], c, s)) + Cardinality(Hits(down[k], c, s))
          + Cardinality(Pushers(k, c, s))
    BY Zenon DEF Copies, Among, Hits, Pushers, IsMsg
  <2>4. Cardinality(Among(pend[k].backlog, c, s))
          + Cardinality(Hits(rx[k], c, s)) + Cardinality(Hits(down[k], c, s))
          + Cardinality(Pushers(k, c, s)) <= 1
    BY <2>2, OneOfCount, Zenon
  <2> QED
    BY <2>3, <2>4, Zenon
<1> QED
  BY <1>1, UnderWayInvariance, PTL

(* With a disk that takes every write, nobody is told of a message whose   *)
(* seq a restart could give out again.                                     *)
THEOREM ToldDurable ==
  ASSUME ~PersistMayFail
  PROVE  Spec => []ToldIsDurable
<1>1. ASSUME CInv
      PROVE  ToldIsDurable
  <2> SUFFICES ASSUME NEW k \in Conn
               PROVE  /\ \A m \in pend[k].backlog : Given(disk.convs, m)
                      /\ \A i \in DOMAIN rx[k] : Given(disk.convs, rx[k][i])
                      /\ \A i \in DOMAIN down[k] : Given(disk.convs, down[k][i])
    BY Zenon DEF ToldIsDurable, Given
  <2>1. disk.convs = convs
    BY <1>1 DEF CInv, HInv, Store, Saved
  <2>2. \A m \in Around(k) : Given(convs, m)
    BY <1>1 DEF CInv, GivenOut
  <2> QED
    BY <2>1, <2>2 DEF Around, Entries
<1> QED
  BY <1>1, UnderWayInvariance, PTL

====
