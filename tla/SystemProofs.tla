---------------------------- MODULE SystemProofs ----------------------------
(***************************************************************************)
(* What the hub and its desktop clients are together, for any number of    *)
(* people, connections and rooms, any capacity and any bound: if no write  *)
(* of the state file fails, the system does no more than Conversations     *)
(* allows, and loses no message it does not say it may lose.               *)
(***************************************************************************)
EXTENDS HubSystem, HubProofs

-----------------------------------------------------------------------------
(* The invariant. *)

Asked == {f \in Frames : f.t # "hello"}
Sidebar == [members : SUBSET Person, online : SUBSET Person, convs : SUBSET ConvId]

ClientTypes ==
  /\ stage \in [Person -> {"dialing", "greeting", "pumping"}]
  /\ conn \in [Person -> Conn \cup {NoConn}]
  /\ outq \in [Person -> Seq(Asked)]
  /\ lastSeq \in [Person -> [ConvId -> Nat]]
  /\ roster \in [Person -> Sidebar]
  /\ shown \in [Person -> [ConvId -> Seq(Nat)]]

\* A connection is used by one client, signed in on it as itself or not yet;
\* nothing is left of the one before when it is used again.
Lines ==
  /\ \A q \in Person : stage[q] = "dialing" <=> conn[q] = NoConn
  /\ \A q, r \in Person : conn[q] = conn[r] /\ conn[q] # NoConn => q = r
  /\ \A q \in Person : conn[q] # NoConn =>
       /\ who[conn[q]] \in {q, Nobody}
       /\ \A f \in Entries(up[conn[q]]) : f.t = "hello" => f.id = q
  /\ \A k \in Conn : phase[k] = "free" => link[k] = "down" /\ up[k] = <<>> /\ who[k] = Nobody

\* A log is the end of what was ever said in its conversation.
Recorded ==
  /\ history \in [ConvId -> Seq(Entry)]
  /\ \A c \in ConvId :
       /\ Len(history[c]) = convs[c].nextSeq
       /\ \A i \in DOMAIN convs[c].log :
            /\ convs[c].log[i].seq \in DOMAIN history[c]
            /\ history[c][convs[c].log[i].seq] = convs[c].log[i]

\* What is under way was said.
Said(h, m) == m.t = "msg" => m.seq \in DOMAIN h[m.conv] /\ m = Msg(m.conv, h[m.conv][m.seq])
Told == \A k \in Conn : \A m \in Around(k) : Said(history, m)

\* Nobody's own message is under way to them: their cursor is past it.
OwnRead == \A c \in ConvId : \A i \in DOMAIN convs[c].log :
             convs[c].log[i].seq <= convs[c].cursors[convs[c].log[i].from]
Foreign(q, m) == m.t = "msg" => m.from # q
NotMine == \A k \in Conn : \A m \in Due(k) : Foreign(who[k], m)
NotTheirs == \A k \in Conn, j \in Conn : j \in pend[k].to /\ phase[j] = "serving" =>
               \A m \in Entries(pend[k].push) : Foreign(who[j], m)
NoEcho == NotMine /\ NotTheirs

\* The mark of a conversation is at or past everything shown of it.
Marks == \A q \in Person, c \in ConvId : \A j \in DOMAIN shown[q][c] :
           shown[q][c][j] <= lastSeq[q][c]

-----------------------------------------------------------------------------
(* The clients. *)

(* What the commands and drive_hub put on a link are frames. *)
LEMMA Asking ==
  /\ \A q \in Person : Hello(q) \in Frames
  /\ \A c \in ConvId, x \in Text : Send(c, x) \in Asked
  /\ \A q \in Person : OpenDm(q) \in Asked
  /\ \A S \in SUBSET Person : CreateRoom(S) \in Asked
BY DEF Hello, Send, OpenDm, CreateRoom, Frames, Asked

(* What a client does on its link, or on the one it takes. *)
OnLine(k) == Network(k) \/ \E f \in Frames : ClientFrame(k, f)
\* And when it is not reading.
Uses(k) == Accept(k) \/ CutLink(k) \/ \E f \in Frames : ClientFrame(k, f)

(* A client past dialing has a connection. *)
LEMMA HasLine ==
  ASSUME ClientTypes, Lines, NEW q \in Person, stage[q] # "dialing" \/ conn[q] # NoConn
  PROVE  conn[q] \in Conn /\ conn[q] # NoConn /\ stage[q] # "dialing"
BY DEF ClientTypes, Lines

(* Whatever people and their clients do, the hub sees frames, new links    *)
(* and the end of links; or it is read from.                               *)
LEMMA ClientsOnTheWire ==
  ASSUME ClientTypes, Lines, NEW q \in Person, User(q) \/ Client(q)
  PROVE  UNCHANGED vars \/ Receive(q) \/ \E k \in Conn : Uses(k)
<1>1. CASE \/ \E c \in ConvId, x \in Text : UserSends(q, c, x)
           \/ \E r \in Person : UserOpensDm(q, r)
           \/ \E S \in SUBSET Person : UserCreatesRoom(q, S)
  BY <1>1 DEF UserSends, UserOpensDm, UserCreatesRoom, Type
<1>2. CASE Relaunch(q)
  <2>1. CASE conn[q] # NoConn /\ CutLink(conn[q])
    BY <2>1, HasLine DEF Uses
  <2> QED
    BY <1>2, <2>1 DEF Relaunch
<1>3. CASE Dial(q)
  BY <1>3 DEF Dial, Uses
<1>4. CASE SayHello(q)
  <2>1. conn[q] \in Conn
    BY <1>4, HasLine DEF SayHello
  <2> QED
    BY <1>4, <2>1, Asking DEF SayHello, Uses
<1>5. CASE Transmit(q)
  <2>1. conn[q] \in Conn
    BY <1>5, HasLine DEF Transmit
  <2>2. Head(outq[q]) \in Frames
    <3>1. outq[q] \in Seq(Asked) /\ outq[q] # <<>>
      BY <1>5 DEF ClientTypes, Transmit
    <3>2. Head(outq[q]) \in Asked
      BY <3>1
    <3> QED
      BY <3>2 DEF Asked
  <2> QED
    BY <1>5, <2>1, <2>2 DEF Transmit, Uses
<1>6. CASE NoticeLinkDown(q)
  BY <1>6 DEF NoticeLinkDown
<1> QED
  BY <1>1, <1>2, <1>3, <1>4, <1>5, <1>6 DEF User, Client

(* So the hub sees nothing its network and its clients may not do. *)
LEMMA ClientsAreOpen ==
  ASSUME ClientTypes, Lines, NEW q \in Person, User(q) \/ Client(q)
  PROVE  UNCHANGED vars \/ \E k \in Conn : OnLine(k)
<1>1. CASE Receive(q)
  <2>1. conn[q] \in Conn
    BY <1>1, HasLine DEF Receive
  <2> QED
    BY <1>1, <2>1 DEF Receive, OnLine, Network
<1>2. CASE \E k \in Conn : Uses(k)
  BY <1>2 DEF Uses, OnLine, Network
<1> QED
  BY <1>1, <1>2, ClientsOnTheWire

(* So every step of the system is one of the hub's, or none. *)
LEMMA SystemIsHub ==
  ASSUME ClientTypes, Lines, SysNext \/ UNCHANGED sysVars
  PROVE  [Next]_vars
<1>1. CASE UNCHANGED sysVars
  BY <1>1 DEF sysVars
<1>2. CASE \E k \in Conn : HubStep(k)
  BY <1>2 DEF HubStep, Next
<1>3. CASE Failures
  BY <1>3 DEF Failures, Next, Network
<1>4. CASE \E q \in Person : User(q) \/ Client(q)
  BY <1>4, ClientsAreOpen DEF Next, OnLine
<1> QED
  BY <1>1, <1>2, <1>3, <1>4 DEF SysNext

(* What was taken off an outgoing queue leaves frames, and a server        *)
(* message says what the sidebar shows.                                    *)
LEMMA ServerFields ==
  ASSUME NEW m \in ServerMsgs
  PROVE  /\ m.t = "msg" => m.conv \in ConvId /\ m.seq \in Nat /\ m \in Msgs
         /\ m.t = "welcome" => /\ m.members \in SUBSET Person /\ m.online \in SUBSET Person
                               /\ m.convs \in SUBSET ConvId
         /\ m.t = "members" => m.members \in SUBSET Person
         /\ m.t = "presence" => m.online \in SUBSET Person
         /\ m.t = "conv" => m.conv \in ConvId
BY DEF ServerMsgs, Msgs, Welcomes, Notices

(* A frame typed. *)
LEMMA TypeTypes ==
  ASSUME ClientTypes, NEW q \in Person, NEW f \in Asked, Type(q, f)
  PROVE  ClientTypes'
BY DEF ClientTypes, Type

(* The program started again. *)
LEMMA RelaunchTypes ==
  ASSUME ClientTypes, NEW q \in Person, Relaunch(q)
  PROVE  ClientTypes'
<1>1. NoRoster \in Sidebar
  BY DEF NoRoster, Sidebar
<1>2. /\ stage' = [stage EXCEPT ![q] = "dialing"] /\ conn' = [conn EXCEPT ![q] = NoConn]
      /\ outq' = [outq EXCEPT ![q] = <<>>]
      /\ lastSeq' = [lastSeq EXCEPT ![q] = [c \in ConvId |-> 0]]
      /\ roster' = [roster EXCEPT ![q] = NoRoster]
      /\ shown' = [shown EXCEPT ![q] = [c \in ConvId |-> <<>>]]
  BY DEF Relaunch
<1> HIDE DEF NoRoster
<1>3. [c \in ConvId |-> 0] \in [ConvId -> Nat] /\ <<>> \in Seq(Asked)
      /\ [c \in ConvId |-> <<>>] \in [ConvId -> Seq(Nat)]
  OBVIOUS
<1> DEFINE zero == [c \in ConvId |-> 0]
           none == [c \in ConvId |-> <<>>]
           empty == <<>>
<1>4. /\ lastSeq' = [lastSeq EXCEPT ![q] = zero] /\ shown' = [shown EXCEPT ![q] = none]
      /\ zero \in [ConvId -> Nat] /\ none \in [ConvId -> Seq(Nat)]
      /\ outq' = [outq EXCEPT ![q] = empty] /\ empty \in Seq(Asked)
  BY <1>2, <1>3
<1> HIDE DEF zero, none, empty
<1> QED
  BY <1>1, <1>2, <1>4 DEF ClientTypes

(* What reading a message of the server changes: a mark and what is shown, *)
(* or the sidebar, or nothing. *)
Shows(q, m) ==
  /\ m.t = "msg" /\ m.seq > lastSeq[q][m.conv]
  /\ lastSeq' = [lastSeq EXCEPT ![q][m.conv] = m.seq]
  /\ shown' = [shown EXCEPT ![q][m.conv] = Append(@, m.seq)]
  /\ UNCHANGED roster

Updates(q, m) ==
  /\ UNCHANGED <<lastSeq, shown>>
  /\ \/ UNCHANGED roster
     \/ m.t = "welcome" /\ roster' = [roster EXCEPT ![q] =
          [members |-> m.members, online |-> m.online, convs |-> m.convs]]
     \/ m.t = "members" /\ roster' = [roster EXCEPT ![q].members = m.members]
     \/ m.t = "presence" /\ roster' = [roster EXCEPT ![q].online = m.online]
     \/ m.t = "conv" /\ roster' = [roster EXCEPT ![q].convs = @ \cup {m.conv}]

(* emit_hub and the UI's listener do one or the other. *)
LEMMA ReceiveDoes ==
  ASSUME NEW q \in Person, Receive(q)
  PROVE  /\ Shows(q, Head(down[conn[q]])) \/ Updates(q, Head(down[conn[q]]))
         /\ stage[q] = "pumping" /\ down[conn[q]] # <<>> /\ Deliver(conn[q])
         /\ UNCHANGED <<stage, conn, outq, history>>
<1> DEFINE m == Head(down[conn[q]])
<1>1. Shows(q, m) \/ Updates(q, m)
  <2>1. m.t = "msg" /\ Fresh(q, m) => Shows(q, m)
    BY DEF Receive, Shows, Fresh
  <2>2. m.t \in {"welcome", "members", "presence", "conv"} => Updates(q, m)
    BY DEF Receive, Updates
  <2>3. ~(m.t = "msg" /\ Fresh(q, m)) /\ m.t \notin {"welcome", "members", "presence", "conv"}
          => Updates(q, m)
    BY DEF Receive, Updates
  <2> HIDE DEF m
  <2> QED
    BY <2>1, <2>2, <2>3
<1>2. /\ stage[q] = "pumping" /\ down[conn[q]] # <<>> /\ Deliver(conn[q])
      /\ UNCHANGED <<stage, conn, outq, history>>
  BY Zenon DEF Receive
<1> HIDE DEF m
<1> QED
  BY <1>1, <1>2 DEF m

(* The message is one of the server's. *)
LEMMA Read ==
  ASSUME Typed, ClientTypes, Lines, NEW q \in Person, stage[q] = "pumping", down[conn[q]] # <<>>
  PROVE  /\ conn[q] \in Conn /\ Head(down[conn[q]]) \in ServerMsgs
         /\ Head(down[conn[q]]) \in Entries(down[conn[q]])
<1>1. conn[q] \in Conn
  BY HasLine
<1>2. down[conn[q]] \in Seq(ServerMsgs)
  BY <1>1 DEF Typed
<1> QED
  BY <1>1, <1>2 DEF Entries

(* A message of the server read. *)
LEMMA ReceiveTypes ==
  ASSUME Typed, ClientTypes, Lines, NEW q \in Person, Receive(q)
  PROVE  ClientTypes'
<1> DEFINE m == Head(down[conn[q]])
<1>1. Shows(q, m) \/ Updates(q, m)
  BY ReceiveDoes
<1>2. m \in ServerMsgs
  BY ReceiveDoes, Read
<1>3. UNCHANGED <<stage, conn, outq>>
  BY ReceiveDoes
<1>4. roster \in [Person -> Sidebar] /\ roster[q] \in Sidebar
  BY DEF ClientTypes
<1> HIDE DEF m
<1>5. CASE Shows(q, m)
  <2>1. m.conv \in ConvId /\ m.seq \in Nat
    BY <1>2, <1>5, ServerFields DEF Shows
  <2>2. lastSeq' \in [Person -> [ConvId -> Nat]]
    BY <1>5, <2>1 DEF ClientTypes, Shows
  <2>3. shown \in [Person -> [ConvId -> Seq(Nat)]] /\ shown[q] \in [ConvId -> Seq(Nat)]
    BY DEF ClientTypes
  <2> DEFINE s == Append(shown[q][m.conv], m.seq)
  <2>4. s \in Seq(Nat) /\ shown' = [shown EXCEPT ![q] = [@ EXCEPT ![m.conv] = s]]
    BY <1>5, <2>1, <2>3 DEF Shows
  <2> HIDE DEF s
  <2>5. [shown[q] EXCEPT ![m.conv] = s] \in [ConvId -> Seq(Nat)]
    BY <2>3, <2>4
  <2>6. shown' \in [Person -> [ConvId -> Seq(Nat)]]
    BY <2>3, <2>4, <2>5
  <2> QED
    BY <1>3, <1>4, <1>5, <2>2, <2>6 DEF ClientTypes, Shows
<1>6. CASE Updates(q, m)
  <2>1. roster' \in [Person -> Sidebar]
    <3>1. ASSUME NEW r \in Sidebar, roster' = [roster EXCEPT ![q] = r]
          PROVE  roster' \in [Person -> Sidebar]
      BY <1>4, <3>1
    <3>2. CASE m.t = "welcome" /\ roster' = [roster EXCEPT ![q] =
                 [members |-> m.members, online |-> m.online, convs |-> m.convs]]
      <4>1. [members |-> m.members, online |-> m.online, convs |-> m.convs] \in Sidebar
        BY <1>2, <3>2, ServerFields DEF Sidebar
      <4> QED
        BY <3>1, <3>2, <4>1
    <3>3. CASE m.t = "members" /\ roster' = [roster EXCEPT ![q].members = m.members]
      <4>1. [roster[q] EXCEPT !.members = m.members] \in Sidebar
        BY <1>2, <1>4, <3>3, ServerFields DEF Sidebar
      <4> QED
        BY <3>1, <3>3, <4>1
    <3>4. CASE m.t = "presence" /\ roster' = [roster EXCEPT ![q].online = m.online]
      <4>1. [roster[q] EXCEPT !.online = m.online] \in Sidebar
        BY <1>2, <1>4, <3>4, ServerFields DEF Sidebar
      <4> QED
        BY <3>1, <3>4, <4>1
    <3>5. CASE m.t = "conv" /\ roster' = [roster EXCEPT ![q].convs = @ \cup {m.conv}]
      <4>1. [roster[q] EXCEPT !.convs = @ \cup {m.conv}] \in Sidebar
        BY <1>2, <1>4, <3>5, ServerFields DEF Sidebar
      <4> QED
        BY <3>1, <3>5, <4>1
    <3> QED
      BY <1>4, <1>6, <3>2, <3>3, <3>4, <3>5 DEF Updates
  <2> QED
    BY <1>3, <1>6, <2>1 DEF ClientTypes, Updates
<1> QED
  BY <1>1, <1>5, <1>6

(* A frame leaves the queue, a client hangs up. *)
LEMMA TransmitTypes ==
  ASSUME ClientTypes, NEW q \in Person, Transmit(q) \/ NoticeLinkDown(q)
  PROVE  ClientTypes'
<1>1. /\ UNCHANGED <<lastSeq, shown, roster>>
      /\ UNCHANGED <<stage, conn>> \/ HangUp(q)
      /\ outq' = outq \/ (outq[q] # <<>> /\ outq' = [outq EXCEPT ![q] = Tail(outq[q])])
  BY DEF Transmit, NoticeLinkDown
<1>2. outq' \in [Person -> Seq(Asked)]
  <2>1. outq[q] \in Seq(Asked)
    BY DEF ClientTypes
  <2>2. outq[q] # <<>> => Tail(outq[q]) \in Seq(Asked)
    BY <2>1
  <2> QED
    BY <1>1, <2>2 DEF ClientTypes
<1> QED
  BY <1>1, <1>2 DEF ClientTypes, HangUp

(* Every step. *)
LEMMA ClientTypesStep ==
  ASSUME Typed, ClientTypes, Lines, SysNext \/ UNCHANGED sysVars
  PROVE  ClientTypes'
<1>1. CASE UNCHANGED client
  BY <1>1 DEF client, ClientTypes
<1>2. ASSUME NEW q \in Person, User(q) \/ Client(q)
      PROVE  ClientTypes'
  <2>1. CASE \E c \in ConvId, x \in Text : UserSends(q, c, x)
    BY <2>1, Asking, TypeTypes DEF UserSends
  <2>2. CASE \E r \in Person : UserOpensDm(q, r)
    BY <2>2, Asking, TypeTypes DEF UserOpensDm
  <2>3. CASE \E S \in SUBSET Person : UserCreatesRoom(q, S)
    BY <2>3, Asking, TypeTypes DEF UserCreatesRoom
  <2>4. CASE Dial(q)
    BY <2>4 DEF Dial, ClientTypes
  <2>5. CASE SayHello(q)
    BY <2>5 DEF SayHello, ClientTypes
  <2> QED
    BY <1>2, <2>1, <2>2, <2>3, <2>4, <2>5, RelaunchTypes, ReceiveTypes, TransmitTypes
       DEF User, Client
<1>3. UNCHANGED sysVars => UNCHANGED client
  BY DEF sysVars
<1>4. (\E k \in Conn : HubStep(k)) \/ Failures => UNCHANGED client
  BY DEF HubStep, Failures
<1> QED
  BY <1>1, <1>2, <1>3, <1>4 DEF SysNext

-----------------------------------------------------------------------------
(* Whose connection is whose. *)

Unused(k) == link[k] = "down" /\ up[k] = <<>> /\ who[k] = Nobody

\* What becomes of a connection when the hub moves: its task ends, or it has
\* no new frames and its person is the one who said Hello on it.
LineStep(k) ==
  \/ Unused(k)'
  \/ /\ Entries(up[k])' \subseteq Entries(up[k])
     /\ \/ who'[k] = who[k]
        \/ \E f \in Entries(up[k]) : f.t = "hello" /\ who'[k] = f.id
     /\ phase'[k] = "free" => phase[k] = "free" /\ (Unused(k) => Unused(k)')

(* The next frame is taken off, or some of them are lost. *)
LEMMA FewerFrames ==
  ASSUME NEW s \in Seq(Frames)
  PROVE  /\ s # <<>> => Entries(Tail(s)) \subseteq Entries(s) /\ Head(s) \in Entries(s)
         /\ \A n \in 0 .. Len(s) : Entries(SubSeq(s, 1, n)) \subseteq Entries(s)
         /\ Entries(<<>>) = {}
<1>1. s # <<>> => Entries(Tail(s)) \subseteq Entries(s) /\ Head(s) \in Entries(s)
  <2> SUFFICES ASSUME s # <<>>
               PROVE  Entries(Tail(s)) \subseteq Entries(s) /\ Head(s) \in Entries(s)
    OBVIOUS
  <2>1. \A i \in DOMAIN Tail(s) : i + 1 \in DOMAIN s /\ Tail(s)[i] = s[i + 1]
    BY TailFrom
  <2>2. 1 \in DOMAIN s /\ Head(s) = s[1]
    OBVIOUS
  <2> QED
    BY <2>1, <2>2 DEF Entries
<1>2. ASSUME NEW n \in 0 .. Len(s)
      PROVE  Entries(SubSeq(s, 1, n)) \subseteq Entries(s)
  <2>1. \A i \in DOMAIN SubSeq(s, 1, n) : i \in DOMAIN s /\ SubSeq(s, 1, n)[i] = s[i]
    OBVIOUS
  <2> QED
    BY <2>1 DEF Entries
<1>3. Entries(<<>>) = {}
  BY DEF Entries
<1> QED
  BY <1>1, <1>2, <1>3

(* A handler moves its own connection only. *)
LEMMA HandlerLine ==
  ASSUME Typed, NEW k \in Conn, Handler(k), NEW j \in Conn
  PROVE  LineStep(j)
<1>0. up \in [Conn -> Seq(Frames)] /\ up[j] \in Seq(Frames) /\ who \in [Conn -> Person \cup {Nobody}]
      /\ phase \in [Conn -> {"free", "hello", "serving", "leaving"}] /\ link \in [Conn -> {"up", "down"}]
  BY DEF Typed
<1>1. CASE TaskEnds(k)
  BY <1>0, <1>1 DEF TaskEnds, LineStep, Unused
<1>2. CASE /\ UNCHANGED <<who, link, up>>
           /\ UNCHANGED phase \/ phase' = [phase EXCEPT ![k] = "leaving"]
  <2>1. phase'[j] = phase[j] \/ phase'[j] = "leaving"
    BY <1>0, <1>2
  <2> QED
    BY <1>2, <2>1 DEF LineStep, Unused
<1>3. CASE /\ Consume(k) /\ up[k] # <<>> /\ UNCHANGED link /\ phase[k] # "free" /\ phase'[k] # "free"
           /\ \A i \in Conn \ {k} : who'[i] = who[i] /\ phase'[i] = phase[i]
           /\ \/ who'[k] = who[k]
              \/ Head(up[k]).t = "hello" /\ who'[k] = Head(up[k]).id
  <2>1. CASE j = k
    <3>1. up'[j] = Tail(up[j])
      BY <1>0, <1>3, <2>1 DEF Consume
    <3>2. Entries(up'[j]) \subseteq Entries(up[j]) /\ Head(up[j]) \in Entries(up[j])
      BY <1>0, <1>3, <2>1, <3>1, FewerFrames
    <3>3. phase'[j] # "free"
      BY <1>3, <2>1
    <3>4. who'[j] = who[j] \/ \E f \in Entries(up[j]) : f.t = "hello" /\ who'[j] = f.id
      BY <1>3, <2>1, <3>2
    <3> QED
      BY <3>2, <3>3, <3>4 DEF LineStep
  <2>2. CASE j # k
    <3>1. up'[j] = up[j]
      BY <1>0, <1>3, <2>2 DEF Consume
    <3>2. who'[j] = who[j] /\ phase'[j] = phase[j] /\ link'[j] = link[j]
      BY <1>3, <2>2
    <3> QED
      BY <3>1, <3>2 DEF LineStep, Unused
  <2> QED
    BY <2>1, <2>2
<1>4. CASE DropEarlyFrame(k)
  BY <1>3, <1>4 DEF DropEarlyFrame
<1>5. CASE GiveUpHello(k) \/ EndTask(k) \/ GoOffline(k)
  BY <1>1, <1>5 DEF GiveUpHello, EndTask, GoOffline
<1>6. CASE SignIn(k)
  <2>1. /\ Consume(k) /\ up[k] # <<>> /\ UNCHANGED link /\ phase[k] = "hello"
        /\ phase' = [phase EXCEPT ![k] = "serving"]
        /\ Head(up[k]).t = "hello" /\ who' = [who EXCEPT ![k] = Head(up[k]).id]
    BY <1>6 DEF SignIn, NextFrame
  <2> QED
    BY <1>0, <1>3, <2>1
<1>7. CASE SendWelcome(k) \/ SendBacklog(k) \/ Push(k) \/ ForwardPush(k)
  BY <1>2, <1>7 DEF SendWelcome, SendBacklog, Push, ForwardPush, wire
<1>8. CASE PushRefused(k) \/ LinkEnded(k)
  BY <1>2, <1>8 DEF PushRefused, LinkEnded, Leave, wire
<1>9. CASE HandleFrame(k)
  <2>1. AtSelect(k) /\ Consume(k) /\ up[k] # <<>> /\ UNCHANGED <<link, who, phase>>
    BY <1>9 DEF HandleFrame, HandleSend, HandleAck, HandleOpenDm, HandleCreateRoom, IgnoreHello, NextFrame
  <2> QED
    BY <1>3, <2>1 DEF AtSelect
<1> QED
  BY <1>4, <1>5, <1>6, <1>7, <1>8, <1>9 DEF Handler, Greet

(* The hub's steps, its failures among them. *)
LEMMA HubLine ==
  ASSUME Typed, NEW j \in Conn,
         (\E k \in Conn : Handler(k)) \/ Crash \/ \E k \in Conn : CutLink(k)
  PROVE  LineStep(j)
<1>1. CASE Crash
  BY <1>1 DEF Crash, LineStep, Unused
<1>2. ASSUME NEW k \in Conn, CutLink(k)
      PROVE  LineStep(j)
  <2>0. up \in [Conn -> Seq(Frames)] /\ link \in [Conn -> {"up", "down"}]
    BY DEF Typed
  <2>1. PICK n \in 0 .. Len(up[k]) : up' = [up EXCEPT ![k] = SubSeq(up[k], 1, n)]
    BY <1>2 DEF CutLink
  <2>2. UNCHANGED <<who, phase>> /\ link' = [link EXCEPT ![k] = "down"]
    BY <1>2 DEF CutLink
  <2>3. CASE j = k
    <3>1. Entries(up'[j]) \subseteq Entries(up[j])
      BY <2>0, <2>1, <2>3, FewerFrames
    <3>2. ~Unused(j)
      BY <1>2, <2>3 DEF CutLink, Unused
    <3> QED
      BY <2>2, <3>1, <3>2 DEF LineStep
  <2>4. CASE j # k
    BY <2>0, <2>1, <2>2, <2>4 DEF LineStep, Unused
  <2> QED
    BY <2>3, <2>4
<1> QED
  BY <1>1, <1>2, HandlerLine


(* When the hub moves, the clients are where they were. *)
LEMMA LinesHub ==
  ASSUME Lines, ClientTypes, UNCHANGED <<stage, conn>>, \A k \in Conn : LineStep(k)
  PROVE  Lines'
<1>1. ASSUME NEW q \in Person, conn[q] # NoConn
      PROVE  /\ who'[conn[q]] \in {q, Nobody}
             /\ \A f \in Entries(up[conn[q]])' : f.t = "hello" => f.id = q
  <2> DEFINE k == conn[q]
  <2>1. k \in Conn /\ LineStep(k)
    BY <1>1, HasLine
  <2>2. who[k] \in {q, Nobody} /\ \A f \in Entries(up[k]) : f.t = "hello" => f.id = q
    BY <1>1 DEF Lines
  <2>3. Entries(<<>>) = {}
    BY DEF Entries
  <2> HIDE DEF k
  <2>4. who'[k] \in {q, Nobody} /\ \A f \in Entries(up'[k]) : f.t = "hello" => f.id = q
    BY <2>1, <2>2, <2>3 DEF LineStep, Unused
  <2> QED
    BY <2>4 DEF k
<1>2. ASSUME NEW k \in Conn, phase'[k] = "free"
      PROVE  Unused(k)'
  BY <1>2 DEF LineStep, Lines, Unused
<1> QED
  BY <1>1, <1>2 DEF Lines, Unused

(* A client takes a connection nobody is using. *)
LEMMA LinesDial ==
  ASSUME Typed, Lines, ClientTypes, NEW q \in Person, Dial(q)
  PROVE  Lines'
<1>1. PICK k \in Conn \ {conn[r] : r \in Person} : Accept(k) /\ conn' = [conn EXCEPT ![q] = k]
  BY DEF Dial
<1>2. /\ stage' = [stage EXCEPT ![q] = "greeting"] /\ UNCHANGED <<up, who>> /\ phase[k] = "free"
      /\ phase' = [phase EXCEPT ![k] = "hello"] /\ link' = [link EXCEPT ![k] = "up"]
  BY <1>1 DEF Dial, Accept
<1>3. k # NoConn /\ Unused(k)
  BY <1>2, HubAssumption DEF Lines, Unused
<1>4. \A r \in Person : IF r = q THEN conn'[r] = k /\ stage'[r] = "greeting"
                        ELSE conn'[r] = conn[r] /\ stage'[r] = stage[r] /\ conn[r] # k
  BY <1>1, <1>2 DEF ClientTypes
<1>5. Entries(<<>>) = {}
  BY DEF Entries
<1>6. \A r \in Person : stage'[r] = "dialing" <=> conn'[r] = NoConn
  BY <1>3, <1>4 DEF Lines
<1>7. \A r, p \in Person : conn'[r] = conn'[p] /\ conn'[r] # NoConn => r = p
  BY <1>4 DEF Lines
<1>8. \A r \in Person : conn'[r] # NoConn =>
        /\ who'[conn'[r]] \in {r, Nobody}
        /\ \A f \in Entries(up'[conn'[r]]) : f.t = "hello" => f.id = r
  BY <1>2, <1>3, <1>4, <1>5 DEF Lines, Unused
<1>9. \A j \in Conn : phase'[j] = "free" => Unused(j)'
  BY <1>2 DEF Typed, Lines, Unused
<1> QED
  BY <1>6, <1>7, <1>8, <1>9 DEF Lines, Unused

(* A client that lets go of its connection. *)
LEMMA LinesHangUp ==
  ASSUME Lines, ClientTypes, NEW q \in Person, HangUp(q), \A k \in Conn : LineStep(k)
  PROVE  Lines'
<1>1. \A r \in Person : IF r = q THEN conn'[r] = NoConn /\ stage'[r] = "dialing"
                        ELSE conn'[r] = conn[r] /\ stage'[r] = stage[r]
  BY DEF ClientTypes, HangUp
<1>2. ASSUME NEW r \in Person, conn'[r] # NoConn
      PROVE  /\ who'[conn'[r]] \in {r, Nobody}
             /\ \A f \in Entries(up'[conn'[r]]) : f.t = "hello" => f.id = r
  <2> DEFINE k == conn[r]
  <2>0. conn'[r] = k /\ conn[r] # NoConn
    BY <1>1, <1>2
  <2>1. k \in Conn /\ LineStep(k)
    BY <2>0, HasLine
  <2>2. who[k] \in {r, Nobody} /\ \A f \in Entries(up[k]) : f.t = "hello" => f.id = r
    BY <2>0 DEF Lines
  <2>3. Entries(<<>>) = {}
    BY DEF Entries
  <2> HIDE DEF k
  <2>4. who'[k] \in {r, Nobody} /\ \A f \in Entries(up'[k]) : f.t = "hello" => f.id = r
    BY <2>1, <2>2, <2>3 DEF LineStep, Unused
  <2> QED
    BY <2>0, <2>4
<1>3. ASSUME NEW k \in Conn, phase'[k] = "free"
      PROVE  Unused(k)'
  BY <1>3 DEF LineStep, Lines, Unused
<1> QED
  BY <1>1, <1>2, <1>3 DEF Lines, Unused

(* A client says something on its connection. *)
LEMMA LinesFrame ==
  ASSUME Typed, Lines, ClientTypes, NEW q \in Person, NEW f \in Frames, stage[q] # "dialing",
         f.t = "hello" => f.id = q, ClientFrame(conn[q], f),
         conn' = conn, stage' = stage \/ stage' = [stage EXCEPT ![q] = "pumping"]
  PROVE  Lines'
<1> DEFINE k == conn[q]
<1>1. k \in Conn /\ k # NoConn
  BY HasLine
<1>2. /\ UNCHANGED <<who, phase, link>> /\ up' = [up EXCEPT ![k] = Append(up[k], f)] /\ link[k] = "up"
  BY DEF ClientFrame
<1>3. up \in [Conn -> Seq(Frames)] /\ up[k] \in Seq(Frames)
  BY <1>1 DEF Typed
<1>4. \A r \in Person : stage'[r] = "dialing" <=> stage[r] = "dialing"
  BY DEF ClientTypes
<1>5. \A r \in Person : conn[r] = k => r = q
  BY <1>1 DEF Lines
<1> HIDE DEF k
<1>6. \A j \in Conn : j # k => up'[j] = up[j]
  BY <1>1, <1>2, <1>3
<1>7. Entries(up'[k]) \subseteq Entries(up[k]) \cup {f}
  <2>1. up'[k] = Append(up[k], f)
    BY <1>1, <1>2, <1>3
  <2>2. \A i \in DOMAIN Append(up[k], f) :
          (i \in DOMAIN up[k] /\ Append(up[k], f)[i] = up[k][i]) \/ Append(up[k], f)[i] = f
    BY <1>3
  <2> QED
    BY <2>1, <2>2 DEF Entries
<1>8. ASSUME NEW r \in Person, conn[r] # NoConn
      PROVE  \A g \in Entries(up'[conn[r]]) : g.t = "hello" => g.id = r
  <2>1. conn[r] \in Conn /\ \A g \in Entries(up[conn[r]]) : g.t = "hello" => g.id = r
    BY <1>8, HasLine DEF Lines
  <2>2. CASE conn[r] = k
    BY <1>5, <1>7, <2>1, <2>2
  <2>3. CASE conn[r] # k
    BY <1>6, <2>1, <2>3
  <2> QED
    BY <2>2, <2>3
<1>9. \A j \in Conn : phase[j] = "free" => Unused(j) /\ j # k
  BY <1>2 DEF Lines, Unused
<1>10. \A j \in Conn : phase[j] = "free" => Unused(j)'
  BY <1>2, <1>6, <1>9 DEF Unused
<1> QED
  BY <1>2, <1>4, <1>8, <1>10 DEF Lines, Unused

(* Every step. *)
LEMMA LinesStep ==
  ASSUME Typed, ClientTypes, Lines, SysNext \/ UNCHANGED sysVars
  PROVE  Lines'
<1>0. ASSUME UNCHANGED <<who, phase, link, up>> PROVE \A k \in Conn : LineStep(k)
  BY <1>0 DEF LineStep, Unused
<1>1. CASE UNCHANGED sysVars
  BY <1>0, <1>1, LinesHub DEF sysVars, vars, client
<1>2. CASE (\E k \in Conn : HubStep(k)) \/ Failures
  <2>1. UNCHANGED <<stage, conn>>
    BY <1>2 DEF HubStep, Failures, client
  <2>2. (\E k \in Conn : Handler(k)) \/ Crash \/ \E k \in Conn : CutLink(k)
    BY <1>2 DEF HubStep, Failures
  <2> QED
    BY <2>1, <2>2, HubLine, LinesHub
<1>3. ASSUME NEW q \in Person, User(q) \/ Client(q)
      PROVE  Lines'
  <2>1. CASE \/ \E c \in ConvId, x \in Text : UserSends(q, c, x)
             \/ \E r \in Person : UserOpensDm(q, r)
             \/ \E S \in SUBSET Person : UserCreatesRoom(q, S)
    <3>1. UNCHANGED vars /\ UNCHANGED <<stage, conn>>
      BY <2>1 DEF UserSends, UserOpensDm, UserCreatesRoom, Type
    <3> QED
      BY <1>0, <3>1, LinesHub DEF vars
  <2>2. ASSUME HangUp(q), UNCHANGED vars \/ \E k \in Conn : CutLink(k)
        PROVE  Lines'
    BY <1>0, <2>2, HubLine, LinesHangUp DEF vars
  <2>3. CASE Relaunch(q)
    <3>1. HangUp(q)
      BY <2>3 DEF Relaunch, HangUp
    <3>2. UNCHANGED vars \/ \E k \in Conn : CutLink(k)
      BY <2>3, HasLine DEF Relaunch
    <3> QED
      BY <2>2, <3>1, <3>2
  <2>4. CASE SayHello(q)
    <3>0. stage[q] = "greeting" /\ stage' = [stage EXCEPT ![q] = "pumping"] /\ conn' = conn
      BY <2>4 DEF SayHello
    <3>1. CASE ClientFrame(conn[q], Hello(q))
      <4>1. Hello(q).id = q
        BY DEF Hello
      <4> QED
        BY <3>0, <3>1, <4>1, Asking, LinesFrame
    <3>2. CASE UNCHANGED vars
      <4>1. \A r \in Person : stage'[r] = "dialing" <=> stage[r] = "dialing"
        BY <3>0 DEF ClientTypes
      <4> QED
        BY <3>0, <3>2, <4>1 DEF vars, Lines
    <3> QED
      BY <2>4, <3>1, <3>2 DEF SayHello
  <2>5. CASE Transmit(q)
    <3>1. CASE ClientFrame(conn[q], Head(outq[q])) /\ UNCHANGED <<stage, conn>>
      <4>1. outq[q] \in Seq(Asked) /\ outq[q] # <<>> /\ stage[q] = "pumping"
        BY <2>5 DEF ClientTypes, Transmit
      <4>2. Head(outq[q]) \in Asked
        BY <4>1
      <4>3. Head(outq[q]) \in Frames /\ Head(outq[q]).t # "hello"
        BY <4>2 DEF Asked
      <4> QED
        BY <3>1, <4>1, <4>3, LinesFrame
    <3>2. CASE UNCHANGED <<vars, stage, conn>>
      BY <1>0, <3>2, LinesHub DEF vars
    <3>3. CASE HangUp(q) /\ (UNCHANGED vars \/ CutLink(conn[q]))
      <4>1. conn[q] \in Conn
        BY <2>5, HasLine DEF Transmit
      <4> QED
        BY <2>2, <3>3, <4>1
    <3> QED
      BY <2>5, <3>1, <3>2, <3>3 DEF Transmit
  <2>6. CASE Receive(q)
    <3>1. UNCHANGED <<who, phase, link, up>> /\ UNCHANGED <<stage, conn>>
      BY <2>6, ReceiveDoes DEF Deliver
    <3> QED
      BY <1>0, <3>1, LinesHub
  <2>7. CASE NoticeLinkDown(q)
    BY <2>2, <2>7 DEF NoticeLinkDown
  <2> QED
    BY <1>3, <2>1, <2>3, <2>4, <2>5, <2>6, <2>7, LinesDial DEF User, Client
<1> QED
  BY <1>1, <1>2, <1>3 DEF SysNext

(* The hub is empty, everybody is yet to dial. *)
LEMMA ClientsInit ==
  ASSUME SysInit
  PROVE  ClientTypes /\ Lines
<1>1. ClientTypes
  <2>1. NoRoster \in Sidebar
    BY DEF NoRoster, Sidebar
  <2> QED
    BY <2>1 DEF SysInit, ClientTypes
<1>2. Lines
  BY HubAssumption DEF SysInit, Init, Lines
<1> QED
  BY <1>1, <1>2

\* What is known of the hub whatever its clients do, and of these clients.
Joint == IInv /\ ClientTypes /\ Lines

(* drive_hub and the hub commands keep their marks, queues and sidebar well *)
(* typed, and no two clients ever share a connection, or speak on it for   *)
(* somebody else: whatever breaks, crashes, and failed writes there are.   *)
THEOREM ClientInvariance == SysSpec => []Joint
<1>1. SysInit => Joint
  BY InvInit, ClientsInit DEF SysInit, Joint
<1>2. Joint /\ [SysNext]_sysVars => Joint'
  <2> SUFFICES ASSUME Joint, SysNext \/ UNCHANGED sysVars PROVE Joint'
    OBVIOUS
  <2>1. IInv'
    BY SystemIsHub, InvStep DEF Joint
  <2> QED
    BY <2>1, ClientTypesStep, LinesStep DEF Joint, IInv
<1> QED
  BY <1>1, <1>2, PTL DEF SysSpec

\* The system is the hub with clients that do what the hub allows any client:
\* all that was proved of the hub holds in it.
THEOREM HubInSystem == SysSpec => Spec
<1>1. SysInit => Init
  BY DEF SysInit
<1>2. Joint /\ [SysNext]_sysVars => [Next]_vars
  BY SystemIsHub DEF Joint
<1> QED
  BY <1>1, <1>2, ClientInvariance, PTL DEF SysSpec, Spec

-----------------------------------------------------------------------------
(* What is said, and what is kept of it. *)

\* What a handler does to the conversations.
Joins(k) ==
  \E q \in Person :
    /\ phase[k] = "hello" /\ who' = [who EXCEPT ![k] = q]
    /\ convs' = [convs EXCEPT ![Family].members = @ \cup {q}]
Opens(k) ==
  \E c \in ConvId, S \in SUBSET Person :
    /\ convs[c].members = {} /\ who[k] \in S /\ convs' = [convs EXCEPT ![c] = NewConv(S)]
Speaks(k) ==
  \E c \in ConvId, x \in Text :
    /\ who[k] \in convs[c].members
    /\ convs' = [convs EXCEPT ![c] = Posted(convs[c], who[k], x)]
Acknowledges(k) ==
  \E c \in ConvId, q \in Person, n \in Nat :
    /\ convs[c].members # {} /\ convs' = [convs EXCEPT ![c] = Acked(convs[c], q, n)]
Does(k) == Joins(k) \/ (UNCHANGED who /\ (Opens(k) \/ Speaks(k) \/ Acknowledges(k)))

(* Sign-in. *)
LEMMA DoesSignIn ==
  ASSUME Typed, NEW k \in Conn, SignIn(k)
  PROVE  Joins(k)
<1> DEFINE q == Head(up[k]).id
<1>1. Head(up[k]) \in Frames /\ Head(up[k]).t = "hello"
  BY ConsumeType DEF SignIn, NextFrame
<1>2. q \in Person
  BY <1>1, FrameFields
<1>3. /\ phase[k] = "hello" /\ who' = [who EXCEPT ![k] = q]
      /\ convs' = [convs EXCEPT ![Family].members = @ \cup {q}]
  BY DEF SignIn
<1> HIDE DEF q
<1> QED
  BY <1>2, <1>3 DEF Joins

(* A frame handled. *)
LEMMA DoesFrame ==
  ASSUME Typed, Shape, NEW k \in Conn, HandleFrame(k)
  PROVE  /\ UNCHANGED who
         /\ \/ UNCHANGED convs \/ Opens(k) \/ Acknowledges(k)
            \/ HandleSend(k) /\ Speaks(k)
<1> DEFINE f == Head(up[k])
           w == who[k]
<1>0. UNCHANGED who
  BY DEF HandleFrame, HandleSend, HandleAck, HandleOpenDm, HandleCreateRoom, IgnoreHello
<1>1. CASE HandleSend(k)
  <2>1. f \in Frames /\ f.t = "send"
    BY <1>1, FrameRead, Zenon DEF HandleSend
  <2>2. f.conv \in ConvId /\ f.text \in Text
    BY <2>1, FrameFields
  <2>3. CASE Has(convs[f.conv], w)
    <3>1. convs' = [convs EXCEPT ![f.conv] = Posted(convs[f.conv], w, f.text)]
      BY <1>1, <2>3, Zenon DEF HandleSend
    <3> HIDE DEF f
    <3> QED
      BY <1>0, <1>1, <2>2, <2>3, <3>1 DEF Has, Speaks
  <2>4. CASE ~Has(convs[f.conv], w)
    BY <1>1, <1>0, <2>4, Zenon DEF HandleSend
  <2> QED
    BY <2>3, <2>4
<1>2. CASE HandleAck(k)
  <2>1. f \in Frames /\ f.t = "ack" /\ w \in Person
    BY <1>2, FrameRead, Zenon DEF HandleAck
  <2>2. f.conv \in ConvId /\ f.seq \in Nat
    BY <2>1, FrameFields
  <2>3. \/ UNCHANGED convs
        \/ convs[f.conv].members # {}
           /\ convs' = [convs EXCEPT ![f.conv] = Acked(convs[f.conv], w, f.seq)]
    BY <1>2 DEF HandleAck
  <2> HIDE DEF f, w
  <2> QED
    BY <1>0, <2>1, <2>2, <2>3 DEF Acknowledges
<1>3. CASE HandleOpenDm(k)
  <2> DEFINE c == {w, f.peer}
  <2>1. f \in Frames /\ f.t = "open_dm" /\ w \in Person
    BY <1>3, FrameRead, Zenon DEF HandleOpenDm
  <2>2. f.peer \in Person
    BY <2>1, FrameFields
  <2>3. c \in ConvId /\ c \in SUBSET Person /\ w \in c
    BY <2>1, <2>2 DEF ConvId, Dm
  <2>4. UNCHANGED convs \/ (convs[c].members = {} /\ convs' = [convs EXCEPT ![c] = NewConv(c)])
    BY <1>3 DEF HandleOpenDm
  <2> HIDE DEF c
  <2> QED
    BY <1>0, <2>3, <2>4 DEF Opens
<1>4. CASE HandleCreateRoom(k)
  <2> DEFINE S == f.members \cup {w}
  <2>1. f \in Frames /\ f.t = "create_room" /\ w \in Person
    BY <1>4, FrameRead, Zenon DEF HandleCreateRoom
  <2>2. S \in SUBSET Person /\ w \in S
    BY <2>1, FrameFields
  <2>3. PICK r \in UnusedRooms : convs' = [convs EXCEPT ![r] = NewConv(S)]
    BY <1>4 DEF HandleCreateRoom
  <2>4. r \in ConvId /\ convs[r].members = {}
    BY DEF UnusedRooms, ConvId
  <2> HIDE DEF S
  <2> QED
    BY <1>0, <2>2, <2>3, <2>4 DEF Opens
<1>5. CASE IgnoreHello(k)
  BY <1>0, <1>5 DEF IgnoreHello, store
<1> HIDE DEF f, w
<1> QED
  BY <1>1, <1>2, <1>3, <1>4, <1>5, Zenon DEF HandleFrame

(* Anything a handler does. *)
LEMMA DoesHandler ==
  ASSUME Typed, Shape, NEW k \in Conn, Handler(k)
  PROVE  Does(k) \/ (UNCHANGED convs /\ (UNCHANGED who \/ who' = [who EXCEPT ![k] = Nobody]))
<1>1. CASE SignIn(k)
  BY <1>1, DoesSignIn DEF Does
<1>2. CASE HandleFrame(k)
  BY <1>2, DoesFrame DEF Does
<1>3. CASE Handler(k) /\ ~SignIn(k) /\ ~HandleFrame(k)
  <2>1. UNCHANGED convs
    BY <1>3, StoreUntouched
  <2>2. UNCHANGED who \/ who' = [who EXCEPT ![k] = Nobody]
    BY <1>3 DEF Handler, DropEarlyFrame, GiveUpHello, Greet, SendWelcome, SendBacklog, GoOffline,
       Push, ForwardPush, PushRefused, LinkEnded, Leave, EndTask, TaskEnds
  <2> QED
    BY <2>1, <2>2
<1> QED
  BY <1>1, <1>2, <1>3

\* Whoever signed in is in the family room, so nobody opens it again.
FamilyIn == \A k \in Conn : who[k] # Nobody => who[k] \in convs[Family].members

(* The clients leave the conversations, and who is who, alone. *)
LEMMA ClientsLeave ==
  ASSUME NEW k \in Conn, OnLine(k)
  PROVE  UNCHANGED <<convs, disk>> /\ UNCHANGED who
<1>1. UNCHANGED <<convs, disk>>
  BY StoreUntouched DEF OnLine
<1>2. UNCHANGED who
  BY DEF OnLine, Network, Accept, Deliver, CutLink, ClientFrame
<1> QED
  BY <1>1, <1>2

(* The clients say nothing by themselves: it takes a handler. *)
LEMMA ClientsSaveNothing ==
  ASSUME ClientTypes, Lines, NEW q \in Person, User(q) \/ Client(q)
  PROVE  UNCHANGED <<convs, history>> /\ UNCHANGED who
<1>1. (\E c \in ConvId, x \in Text : UserSends(q, c, x)) => UNCHANGED history
  BY DEF UserSends, Type
<1>2. (\E r \in Person : UserOpensDm(q, r)) => UNCHANGED history
  BY DEF UserOpensDm, Type
<1>3. (\E S \in SUBSET Person : UserCreatesRoom(q, S)) => UNCHANGED history
  BY DEF UserCreatesRoom, Type
<1>4. Relaunch(q) \/ Dial(q) \/ SayHello(q) \/ Transmit(q) \/ NoticeLinkDown(q) => UNCHANGED history
  <2>1. Relaunch(q) => UNCHANGED history
    BY DEF Relaunch
  <2>2. Dial(q) \/ SayHello(q) \/ NoticeLinkDown(q) => UNCHANGED history
    BY DEF Dial, SayHello, NoticeLinkDown
  <2>3. Transmit(q) => UNCHANGED history
    BY DEF Transmit
  <2> QED
    BY <2>1, <2>2, <2>3
<1>9. Receive(q) => UNCHANGED history
  BY ReceiveDoes
<1>5. UNCHANGED history
  BY <1>1, <1>2, <1>3, <1>4, <1>9 DEF User, Client
<1>6. UNCHANGED vars \/ \E k \in Conn : OnLine(k)
  BY ClientsAreOpen
<1>7. UNCHANGED vars => UNCHANGED <<convs, who>>
  BY DEF vars
<1>8. \A k \in Conn : OnLine(k) => UNCHANGED <<convs, who>>
  BY ClientsLeave
<1> QED
  BY <1>5, <1>6, <1>7, <1>8

\* No conversation goes anywhere, nobody signs in.
Rests == UNCHANGED convs /\ \A j \in Conn : who'[j] = who[j] \/ who'[j] = Nobody

(* A step without a message said leaves the history alone. *)
LEMMA RestRecords ==
  ASSUME Recorded, UNCHANGED <<convs, history>>, convs \in [ConvId -> Conv]
  PROVE  Record
<1>1. history = [c \in ConvId |-> history[c]]
  BY DEF Recorded
<1>2. \A c \in ConvId : ~(convs'[c].nextSeq > convs[c].nextSeq)
  <2> TAKE c \in ConvId
  <2>1. convs[c].nextSeq \in Nat
    BY DEF Conv
  <2> QED
    BY <2>1
<1> QED
  BY <1>1, <1>2 DEF Record

(* With a disk that takes every write, a step is what a handler does, or   *)
(* leaves everything said as it is; and the history is a record of it.     *)
LEMMA SystemDoes ==
  ASSUME ~PersistMayFail, HInv, ClientTypes, Lines, Recorded, SysNext \/ UNCHANGED sysVars
  PROVE  Record /\ (Rests \/ \E k \in Conn : Does(k))
<1>0. Typed /\ Shape /\ disk.convs = convs /\ convs \in [ConvId -> Conv]
      /\ who \in [Conn -> Person \cup {Nobody}]
  BY DEF HInv, IInv, Store, Saved, Typed
<1>1. ASSUME NEW k \in Conn, HubStep(k)
      PROVE  Record /\ (Rests \/ Does(k))
  <2>1. Handler(k) /\ Record
    BY <1>1 DEF HubStep
  <2>2. (UNCHANGED who \/ who' = [who EXCEPT ![k] = Nobody]) =>
          \A j \in Conn : who'[j] = who[j] \/ who'[j] = Nobody
    BY <1>0
  <2> QED
    BY <1>0, <2>1, <2>2, DoesHandler DEF Rests
<1>2. ASSUME UNCHANGED <<convs, history>>, UNCHANGED who
      PROVE  Record /\ Rests
  BY <1>0, <1>2, RestRecords DEF Rests
<1>3. CASE Failures
  <2>0. UNCHANGED history
    BY <1>3 DEF Failures
  <2>1. CASE Crash
    <3>1. UNCHANGED convs /\ who' = [j \in Conn |-> Nobody]
      BY <1>0, <2>1 DEF Crash
    <3> QED
      BY <1>0, <2>0, <3>1, RestRecords DEF Rests
  <2>2. CASE \E k \in Conn : CutLink(k)
    BY <1>2, <2>0, <2>2, ClientsLeave DEF OnLine, Network
  <2> QED
    BY <1>3, <2>1, <2>2 DEF Failures
<1>4. ASSUME NEW q \in Person, User(q) \/ Client(q)
      PROVE  Record /\ Rests
  BY <1>0, <1>2, <1>4, ClientsSaveNothing
<1>5. CASE UNCHANGED sysVars
  BY <1>2, <1>5 DEF sysVars, vars
<1> QED
  BY <1>1, <1>3, <1>4, <1>5 DEF SysNext

(* Everybody signed in is in the family room, and stays there. *)
LEMMA FamilyStep ==
  ASSUME Typed, FamilyIn, Rests \/ \E k \in Conn : Does(k)
  PROVE  FamilyIn'
<1>0. convs \in [ConvId -> Conv] /\ who \in [Conn -> Person \cup {Nobody}] /\ Family \in ConvId
  BY DEF Typed, ConvId
<1>1. CASE Rests
  BY <1>1 DEF Rests, FamilyIn
<1>2. ASSUME NEW k \in Conn, Joins(k)
      PROVE  FamilyIn'
  <2>1. PICK q \in Person : /\ who' = [who EXCEPT ![k] = q]
                            /\ convs' = [convs EXCEPT ![Family].members = @ \cup {q}]
    BY <1>2 DEF Joins
  <2>2. convs'[Family].members = convs[Family].members \cup {q}
    BY <1>0, <2>1 DEF Conv
  <2>3. \A j \in Conn : who'[j] = IF j = k THEN q ELSE who[j]
    BY <1>0, <2>1
  <2> QED
    BY <2>2, <2>3 DEF FamilyIn
<1>3. ASSUME NEW k \in Conn, UNCHANGED who, Opens(k)
      PROVE  FamilyIn'
  <2>1. PICK c \in ConvId, S \in SUBSET Person :
          /\ convs[c].members = {} /\ who[k] \in S /\ convs' = [convs EXCEPT ![c] = NewConv(S)]
    BY <1>3 DEF Opens
  <2>2. who[k] # Nobody
    BY <2>1, HubAssumption
  <2>3. c # Family
    BY <2>1, <2>2, Zenon DEF FamilyIn
  <2>4. convs'[Family] = convs[Family]
    BY <1>0, <2>1, <2>3
  <2> QED
    BY <1>3, <2>4 DEF FamilyIn
<1>4. ASSUME UNCHANGED who, NEW c \in ConvId, NEW b, b.members = convs[c].members,
             convs' = [convs EXCEPT ![c] = b]
      PROVE  FamilyIn'
  <2>1. convs'[Family].members = convs[Family].members
    BY <1>0, <1>4
  <2> QED
    BY <1>4, <2>1 DEF FamilyIn
<1>5. ASSUME NEW k \in Conn, UNCHANGED who, Speaks(k)
      PROVE  FamilyIn'
  <2>1. PICK c \in ConvId, x \in Text :
          who[k] \in convs[c].members /\ convs' = [convs EXCEPT ![c] = Posted(convs[c], who[k], x)]
    BY <1>5 DEF Speaks
  <2>2. convs[c] \in Conv /\ who[k] \in Person
    BY <1>0, <2>1 DEF Conv
  <2>3. Posted(convs[c], who[k], x).members = convs[c].members
    BY <2>2, PostedType
  <2> QED
    BY <1>4, <1>5, <2>1, <2>3
<1>6. ASSUME NEW k \in Conn, UNCHANGED who, Acknowledges(k)
      PROVE  FamilyIn'
  <2>1. PICK c \in ConvId, q \in Person, n \in Nat :
          convs' = [convs EXCEPT ![c] = Acked(convs[c], q, n)]
    BY <1>6 DEF Acknowledges
  <2>2. Acked(convs[c], q, n).members = convs[c].members
    BY <1>0, <2>1, AckedType
  <2> QED
    BY <1>4, <1>6, <2>1, <2>2
<1> QED
  BY <1>1, <1>2, <1>3, <1>5, <1>6 DEF Does

-----------------------------------------------------------------------------
(* One conversation, and what is recorded of it. *)

\* The entry a post adds.
Addition(a, q, x) == [seq |-> a.nextSeq + 1, from |-> q, text |-> x]

\* Nothing is said in it, or one of its people says something.
Silent(c) ==
  /\ convs'[c].log = convs[c].log /\ convs'[c].nextSeq = convs[c].nextSeq
  /\ history'[c] = history[c]
Says(c, q, x) ==
  /\ q \in convs[c].members /\ convs'[c] = Posted(convs[c], q, x)
  /\ history'[c] = Append(history[c], Addition(convs[c], q, x))
Talks(c) == Silent(c) \/ \E q \in Person, x \in Text : Says(c, q, x)

(* A log left as it is leaves the record as it is. *)
LEMMA SilentRecord ==
  ASSUME Record, NEW c \in ConvId, convs[c] \in Conv,
         convs'[c].log = convs[c].log, convs'[c].nextSeq = convs[c].nextSeq
  PROVE  Silent(c)
<1>1. ~(convs'[c].nextSeq > convs[c].nextSeq)
  BY DEF Conv
<1>2. history'[c] = history[c]
  BY <1>1, Zenon DEF Record
<1> QED
  BY <1>2 DEF Silent

(* What a post makes of a conversation. *)
LEMMA AdditionIs ==
  ASSUME NEW a \in Conv, NEW q \in Person, NEW x \in Text
  PROVE  /\ Addition(a, q, x) \in Entry
         /\ Addition(a, q, x).seq = a.nextSeq + 1 /\ Addition(a, q, x).from = q
         /\ Addition(a, q, x).text = x
BY DEF Addition, Entry, Conv

(* The seq it gives out. *)
LEMMA PostCounts ==
  ASSUME NEW a \in Conv, NEW q \in Person, NEW x \in Text
  PROVE  Posted(a, q, x).nextSeq = a.nextSeq + 1
BY PostedFields, Zenon

(* The author's cursor moves past it. *)
LEMMA PostReads ==
  ASSUME NEW a \in Conv, NEW q \in Person, NEW x \in Text
  PROVE  Posted(a, q, x).cursors = [a.cursors EXCEPT ![q] = a.nextSeq + 1]
BY PostedFields, Zenon

(* The log holds what it held, and the new entry. *)
LEMMA PostHolds ==
  ASSUME NEW a \in Conv, NEW q \in Person, NEW x \in Text,
         NEW j \in DOMAIN Posted(a, q, x).log
  PROVE  \/ Posted(a, q, x).log[j] = Addition(a, q, x)
         \/ \E i \in DOMAIN a.log : Posted(a, q, x).log[j] = a.log[i]
BY PostedEntries, Zenon DEF Addition

(* The new entry is the last. *)
LEMMA PostEnds ==
  ASSUME NEW a \in Conv, NEW q \in Person, NEW x \in Text, Contiguous(a)
  PROVE  Posted(a, q, x).log[Len(Posted(a, q, x).log)] = Addition(a, q, x)
<1>1. Posted(a, q, x).log[Len(Posted(a, q, x).log)]
        = [seq |-> a.nextSeq + 1, from |-> q, text |-> x]
  BY PostedLast, Zenon
<1> QED
  BY <1>1, Zenon DEF Addition

(* A post is recorded. *)
LEMMA SaidRecord ==
  ASSUME Record, NEW c \in ConvId, convs[c] \in Conv, Contiguous(convs[c]),
         NEW q \in convs[c].members, NEW x \in Text, convs'[c] = Posted(convs[c], q, x)
  PROVE  q \in Person /\ Says(c, q, x)
<1>0. q \in Person /\ convs[c].nextSeq \in Nat
  BY DEF Conv
<1>1. convs'[c].log[Len(convs'[c].log)] = Addition(convs[c], q, x)
  BY <1>0, PostEnds, Zenon
<1>2. Posted(convs[c], q, x).nextSeq = convs[c].nextSeq + 1
  BY <1>0, PostCounts
<1>4. convs'[c].nextSeq > convs[c].nextSeq
  BY <1>0, <1>2
<1>3. history'[c] = Append(history[c], convs'[c].log[Len(convs'[c].log)])
  BY <1>4, Zenon DEF Record
<1> QED
  BY <1>0, <1>1, <1>3 DEF Says

(* Opening a conversation, a sign-in or an Ack leave what is said in all   *)
(* of them.  A conversation opened: nothing was said in it before.         *)
LEMMA OpensSilent ==
  ASSUME HInv, Record, NEW k \in Conn, Opens(k), NEW d \in ConvId
  PROVE  Silent(d)
<1>0. convs \in [ConvId -> Conv] /\ Unborn(convs[d])
  BY DEF HInv, IInv, Typed, Store, AllUnborn
<1>1. PICK c \in ConvId, S \in SUBSET Person :
        convs[c].members = {} /\ convs' = [convs EXCEPT ![c] = NewConv(S)]
  BY DEF Opens
<1>2. CASE d = c
  <2>1. convs[d].log = <<>> /\ convs[d].nextSeq = 0
    BY <1>0, <1>1, <1>2 DEF Unborn
  <2>2. NewConv(S).log = <<>> /\ NewConv(S).nextSeq = 0
    BY DEF NewConv, NoConv
  <2>3. convs'[d] = NewConv(S)
    BY <1>0, <1>1, <1>2
  <2> QED
    BY <1>0, <2>1, <2>2, <2>3, SilentRecord
<1>3. CASE d # c
  BY <1>0, <1>1, <1>3, SilentRecord
<1> QED
  BY <1>2, <1>3

(* A sign-in. *)
LEMMA JoinsSilent ==
  ASSUME HInv, Record, NEW k \in Conn, Joins(k), NEW d \in ConvId
  PROVE  Silent(d)
<1>0. convs \in [ConvId -> Conv]
  BY DEF HInv, IInv, Typed
<1>1. PICK q : convs' = [convs EXCEPT ![Family].members = @ \cup {q}]
  BY DEF Joins
<1>2. convs'[d].log = convs[d].log /\ convs'[d].nextSeq = convs[d].nextSeq
  BY <1>0, <1>1 DEF Conv
<1> QED
  BY <1>0, <1>2, SilentRecord

(* An Ack. *)
LEMMA AcknowledgesSilent ==
  ASSUME HInv, Record, NEW k \in Conn, Acknowledges(k), NEW d \in ConvId
  PROVE  Silent(d)
<1>0. convs \in [ConvId -> Conv]
  BY DEF HInv, IInv, Typed
<1>1. PICK c \in ConvId, q \in Person, n \in Nat : convs' = [convs EXCEPT ![c] = Acked(convs[c], q, n)]
  BY DEF Acknowledges
<1>2. Acked(convs[c], q, n).log = convs[c].log /\ Acked(convs[c], q, n).nextSeq = convs[c].nextSeq
  BY <1>0 DEF Acked, Conv
<1>3. convs'[d] = IF d = c THEN Acked(convs[c], q, n) ELSE convs[d]
  BY <1>0, <1>1
<1> QED
  BY <1>0, <1>2, <1>3, SilentRecord

\* The entry a handler that speaks has recorded; no other conversation's log
\* changes.
SaysIn(k, c, x) ==
  /\ who[k] \in Person /\ Says(c, who[k], x)
  /\ convs' = [convs EXCEPT ![c] = Posted(convs[c], who[k], x)]
  /\ \A d \in ConvId \ {c} : Silent(d)

(* A handler that speaks has it recorded. *)
LEMMA SpeaksSays ==
  ASSUME HInv, Record, NEW k \in Conn, Speaks(k)
  PROVE  \E c \in ConvId, x \in Text : SaysIn(k, c, x)
<1>0. convs \in [ConvId -> Conv] /\ \A c \in ConvId : Contiguous(convs[c])
  BY DEF HInv, IInv, Typed, Store, Numbered, AllContiguous
<1>1. PICK c \in ConvId, x \in Text :
        who[k] \in convs[c].members /\ convs' = [convs EXCEPT ![c] = Posted(convs[c], who[k], x)]
  BY DEF Speaks
<1>2. convs'[c] = Posted(convs[c], who[k], x)
  BY <1>0, <1>1
<1>3. who[k] \in Person /\ Says(c, who[k], x)
  BY <1>0, <1>1, <1>2, SaidRecord
<1>4. ASSUME NEW d \in ConvId \ {c}
      PROVE  Silent(d)
  <2>1. convs'[d] = convs[d]
    BY <1>0, <1>1
  <2> QED
    BY <1>0, <2>1, SilentRecord
<1> QED
  BY <1>1, <1>3, <1>4 DEF SaysIn

(* Whatever happens, a conversation is silent or one of its people speaks. *)
LEMMA Talking ==
  ASSUME HInv, Record, Rests \/ \E k \in Conn : Does(k), NEW d \in ConvId
  PROVE  Talks(d)
<1>1. CASE Rests
  <2>1. convs[d] \in Conv
    BY DEF HInv, IInv, Typed
  <2> QED
    BY <1>1, <2>1, SilentRecord DEF Rests, Talks
<1>2. ASSUME NEW k \in Conn, Speaks(k)
      PROVE  Talks(d)
  <2>1. PICK c \in ConvId, x \in Text : SaysIn(k, c, x)
    BY <1>2, SpeaksSays
  <2> QED
    BY <2>1 DEF SaysIn, Talks
<1>3. ASSUME NEW k \in Conn, Joins(k) \/ Opens(k) \/ Acknowledges(k)
      PROVE  Talks(d)
  BY <1>3, JoinsSilent, OpensSilent, AcknowledgesSilent DEF Talks
<1> QED
  BY <1>1, <1>2, <1>3 DEF Does

(* What is recorded stays as it was, and the next is recorded after it.    *)
LEMMA RecordStep ==
  ASSUME HInv, Recorded, \A c \in ConvId : Talks(c), Record
  PROVE  /\ Recorded'
         /\ \A c \in ConvId : \A i \in DOMAIN history[c] :
              i \in DOMAIN history'[c] /\ history'[c][i] = history[c][i]
<1>0. convs \in [ConvId -> Conv] /\ history \in [ConvId -> Seq(Entry)]
  BY DEF HInv, IInv, Typed, Recorded
<1> DEFINE Kept(c) ==
             /\ history'[c] \in Seq(Entry)
             /\ Len(history'[c]) = convs'[c].nextSeq
             /\ \A i \in DOMAIN convs'[c].log :
                  /\ convs'[c].log[i].seq \in DOMAIN history'[c]
                  /\ history'[c][convs'[c].log[i].seq] = convs'[c].log[i]
             /\ \A i \in DOMAIN history[c] :
                  i \in DOMAIN history'[c] /\ history'[c][i] = history[c][i]
<1>1. ASSUME NEW c \in ConvId
      PROVE  Kept(c)
  <2>0. history[c] \in Seq(Entry) /\ convs[c] \in Conv /\ Len(history[c]) = convs[c].nextSeq
        /\ \A i \in DOMAIN convs[c].log :
             /\ convs[c].log[i].seq \in DOMAIN history[c]
             /\ history[c][convs[c].log[i].seq] = convs[c].log[i]
    BY <1>0 DEF Recorded
  <2>1. CASE Silent(c)
    BY <2>0, <2>1 DEF Silent
  <2>2. ASSUME NEW q \in Person, NEW x \in Text, Says(c, q, x)
        PROVE  Kept(c)
    <3> DEFINE e == Addition(convs[c], q, x)
               h == history[c]
               n == convs[c].nextSeq
               b == convs'[c]
    <3>1. n \in Nat /\ Len(h) = n /\ h \in Seq(Entry) /\ history'[c] = Append(h, e)
      BY <2>0, <2>2 DEF Says, Conv
    <3>a. Posted(convs[c], q, x).nextSeq = convs[c].nextSeq + 1
      BY <2>0, PostCounts
    <3>b. b = Posted(convs[c], q, x)
      BY <2>2 DEF Says
    <3>2. b.nextSeq = n + 1
      BY <3>a, <3>b
    <3>c. ASSUME NEW j \in DOMAIN Posted(convs[c], q, x).log
          PROVE  \/ Posted(convs[c], q, x).log[j] = e
                 \/ \E i \in DOMAIN convs[c].log : Posted(convs[c], q, x).log[j] = convs[c].log[i]
      BY <2>0, PostHolds, Zenon
    <3>3. \A j \in DOMAIN b.log : b.log[j] = e \/ \E i \in DOMAIN convs[c].log : b.log[j] = convs[c].log[i]
      BY <3>b, <3>c, Zenon
    <3>4. e \in Entry /\ e.seq = n + 1
      BY <2>0, AdditionIs
    <3> HIDE DEF e, h, n, b
    <3>5. /\ Append(h, e) \in Seq(Entry) /\ Len(Append(h, e)) = n + 1
          /\ DOMAIN h = 1 .. n /\ DOMAIN Append(h, e) = 1 .. (n + 1)
          /\ Append(h, e)[n + 1] = e /\ \A i \in 1 .. n : Append(h, e)[i] = h[i]
      BY <3>1, <3>4
    <3>6. \A i \in 1 .. n : i \in 1 .. (n + 1)
      BY <3>1
    <3>7. \A i \in DOMAIN h : i \in DOMAIN history'[c] /\ history'[c][i] = h[i]
      BY <3>1, <3>5, <3>6
    <3>8. ASSUME NEW j \in DOMAIN b.log
          PROVE  b.log[j].seq \in DOMAIN history'[c] /\ history'[c][b.log[j].seq] = b.log[j]
      <4>1. CASE b.log[j] = e
        BY <3>1, <3>4, <3>5, <4>1
      <4>2. ASSUME NEW i \in DOMAIN convs[c].log, b.log[j] = convs[c].log[i]
            PROVE  b.log[j].seq \in DOMAIN history'[c] /\ history'[c][b.log[j].seq] = b.log[j]
        <5>1. b.log[j].seq \in DOMAIN h /\ h[b.log[j].seq] = b.log[j]
          BY <2>0, <4>2 DEF h
        <5> QED
          BY <3>7, <5>1
      <4> QED
        BY <3>3, <4>1, <4>2
    <3> QED
      BY <3>1, <3>2, <3>5, <3>7, <3>8 DEF b, h
  <2> QED
    BY <1>1, <2>1, <2>2 DEF Talks
<1>2. history' \in [ConvId -> Seq(Entry)]
  <2>1. history' = [c \in ConvId |-> history'[c]]
    BY DEF Record
  <2> QED
    BY <1>1, <2>1
<1> QED
  BY <1>1, <1>2 DEF Recorded

-----------------------------------------------------------------------------
(* Everything under way was said, and not by its reader. *)

(* A log keeps its entries below their authors' cursors. *)
LEMMA OwnReadStep ==
  ASSUME HInv, HInv', OwnRead, \A c \in ConvId : Talks(c),
         \A c \in ConvId : SameAcks(convs[c], convs'[c])
  PROVE  OwnRead'
<1> SUFFICES ASSUME NEW c \in ConvId, NEW i \in DOMAIN convs'[c].log
             PROVE  convs'[c].log[i].seq <= convs'[c].cursors[convs'[c].log[i].from]
  BY DEF OwnRead
<1> DEFINE a == convs[c]
           b == convs'[c]
<1>0. a \in Conv /\ b \in Conv /\ Contiguous(a)
  BY DEF HInv, IInv, Typed, Store, Numbered, AllContiguous
<1> DEFINE Below(e) == e.seq <= b.cursors[e.from]
<1>1. ASSUME NEW j \in DOMAIN a.log
      PROVE  Below(a.log[j])
  <2>1. a.log[j].seq \in Nat /\ a.log[j].seq <= a.nextSeq
    BY <1>0, SeqOnce
  <2>2. a.log[j].seq <= a.cursors[a.log[j].from]
    BY DEF OwnRead
  <2>3. a.log[j].from \in Person
    <3>1. a.log \in Seq(Entry)
      BY <1>0 DEF Conv
    <3>2. a.log[j] \in Entry
      BY <3>1
    <3> QED
      BY <3>2 DEF Entry
  <2>4. SameAcks(a, b)
    OBVIOUS
  <2>5. a.nextSeq \in Nat /\ a.cursors[a.log[j].from] \in Nat /\ b.cursors[a.log[j].from] \in Nat
    BY <1>0, <2>3 DEF Conv
  <2>6. b.cursors[a.log[j].from]
          >= (IF a.cursors[a.log[j].from] < a.nextSeq THEN a.cursors[a.log[j].from] ELSE a.nextSeq)
    BY <2>3, <2>4 DEF SameAcks
  <2> QED
    BY <2>1, <2>2, <2>5, <2>6
<1>2. CASE Silent(c)
  <2>1. b.log = a.log
    BY <1>2 DEF Silent
  <2> QED
    BY <1>1, <2>1
<1>3. ASSUME NEW q \in Person, NEW x \in Text, Says(c, q, x)
      PROVE  Below(b.log[i])
  <2>1. b = Posted(a, q, x)
    BY <1>3 DEF Says
  <2>2. b.log[i] = Addition(a, q, x) \/ \E j \in DOMAIN a.log : b.log[i] = a.log[j]
    <3>1. ASSUME NEW j \in DOMAIN Posted(a, q, x).log
          PROVE  \/ Posted(a, q, x).log[j] = Addition(a, q, x)
                 \/ \E l \in DOMAIN a.log : Posted(a, q, x).log[j] = a.log[l]
      BY <1>0, PostHolds, Zenon
    <3> QED
      BY <2>1, <3>1, Zenon
  <2>3. Addition(a, q, x).seq = a.nextSeq + 1 /\ Addition(a, q, x).from = q
    BY <1>0, AdditionIs
  <2>4. b.cursors = [a.cursors EXCEPT ![q] = a.nextSeq + 1]
    BY <1>0, <2>1, PostReads
  <2>5. a.cursors \in [Person -> Nat] /\ a.nextSeq \in Nat
    BY <1>0 DEF Conv
  <2> HIDE DEF a, b
  <2>6. b.cursors[q] = a.nextSeq + 1
    BY <2>4, <2>5
  <2>7. CASE b.log[i] = Addition(a, q, x)
    BY <2>3, <2>5, <2>6, <2>7
  <2> QED
    BY <1>1, <2>2, <2>7
<1>4. Talks(c)
  OBVIOUS
<1> QED
  BY <1>2, <1>3, <1>4 DEF Talks

\* Where a message under way comes from: it was under way, it is replayed, or
\* it is the one just posted.
Comes(m) ==
  \/ \E j \in Conn : m \in Around(j)
  \/ \E q \in Person : m \in BacklogFor(convs', q)
  \/ \E c \in ConvId : /\ convs'[c].nextSeq = convs[c].nextSeq + 1
                       /\ m = Msg(c, convs'[c].log[Len(convs'[c].log)])

(* Whatever a handler does, what is under way comes from there. *)
LEMMA NewsMoves ==
  ASSUME HInv, NEW k \in Conn, Moves(k), NEW h \in Conn, NEW m \in Around(h)', m.t = "msg"
  PROVE  Comes(m)
<1>0. Typed
  BY DEF HInv, IInv
<1>1. CASE Still
  BY <1>1 DEF Still, Around, Entries, Comes
<1>2. CASE Loses(k) \/ Resets(k) \/ Greets(k) \/ ForwardPush(k)
  BY <1>0, <1>2, FreshCarried DEF Comes
<1>3. CASE Push(k)
  BY <1>0, <1>3, FreshPush DEF Comes
<1>4. CASE Signs(k)
  <2>0. PICK q \in Person :
          \E w : Starts(k, w) /\ NoMsg(w.push) /\ w.backlog = BacklogFor(convs', q)
    BY <1>4 DEF Signs
  <2>1. PICK w : Starts(k, w) /\ NoMsg(w.push) /\ w.backlog = BacklogFor(convs', q)
    BY <2>0
  <2>2. m \notin Entries(w.push)
    BY <2>1 DEF NoMsg, Entries
  <2>3. m \in Around(h) \/ m \in w.backlog
    BY <1>0, <2>1, <2>2, FreshStarts
  <2> QED
    BY <2>1, <2>3 DEF Comes
<1>5. CASE Tells(k)
  <2>1. PICK q, S : NoMsg(q) /\ Starts(k, Pushing(q, S))
    BY <1>5 DEF Tells
  <2>2. m \notin Entries(q)
    BY <2>1 DEF NoMsg, Entries
  <2>3. m \in Around(h)
    BY <1>0, <2>1, <2>2, FreshStarts, PushingEntries
  <2> QED
    BY <2>3 DEF Comes
<1>6. CASE Posting(k)
  <2>1. PICK c \in ConvId : \E e, S :
          /\ Starts(k, Pushing(<<Msg(c, e)>>, S))
          /\ e.seq = convs[c].nextSeq + 1 /\ convs'[c].nextSeq = e.seq
          /\ e = convs'[c].log[Len(convs'[c].log)]
    BY <1>6 DEF Posting
  <2>2. PICK e, S :
          /\ Starts(k, Pushing(<<Msg(c, e)>>, S))
          /\ e.seq = convs[c].nextSeq + 1 /\ convs'[c].nextSeq = e.seq
          /\ e = convs'[c].log[Len(convs'[c].log)]
    BY <2>1
  <2>3. Entries(<<Msg(c, e)>>) = {Msg(c, e)}
    BY DEF Entries
  <2>4. m \in Around(h) \/ m = Msg(c, e)
    BY <1>0, <2>2, <2>3, FreshStarts, PushingEntries
  <2> QED
    BY <2>2, <2>4 DEF Comes
<1> QED
  BY <1>1, <1>2, <1>3, <1>4, <1>5, <1>6 DEF Moves, Handles

(* Everything under way is on record. *)
LEMMA ToldStep ==
  ASSUME HInv, HInv', Recorded', Told, [Next]_vars,
         \A c \in ConvId : \A i \in DOMAIN history[c] :
           i \in DOMAIN history'[c] /\ history'[c][i] = history[c][i]
  PROVE  Told'
<1> SUFFICES ASSUME NEW h \in Conn, NEW m \in Around(h)', m.t = "msg"
             PROVE  Said(history', m)
  BY DEF Told, Said
<1>0. Typed /\ convs' \in [ConvId -> Conv] /\ \A c \in ConvId : Contiguous(convs'[c])
  BY DEF HInv, IInv, Typed, Store, Numbered, AllContiguous
<1>1. ASSUME NEW j \in Conn, m \in Around(j)
      PROVE  Said(history', m)
  <2>1. m.conv \in ConvId
    BY <1>0, <1>1, AroundType, MsgConv
  <2>2. m.seq \in DOMAIN history[m.conv] /\ m = Msg(m.conv, history[m.conv][m.seq])
    BY <1>1 DEF Told, Said
  <2> QED
    BY <2>1, <2>2 DEF Said
<1>2. ASSUME NEW c \in ConvId, NEW i \in DOMAIN convs'[c].log, m = Msg(c, convs'[c].log[i])
      PROVE  Said(history', m)
  <2>1. convs'[c].log[i].seq \in DOMAIN history'[c]
        /\ history'[c][convs'[c].log[i].seq] = convs'[c].log[i]
    BY DEF Recorded
  <2>2. m.conv = c /\ m.seq = convs'[c].log[i].seq
    BY <1>2 DEF Msg
  <2> QED
    BY <1>2, <2>1, <2>2 DEF Said
<1>3. ASSUME NEW q \in Person, m \in BacklogFor(convs', q)
      PROVE  Said(history', m)
  <2>1. PICK c \in ConvId : m \in {Msg(c, e) : e \in Unread(convs'[c], q)}
    BY <1>3 DEF BacklogFor
  <2>2. PICK i \in DOMAIN convs'[c].log : m = Msg(c, convs'[c].log[i])
    <3>1. DOMAIN convs'[c].log = 1 .. Len(convs'[c].log)
      BY <1>0 DEF Conv
    <3> QED
      BY <2>1, <3>1 DEF Unread
  <2> QED
    BY <1>2, <2>2
<1>4. ASSUME NEW c \in ConvId, convs'[c].nextSeq = convs[c].nextSeq + 1,
             m = Msg(c, convs'[c].log[Len(convs'[c].log)])
      PROVE  Said(history', m)
  <2>1. convs'[c] \in Conv /\ Contiguous(convs'[c]) /\ convs[c].nextSeq \in Nat /\ MaxLog \in Nat \ {0}
    BY <1>0, HubAssumption DEF Typed, Conv
  <2>2. Len(convs'[c].log) \in DOMAIN convs'[c].log
    BY <1>4, <2>1 DEF Contiguous, Conv
  <2> QED
    BY <1>2, <1>4, <2>2
<1>5. CASE Still
  BY <1>1, <1>5 DEF Still, Around, Entries
<1>6. CASE Crash
  <2>1. Around(h)' = {}
    BY <1>6 DEF Crash, Around, Entries, Idle
  <2> QED
    BY <2>1
<1>7. ASSUME NEW k \in Conn, Moves(k)
      PROVE  Said(history', m)
  <2>1. Comes(m)
    BY <1>7, NewsMoves
  <2> QED
    BY <1>1, <1>3, <1>4, <2>1 DEF Comes
<1> QED
  BY <1>5, <1>6, <1>7, MovesStep

\* Nobody signs in on any connection.
Steady == UNCHANGED who /\ \A j \in Conn : phase'[j] = "serving" => phase[j] = "serving"

(* What was under way, or less, to the same people. *)
LEMMA EchoKept ==
  ASSUME NoEcho, Steady,
         \A h \in Conn : \A m \in Due(h)' : m \in Due(h) \/ m.t # "msg",
         \A h, j \in Conn : \A m \in Entries(pend'[h].push) :
           j \in pend'[h].to => (j \in pend[h].to /\ m \in Entries(pend[h].push)) \/ m.t # "msg"
  PROVE  NoEcho'
<1>1. NotMine'
  <2> SUFFICES ASSUME NEW h \in Conn, NEW m \in Due(h)'
               PROVE  Foreign(who'[h], m)
    BY DEF NotMine
  <2> QED
    BY DEF NoEcho, NotMine, Steady, Foreign
<1>2. NotTheirs'
  <2> SUFFICES ASSUME NEW h \in Conn, NEW j \in Conn, j \in pend'[h].to, phase'[j] = "serving",
                      NEW m \in Entries(pend'[h].push)
               PROVE  Foreign(who'[j], m)
    BY DEF NotTheirs
  <2> QED
    BY DEF NoEcho, NotTheirs, Steady, Foreign
<1> QED
  BY <1>1, <1>2 DEF NoEcho

(* Links read, tasks ended, backlogs sent, queues forwarded. *)
LEMMA EchoCarried ==
  ASSUME Typed, NoEcho, Steady, NEW k \in Conn,
         Still \/ Loses(k) \/ Resets(k) \/ Greets(k) \/ ForwardPush(k)
  PROVE  NoEcho'
<1>1. ASSUME NEW h \in Conn, NEW m \in Due(h)'
      PROVE  m \in Due(h) \/ m.t # "msg"
  <2>1. CASE Still
    BY <2>1 DEF Still, Due, Entries
  <2> QED
    BY <2>1, DueCarried
<1>2. ASSUME NEW h \in Conn
      PROVE  pend'[h].to = {} \/ (pend'[h].to = pend[h].to /\ pend'[h].push = pend[h].push)
  BY DEF Typed, Still, Loses, Resets, Greets, ForwardPush, Idle
<1> QED
  BY <1>1, <1>2, EchoKept

(* A push carried out. *)
LEMMA EchoPush ==
  ASSUME Typed, NoEcho, Steady, NEW k \in Conn, Push(k)
  PROVE  NoEcho'
<1>1. NotMine'
  <2> SUFFICES ASSUME NEW h \in Conn, NEW m \in Due(h)'
               PROVE  Foreign(who'[h], m)
    BY DEF NotMine
  <2>1. \/ m \in Due(h)
        \/ h \in pend[k].to /\ phase[h] = "serving" /\ m \in Entries(pend[k].push)
    BY DuePush
  <2> QED
    BY <2>1 DEF NoEcho, NotMine, NotTheirs, Steady
<1>2. NotTheirs'
  <2> SUFFICES ASSUME NEW h \in Conn, NEW j \in Conn, j \in pend'[h].to, phase'[j] = "serving",
                      NEW m \in Entries(pend'[h].push)
               PROVE  Foreign(who'[j], m)
    BY DEF NotTheirs
  <2>0. pend \in [Conn -> Work] /\ pend[h] \in Work
    BY DEF Typed
  <2>1. j \in pend[h].to /\ pend'[h].push = pend[h].push
    BY <2>0 DEF Push, Work, Idle
  <2> QED
    BY <2>1 DEF NoEcho, NotTheirs, Steady
<1> QED
  BY <1>1, <1>2 DEF NoEcho

(* A handler sets out to push something. *)
LEMMA EchoStarts ==
  ASSUME Typed, NoEcho, Steady, NEW k \in Conn, NEW q, NEW S, Starts(k, Pushing(q, S)),
         \A j \in S, m \in Entries(q) : Foreign(who[j], m)
  PROVE  NoEcho'
<1> DEFINE w == Pushing(q, S)
<1>0. w.backlog = {} /\ Entries(w.push) \subseteq Entries(q) /\ (w.to = S \/ w.to = {})
  <2>1. w.to = S \/ w.to = {}
    BY DEF Pushing, Idle
  <2> QED
    BY <2>1, PushingEntries
<1>1. pend' = [pend EXCEPT ![k] = w] /\ UNCHANGED <<rx, down>>
  BY DEF Starts
<1> HIDE DEF w
<1>2. NotMine'
  <2> SUFFICES ASSUME NEW h \in Conn, NEW m \in Due(h)'
               PROVE  Foreign(who'[h], m)
    BY DEF NotMine
  <2>1. pend'[h].backlog \subseteq pend[h].backlog
    BY <1>0, <1>1 DEF Typed
  <2>2. m \in Due(h)
    BY <1>1, <2>1 DEF Due, Entries
  <2> QED
    BY <2>2 DEF NoEcho, NotMine, Steady
<1>3. NotTheirs'
  <2> SUFFICES ASSUME NEW h \in Conn, NEW j \in Conn, j \in pend'[h].to, phase'[j] = "serving",
                      NEW m \in Entries(pend'[h].push)
               PROVE  Foreign(who'[j], m)
    BY DEF NotTheirs
  <2>1. CASE h = k
    <3>1. pend'[h] = w
      BY <1>1, <2>1 DEF Typed
    <3> QED
      BY <1>0, <3>1 DEF Steady
  <2>2. CASE h # k
    <3>1. pend'[h] = pend[h]
      BY <1>1, <2>2 DEF Typed
    <3> QED
      BY <3>1 DEF NoEcho, NotTheirs, Steady
  <2> QED
    BY <2>1, <2>2
<1> QED
  BY <1>2, <1>3 DEF NoEcho

(* A message posted goes to others than its author. *)
LEMMA EchoPosting ==
  ASSUME Typed, PushesAreLive, NoEcho, Steady, NEW k \in Conn, Posting(k)
  PROVE  NoEcho'
<1>1. PICK c \in ConvId : \E e, S :
        /\ Starts(k, Pushing(<<Msg(c, e)>>, S)) /\ e.from = who[k]
        /\ S = PushesFor(online, convs'[c].members \ {who[k]})
  BY DEF Posting
<1>2. PICK e, S :
        /\ Starts(k, Pushing(<<Msg(c, e)>>, S)) /\ e.from = who[k]
        /\ S = PushesFor(online, convs'[c].members \ {who[k]})
  BY <1>1
<1>3. Entries(<<Msg(c, e)>>) = {Msg(c, e)} /\ Msg(c, e).from = e.from
  BY DEF Entries, Msg
<1>4. ASSUME NEW j \in S
      PROVE  who[j] # who[k]
  BY <1>2, <1>4, PushesForLive
<1>5. \A j \in S, m \in Entries(<<Msg(c, e)>>) : Foreign(who[j], m)
  BY <1>2, <1>3, <1>4 DEF Foreign
<1> QED
  BY <1>2, <1>5, EchoStarts

(* News. *)
LEMMA EchoTells ==
  ASSUME Typed, NoEcho, Steady, NEW k \in Conn, Tells(k)
  PROVE  NoEcho'
<1>1. PICK q, S : NoMsg(q) /\ Starts(k, Pushing(q, S))
  BY DEF Tells
<1>2. \A j \in S, m \in Entries(q) : Foreign(who[j], m)
  BY <1>1 DEF NoMsg, Entries, Foreign
<1> QED
  BY <1>1, <1>2, EchoStarts

(* The end of a task. *)
LEMMA EchoTaskEnds ==
  ASSUME Typed, NoEcho, NEW k \in Conn, TaskEnds(k)
  PROVE  NoEcho'
<1>1. \A h \in Conn : h # k => /\ who'[h] = who[h] /\ phase'[h] = phase[h] /\ pend'[h] = pend[h]
                               /\ rx'[h] = rx[h] /\ down'[h] = down[h]
  BY DEF TaskEnds, Typed
<1>2. phase'[k] = "free" /\ pend'[k] = Idle /\ rx'[k] = <<>> /\ down'[k] = <<>>
  BY DEF TaskEnds, Typed
<1>3. Due(k)' = {} /\ pend'[k].to = {}
  BY <1>2 DEF Due, Entries, Idle
<1>4. \A h \in Conn : h # k => Due(h)' = Due(h)
  BY <1>1 DEF Due, Entries
<1>5. NotMine'
  BY <1>1, <1>3, <1>4 DEF NoEcho, NotMine
<1>6. NotTheirs'
  BY <1>1, <1>2, <1>3 DEF NoEcho, NotTheirs
<1> QED
  BY <1>5, <1>6 DEF NoEcho

(* A backlog is read past what its reader wrote. *)
LEMMA BacklogForeign ==
  ASSUME NEW cs \in [ConvId -> Conv], NEW q \in Person, NEW m \in BacklogFor(cs, q),
         \A c \in ConvId : \A i \in DOMAIN cs[c].log :
           cs[c].log[i].seq <= cs[c].cursors[cs[c].log[i].from]
  PROVE  Foreign(q, m)
<1>1. PICK c \in ConvId : m \in {Msg(c, e) : e \in Unread(cs[c], q)}
  BY DEF BacklogFor
<1>2. PICK e \in Unread(cs[c], q) : m = Msg(c, e)
  BY <1>1
<1>3. PICK i \in 1 .. Len(cs[c].log) : e = cs[c].log[i] /\ e.seq > cs[c].cursors[q]
  BY <1>2 DEF Unread
<1>4. cs[c].log \in Seq(Entry) /\ cs[c].cursors[q] \in Nat
  BY DEF Conv
<1>5. e \in Entry /\ i \in DOMAIN cs[c].log
  BY <1>3, <1>4
<1>6. e.seq \in Nat /\ e.seq <= cs[c].cursors[e.from]
  BY <1>3, <1>5 DEF Entry
<1>7. e.from # q
  BY <1>3, <1>4, <1>6
<1> QED
  BY <1>2, <1>7 DEF Foreign, Msg

(* A sign-in on a connection nothing is under way to. *)
LEMMA EchoSigns ==
  ASSUME HInv, HInv', OwnRead', NoEcho, NEW k \in Conn, Signs(k),
         \A j \in Conn \ {k} : phase'[j] = "serving" => phase[j] = "serving"
  PROVE  NoEcho'
<1>0. Typed /\ Quiet /\ NoReuse /\ convs' \in [ConvId -> Conv]
  BY DEF HInv, IInv, Shape, Typed
<1>a. PICK q \in Person : \E w :
        /\ phase[k] = "hello" /\ who' = [who EXCEPT ![k] = q] /\ Starts(k, w) /\ NoMsg(w.push)
        /\ w.backlog = BacklogFor(convs', q)
  BY DEF Signs
<1>1. PICK w :
        /\ phase[k] = "hello" /\ who' = [who EXCEPT ![k] = q] /\ Starts(k, w) /\ NoMsg(w.push)
        /\ w.backlog = BacklogFor(convs', q)
  BY <1>a
<1>2. /\ pend' = [pend EXCEPT ![k] = w] /\ UNCHANGED <<rx, down>>
      /\ rx[k] = <<>> /\ down[k] = <<>>
  BY <1>0, <1>1 DEF Starts, Quiet
<1>3. \A h \in Conn : h # k => pend'[h] = pend[h] /\ who'[h] = who[h]
  BY <1>0, <1>1, <1>2 DEF Typed
<1>4. pend'[k] = w /\ who'[k] = q
  BY <1>0, <1>1, <1>2 DEF Typed
<1>5. NotMine'
  <2> SUFFICES ASSUME NEW h \in Conn, NEW m \in Due(h)'
               PROVE  Foreign(who'[h], m)
    BY DEF NotMine
  <2>1. CASE h = k
    <3>1. m \in w.backlog
      BY <1>2, <1>4, <2>1 DEF Due, Entries
    <3>2. \A c \in ConvId : \A i \in DOMAIN convs'[c].log :
            convs'[c].log[i].seq <= convs'[c].cursors[convs'[c].log[i].from]
      BY DEF OwnRead
    <3> QED
      BY <1>0, <1>1, <1>4, <2>1, <3>1, <3>2, BacklogForeign
  <2>2. CASE h # k
    <3>1. m \in Due(h)
      BY <1>2, <1>3, <2>2 DEF Due, Entries
    <3> QED
      BY <1>3, <2>2, <3>1 DEF NoEcho, NotMine
  <2> QED
    BY <2>1, <2>2
<1>6. NotTheirs'
  <2> SUFFICES ASSUME NEW h \in Conn, NEW j \in Conn, j \in pend'[h].to, phase'[j] = "serving",
                      NEW m \in Entries(pend'[h].push)
               PROVE  Foreign(who'[j], m)
    BY DEF NotTheirs
  <2>1. CASE h = k
    BY <1>1, <1>4, <2>1 DEF NoMsg, Entries, Foreign
  <2>2. CASE h # k
    <3>1. pend'[h] = pend[h]
      BY <1>3, <2>2
    <3>2. j # k
      BY <1>0, <1>1, <3>1 DEF NoReuse
    <3> QED
      BY <1>3, <3>1, <3>2 DEF NoEcho, NotTheirs
  <2> QED
    BY <2>1, <2>2
<1> QED
  BY <1>5, <1>6 DEF NoEcho

(* When somebody signs in, when a task ends, and otherwise. *)
LEMMA SteadyMoves ==
  ASSUME Typed, NEW k \in Conn
  PROVE  /\ Handler(k) => SignIn(k) \/ TaskEnds(k) \/ Steady
         /\ OnLine(k) => Steady
<1>1. DropEarlyFrame(k) \/ SendWelcome(k) \/ SendBacklog(k) \/ Push(k) \/ ForwardPush(k) => Steady
  BY DEF DropEarlyFrame, SendWelcome, SendBacklog, Push, ForwardPush, Steady
<1>2. HandleFrame(k) => Steady
  BY DEF HandleFrame, HandleSend, HandleAck, HandleOpenDm, HandleCreateRoom, IgnoreHello, Steady
<1>3. PushRefused(k) \/ LinkEnded(k) => Steady
  BY DEF PushRefused, LinkEnded, Leave, Typed, Steady
<1>4. GiveUpHello(k) \/ GoOffline(k) \/ EndTask(k) => TaskEnds(k)
  BY DEF GiveUpHello, GoOffline, EndTask
<1>5. OnLine(k) => Steady
  BY DEF OnLine, Network, Accept, Deliver, CutLink, ClientFrame, Typed, Steady
<1> QED
  BY <1>1, <1>2, <1>3, <1>4, <1>5 DEF Handler, Greet

(* Nobody's own messages are ever under way to them. *)
LEMMA EchoStep ==
  ASSUME HInv, HInv', OwnRead', NoEcho, [Next]_vars
  PROVE  NoEcho'
<1>0. Typed /\ Shape /\ PushesAreLive /\ Numbered
  BY DEF HInv, IInv, Shape, Store
<1>1. CASE UNCHANGED vars
  BY <1>1 DEF vars, NoEcho, NotMine, NotTheirs, Due, Entries
<1>2. CASE Crash
  <2>1. \A h \in Conn : Due(h)' = {} /\ pend'[h].to = {}
    BY <1>2 DEF Crash, Due, Entries, Idle
  <2> QED
    BY <2>1 DEF NoEcho, NotMine, NotTheirs
<1>3. ASSUME NEW k \in Conn, Steady, Moves(k)
      PROVE  NoEcho'
  <2>1. CASE Signs(k)
    BY <1>3, <2>1, EchoSigns DEF Steady
  <2> QED
    BY <1>0, <1>3, <2>1, EchoCarried, EchoPush, EchoPosting, EchoTells DEF Moves, Handles
<1>4. ASSUME NEW k \in Conn, Handler(k)
      PROVE  NoEcho'
  <2>1. CASE SignIn(k)
    <3>1. \A j \in Conn \ {k} : phase'[j] = "serving" => phase[j] = "serving"
      BY <1>0, <2>1 DEF SignIn, Typed
    <3> QED
      BY <1>0, <2>1, <3>1, MovesSignIn, EchoSigns
  <2>2. CASE TaskEnds(k)
    BY <1>0, <2>2, EchoTaskEnds
  <2>3. CASE Steady
    BY <1>0, <1>3, <1>4, <2>3, MovesHandler DEF Moves
  <2> QED
    BY <1>0, <1>4, <2>1, <2>2, <2>3, SteadyMoves
<1>5. ASSUME NEW k \in Conn, OnLine(k)
      PROVE  NoEcho'
  <2>1. Still \/ Loses(k)
    BY <1>5, MovesNetwork DEF OnLine
  <2>2. Steady
    BY <1>0, <1>5, SteadyMoves
  <2> QED
    BY <1>0, <2>1, <2>2, EchoCarried
<1> QED
  BY <1>1, <1>2, <1>4, <1>5 DEF Next, OnLine

(* What was shown stays at or below its mark. *)
LEMMA MarksStep ==
  ASSUME Typed, ClientTypes, Lines, Marks, SysNext \/ UNCHANGED sysVars
  PROVE  Marks'
<1>1. CASE UNCHANGED <<lastSeq, shown>>
  BY <1>1 DEF Marks
<1>2. ASSUME NEW q \in Person, Receive(q)
      PROVE  Marks'
  <2> DEFINE m == Head(down[conn[q]])
  <2>1. Shows(q, m) \/ UNCHANGED <<lastSeq, shown>>
    BY <1>2, ReceiveDoes DEF Updates
  <2>2. m \in ServerMsgs
    BY <1>2, ReceiveDoes, Read
  <2> HIDE DEF m
  <2>3. CASE Shows(q, m)
    <3>1. m.conv \in ConvId /\ m.seq \in Nat
      BY <2>2, <2>3, ServerFields DEF Shows
    <3> SUFFICES ASSUME NEW r \in Person, NEW c \in ConvId, NEW j \in DOMAIN shown'[r][c]
                 PROVE  shown'[r][c][j] <= lastSeq'[r][c]
      BY DEF Marks
    <3> DEFINE s == shown[q][m.conv]
    <3>2. shown \in [Person -> [ConvId -> Seq(Nat)]] /\ lastSeq \in [Person -> [ConvId -> Nat]]
          /\ s \in Seq(Nat)
      BY <3>1 DEF ClientTypes
    <3>3. CASE r = q /\ c = m.conv
      <4>1. shown'[r][c] = Append(s, m.seq) /\ lastSeq'[r][c] = m.seq
        BY <2>3, <3>2, <3>3 DEF Shows
      <4>2. \A i \in DOMAIN s : s[i] <= lastSeq[q][m.conv]
        BY <3>1 DEF Marks
      <4>3. m.seq > lastSeq[q][m.conv] /\ lastSeq[q][m.conv] \in Nat
        BY <2>3, <3>1, <3>2 DEF Shows
      <4> HIDE DEF s
      <4>4. (j \in DOMAIN s /\ Append(s, m.seq)[j] = s[j]) \/ Append(s, m.seq)[j] = m.seq
        BY <3>1, <3>2, <4>1
      <4>5. \A i \in DOMAIN s : s[i] \in Nat
        BY <3>2
      <4> QED
        BY <3>1, <4>1, <4>2, <4>3, <4>4, <4>5
    <3>4. CASE ~(r = q /\ c = m.conv)
      <4>1. shown'[r][c] = shown[r][c] /\ lastSeq'[r][c] = lastSeq[r][c]
        BY <2>3, <3>2, <3>4 DEF Shows
      <4> QED
        BY <4>1 DEF Marks
    <3> QED
      BY <3>3, <3>4
  <2> QED
    BY <1>1, <2>1, <2>3
<1>3. ASSUME NEW q \in Person, Relaunch(q)
      PROVE  Marks'
  <2> SUFFICES ASSUME NEW r \in Person, NEW c \in ConvId, NEW j \in DOMAIN shown'[r][c]
               PROVE  shown'[r][c][j] <= lastSeq'[r][c]
    BY DEF Marks
  <2>1. /\ lastSeq' = [lastSeq EXCEPT ![q] = [d \in ConvId |-> 0]]
        /\ shown' = [shown EXCEPT ![q] = [d \in ConvId |-> <<>>]]
    BY <1>3 DEF Relaunch
  <2>2. r # q
    BY <2>1 DEF ClientTypes
  <2>3. shown'[r][c] = shown[r][c] /\ lastSeq'[r][c] = lastSeq[r][c]
    BY <2>1, <2>2 DEF ClientTypes
  <2> QED
    BY <2>3 DEF Marks
<1>4. ASSUME NEW q \in Person, User(q) \/ Client(q), ~Relaunch(q), ~Receive(q)
      PROVE  UNCHANGED <<lastSeq, shown>>
  BY <1>4 DEF User, UserSends, UserOpensDm, UserCreatesRoom, Type,
     Client, Dial, SayHello, Transmit, NoticeLinkDown
<1>5. CASE UNCHANGED client
  BY <1>1, <1>5 DEF client
<1>6. UNCHANGED sysVars \/ (\E k \in Conn : HubStep(k)) \/ Failures => UNCHANGED client
  BY DEF sysVars, HubStep, Failures
<1> QED
  BY <1>1, <1>2, <1>3, <1>4, <1>5, <1>6 DEF SysNext

-----------------------------------------------------------------------------
(* The whole system. *)

SInv == /\ HInv /\ ClientTypes /\ Lines /\ FamilyIn
        /\ Recorded /\ Told /\ OwnRead /\ NoEcho /\ Marks

(* At first nobody is there and nothing was said. *)
LEMMA SInvInit ==
  ASSUME SysInit
  PROVE  SInv
<1> DEFINE none == <<>>
<1>0. none \in Seq(Entry) /\ Len(none) = 0 /\ DOMAIN none = {} /\ Entries(none) = {}
  BY DEF Entries
<1>1. /\ convs = [c \in ConvId |-> NoConv] /\ who = [k \in Conn |-> Nobody]
      /\ pend = [k \in Conn |-> Idle]
      /\ rx = [k \in Conn |-> none] /\ down = [k \in Conn |-> none]
      /\ history = [c \in ConvId |-> none] /\ shown = [q \in Person |-> [c \in ConvId |-> none]]
  BY DEF SysInit, Init
<1>2. NoConv.log = none /\ NoConv.nextSeq = 0 /\ Idle.backlog = {} /\ Idle.push = none /\ Idle.to = {}
  BY DEF NoConv, Idle
<1> HIDE DEF none
<1>3. HInv /\ ClientTypes /\ Lines
  BY InvInit, StoreInit, ClientsInit DEF SysInit, HInv
<1>4. FamilyIn
  BY <1>1 DEF FamilyIn
<1>5. Recorded /\ OwnRead
  BY <1>0, <1>1, <1>2 DEF Recorded, OwnRead
<1>6. Told
  <2>1. \A k \in Conn : Around(k) = {}
    BY <1>0, <1>1, <1>2 DEF Around
  <2> QED
    BY <2>1 DEF Told
<1>7. NoEcho
  <2>1. \A k \in Conn : Due(k) = {} /\ pend[k].to = {}
    BY <1>0, <1>1, <1>2 DEF Due
  <2> QED
    BY <2>1 DEF NoEcho, NotMine, NotTheirs
<1>8. Marks
  BY <1>0, <1>1 DEF Marks
<1> QED
  BY <1>3, <1>4, <1>5, <1>6, <1>7, <1>8 DEF SInv

(* Every step keeps it. *)
LEMMA SInvStep ==
  ASSUME ~PersistMayFail, SInv, SysNext \/ UNCHANGED sysVars
  PROVE  SInv'
<1>0. HInv /\ ClientTypes /\ Lines /\ FamilyIn /\ Recorded /\ Told /\ OwnRead /\ NoEcho /\ Marks
  BY DEF SInv
<1>1. IInv /\ Store /\ Typed
  BY <1>0 DEF HInv, IInv
<1>2. [Next]_vars
  BY <1>0, SystemIsHub
<1>3. HInv'
  BY <1>1, <1>2, InvStep, StoreInvStep DEF HInv
<1>4. ClientTypes' /\ Lines'
  BY <1>0, <1>1, ClientTypesStep, LinesStep
<1>5. Record /\ (Rests \/ \E k \in Conn : Does(k))
  BY <1>0, SystemDoes
<1>6. FamilyIn'
  BY <1>0, <1>1, <1>5, FamilyStep
<1>7. \A c \in ConvId : Talks(c)
  BY <1>0, <1>5, Talking
<1>8. /\ Recorded'
      /\ \A c \in ConvId : \A i \in DOMAIN history[c] :
           i \in DOMAIN history'[c] /\ history'[c][i] = history[c][i]
  BY <1>0, <1>5, <1>7, RecordStep
<1>9. Told'
  BY <1>0, <1>2, <1>3, <1>8, ToldStep
<1>10. \A c \in ConvId : SameAcks(convs[c], convs'[c])
  BY <1>0, <1>2, PastKept
<1>11. OwnRead'
  BY <1>0, <1>3, <1>7, <1>10, OwnReadStep
<1>12. NoEcho'
  BY <1>0, <1>2, <1>3, <1>11, EchoStep
<1>13. Marks'
  BY <1>0, <1>1, MarksStep
<1> QED
  BY <1>3, <1>4, <1>6, <1>8, <1>9, <1>11, <1>12, <1>13 DEF SInv

(* With a disk that takes every write, the record, what is under way, what *)
(* is shown and the marks agree at all times, across lost links, crashes   *)
(* of the hub, relaunches of the program and reconnects.                   *)
THEOREM SystemInvariance ==
  ASSUME ~PersistMayFail
  PROVE  SysSpec => []SInv
<1>1. SInv /\ [SysNext]_sysVars => SInv'
  BY SInvStep
<1> QED
  BY <1>1, SInvInit, PTL DEF SysSpec

-----------------------------------------------------------------------------
(* The conversations people have. *)

Line(e) == [from |-> e.from, text |-> e.text]
Heard(h) == [i \in DOMAIN h |-> Line(h[i])]
Audience == [c \in ConvId |-> convs[c].members]
Logs == [c \in ConvId |-> Heard(history[c])]

(* What is heard of a longer history is longer. *)
LEMMA HeardAppend ==
  ASSUME NEW h \in Seq(Entry), NEW e \in Entry
  PROVE  Heard(Append(h, e)) = Append(Heard(h), Line(e))
<1> DEFINE n == Len(h)
<1>1. /\ n \in Nat /\ DOMAIN h = 1 .. n /\ DOMAIN Append(h, e) = 1 .. (n + 1)
      /\ Append(h, e)[n + 1] = e /\ \A i \in 1 .. n : Append(h, e)[i] = h[i]
  OBVIOUS
<1> HIDE DEF n
<1>2. Heard(h) = [i \in 1 .. n |-> Line(h[i])]
  BY <1>1 DEF Heard
<1>3. Heard(h) \in Seq({Line(h[i]) : i \in 1 .. n}) /\ Len(Heard(h)) = n
  BY <1>1, <1>2
<1>4. Append(Heard(h), Line(e))
        = [i \in 1 .. (n + 1) |-> IF i = n + 1 THEN Line(e) ELSE Line(h[i])]
  BY <1>1, <1>2, <1>3
<1>5. Heard(Append(h, e)) = [i \in 1 .. (n + 1) |-> Line(Append(h, e)[i])]
  BY <1>1 DEF Heard
<1>6. \A i \in 1 .. (n + 1) : Line(Append(h, e)[i]) = IF i = n + 1 THEN Line(e) ELSE Line(h[i])
  BY <1>1
<1> QED
  BY <1>4, <1>5, <1>6

\* What changes of the conversations people have.
Joined(q) == Audience' = [Audience EXCEPT ![Family] = @ \cup {q}] /\ UNCHANGED <<Logs, shown>>
Opened(q, c, S) ==
  /\ Audience[c] = {} /\ c # Family /\ q \in S
  /\ Audience' = [Audience EXCEPT ![c] = S] /\ UNCHANGED <<Logs, shown>>
Spoke(q, c, x) ==
  /\ q \in Audience[c]
  /\ Logs' = [Logs EXCEPT ![c] = Append(@, [from |-> q, text |-> x])]
  /\ UNCHANGED <<Audience, shown>>
Saw(q, c, i) ==
  /\ q \in Audience[c] /\ i \in DOMAIN Logs[c] /\ Logs[c][i].from # q
  /\ \A j \in DOMAIN shown[q][c] : shown[q][c][j] < i
  /\ shown' = [shown EXCEPT ![q][c] = Append(@, i)]
  /\ UNCHANGED <<Audience, Logs>>
Closed(q) ==
  shown' = [shown EXCEPT ![q] = [c \in ConvId |-> <<>>]] /\ UNCHANGED <<Audience, Logs>>
Alike == UNCHANGED <<Audience, Logs, shown>>

(* Where nothing is said, what is heard stays. *)
LEMMA HeardSame ==
  ASSUME \A c \in ConvId : history'[c] = history[c]
  PROVE  UNCHANGED Logs
BY DEF Logs

(* A sign-in. *)
LEMMA JoinsJoined ==
  ASSUME HInv, Record, UNCHANGED shown, NEW k \in Conn, Joins(k)
  PROVE  \E q \in Person : Joined(q)
<1>0. convs \in [ConvId -> Conv] /\ Family \in ConvId
  BY DEF HInv, IInv, Typed, ConvId
<1>1. PICK q \in Person : convs' = [convs EXCEPT ![Family].members = @ \cup {q}]
  BY DEF Joins
<1>2. UNCHANGED Logs
  BY JoinsSilent, HeardSame DEF Silent
<1>3. Audience' = [Audience EXCEPT ![Family] = @ \cup {q}]
  <2>1. \A c \in ConvId : convs'[c].members =
          IF c = Family THEN convs[c].members \cup {q} ELSE convs[c].members
    BY <1>0, <1>1 DEF Conv
  <2> QED
    BY <1>0, <2>1 DEF Audience
<1> QED
  BY <1>2, <1>3 DEF Joined

(* A conversation opened. *)
LEMMA OpensOpened ==
  ASSUME HInv, Record, FamilyIn, UNCHANGED shown, NEW k \in Conn, Opens(k)
  PROVE  \E q \in Person, c \in ConvId, S \in SUBSET Person : Opened(q, c, S)
<1>0. convs \in [ConvId -> Conv]
  BY DEF HInv, IInv, Typed
<1>1. PICK c \in ConvId, S \in SUBSET Person :
        convs[c].members = {} /\ who[k] \in S /\ convs' = [convs EXCEPT ![c] = NewConv(S)]
  BY DEF Opens
<1>2. UNCHANGED Logs
  BY OpensSilent, HeardSame DEF Silent
<1>3. who[k] \in Person /\ who[k] # Nobody
  BY <1>1, HubAssumption
<1>4. c # Family
  BY <1>1, <1>3, Zenon DEF FamilyIn
<1>5. NewConv(S).members = S
  BY NewConvType
<1>6. Audience' = [Audience EXCEPT ![c] = S]
  BY <1>0, <1>1, <1>5 DEF Audience
<1>7. Audience[c] = {}
  BY <1>1 DEF Audience
<1> QED
  BY <1>1, <1>2, <1>3, <1>4, <1>6, <1>7 DEF Opened

(* A message said. *)
LEMMA SpeaksSpoke ==
  ASSUME HInv, Recorded, Recorded', Record, UNCHANGED shown, NEW k \in Conn, Speaks(k)
  PROVE  \E q \in Person, c \in ConvId, x \in Text : Spoke(q, c, x)
<1>0. convs \in [ConvId -> Conv] /\ history \in [ConvId -> Seq(Entry)]
  BY DEF HInv, IInv, Typed, Recorded
<1>1. PICK c \in ConvId, x \in Text : SaysIn(k, c, x)
  BY SpeaksSays
<1> DEFINE q == who[k]
           e == Addition(convs[c], q, x)
<1>2. q \in Person /\ q \in convs[c].members /\ history'[c] = Append(history[c], e)
      /\ convs'[c] = Posted(convs[c], q, x)
  BY <1>1 DEF SaysIn, Says
<1>3. e \in Entry /\ e.from = q /\ e.text = x
  BY <1>0, <1>2, AdditionIs
<1>4. \A d \in ConvId : d # c => history'[d] = history[d]
  BY <1>1 DEF SaysIn, Silent
<1>5. convs'[c].members = convs[c].members
  BY <1>0, <1>2, PostedType
<1>6. UNCHANGED Audience
  <2>1. \A d \in ConvId : convs'[d].members = convs[d].members
    BY <1>0, <1>1, <1>5 DEF SaysIn
  <2> QED
    BY <2>1 DEF Audience
<1> HIDE DEF e, q
<1>7. Heard(Append(history[c], e)) = Append(Heard(history[c]), [from |-> q, text |-> x])
  BY <1>0, <1>3, HeardAppend DEF Line
<1>8. Logs' = [Logs EXCEPT ![c] = Append(@, [from |-> q, text |-> x])]
  <2>1. \A d \in ConvId : Heard(history'[d]) =
          IF d = c THEN Append(Heard(history[c]), [from |-> q, text |-> x]) ELSE Heard(history[d])
    BY <1>2, <1>4, <1>7
  <2> QED
    BY <2>1 DEF Logs
<1>9. q \in Audience[c]
  BY <1>2 DEF Audience
<1> QED
  BY <1>2, <1>6, <1>8, <1>9 DEF Spoke

(* A cursor raised is nobody's business. *)
LEMMA AcknowledgesAlike ==
  ASSUME HInv, Record, UNCHANGED shown, NEW k \in Conn, Acknowledges(k)
  PROVE  Alike
<1>0. convs \in [ConvId -> Conv]
  BY DEF HInv, IInv, Typed
<1>1. PICK c \in ConvId, q \in Person, n \in Nat : convs' = [convs EXCEPT ![c] = Acked(convs[c], q, n)]
  BY DEF Acknowledges
<1>2. Acked(convs[c], q, n).members = convs[c].members
  BY <1>0, AckedType
<1>3. \A d \in ConvId : convs'[d].members = convs[d].members
  BY <1>0, <1>1, <1>2
<1>4. UNCHANGED Logs
  BY AcknowledgesSilent, HeardSame DEF Silent
<1> QED
  BY <1>3, <1>4 DEF Audience, Alike

(* A message that goes to the screen is one its reader may see: of a        *)
(* conversation she is in, on record, of somebody else's, after all she     *)
(* was shown of it.                                                         *)
LEMMA ShowsSaw ==
  ASSUME SInv, UNCHANGED <<convs, history>>, NEW q \in Person, Receive(q),
         Shows(q, Head(down[conn[q]]))
  PROVE  \E c \in ConvId : \E i \in DOMAIN Logs[c] : Saw(q, c, i)
<1> DEFINE m == Head(down[conn[q]])
           k == conn[q]
<1>0. Typed /\ OnlyMembersReceive /\ ClientTypes /\ Lines
  BY DEF SInv, HInv, IInv
<1>1. k \in Conn /\ m \in ServerMsgs /\ m \in Entries(down[k]) /\ k # NoConn
  BY <1>0, ReceiveDoes, Read, HubAssumption
<1>2. m.t = "msg" /\ m.conv \in ConvId /\ m.seq \in Nat
  BY <1>1, ServerFields DEF Shows
<1>3. m \in Around(k) /\ m \in Due(k)
  BY <1>1 DEF Around, Due
<1>4. who[k] \in convs[m.conv].members
  <2>1. PICK i \in DOMAIN down[k] : m = down[k][i]
    BY <1>1 DEF Entries
  <2>2. MaySee(who[k], down[k][i])
    BY <1>0, <1>1 DEF OnlyMembersReceive
  <2> QED
    BY <1>2, <2>1, <2>2 DEF MaySee
<1>5. who[k] = q
  <2>1. convs[m.conv].members \subseteq Person
    BY <1>0, <1>2 DEF Typed, Conv
  <2>2. who[k] \in {q, Nobody}
    BY <1>0, <1>1 DEF Lines
  <2> QED
    BY <1>4, <2>1, <2>2, HubAssumption
<1>6. m.seq \in DOMAIN history[m.conv] /\ m = Msg(m.conv, history[m.conv][m.seq])
  BY <1>1, <1>2, <1>3 DEF SInv, Told, Said
<1>7. m.from # q
  BY <1>1, <1>2, <1>3, <1>5 DEF SInv, NoEcho, NotMine, Foreign
<1>8. history[m.conv][m.seq].from # q
  <2>1. Msg(m.conv, history[m.conv][m.seq]).from = history[m.conv][m.seq].from
    BY DEF Msg
  <2> HIDE DEF m
  <2> QED
    BY <1>6, <1>7, <2>1
<1>9. \A j \in DOMAIN shown[q][m.conv] : shown[q][m.conv][j] < m.seq
  <2>1. lastSeq[q][m.conv] \in Nat /\ shown[q][m.conv] \in Seq(Nat)
    BY <1>0, <1>2 DEF ClientTypes
  <2>2. m.seq > lastSeq[q][m.conv]
    BY DEF Shows
  <2> TAKE j \in DOMAIN shown[q][m.conv]
  <2>3. shown[q][m.conv][j] <= lastSeq[q][m.conv] /\ shown[q][m.conv][j] \in Nat
    BY <1>2, <2>1 DEF SInv, Marks
  <2> QED
    BY <1>2, <2>1, <2>2, <2>3
<1>10. UNCHANGED <<Audience, Logs>>
  BY DEF Audience, Logs
<1>11. shown' = [shown EXCEPT ![q][m.conv] = Append(@, m.seq)]
  BY DEF Shows
<1> HIDE DEF m
<1>12. Logs[m.conv] = Heard(history[m.conv]) /\ Audience[m.conv] = convs[m.conv].members
  BY <1>2 DEF Logs, Audience
<1>13. m.seq \in DOMAIN Logs[m.conv] /\ Logs[m.conv][m.seq].from # q
  BY <1>6, <1>8, <1>12 DEF Heard, Line
<1> QED
  BY <1>2, <1>4, <1>5, <1>9, <1>10, <1>11, <1>12, <1>13 DEF Saw

(* Without a message shown or the program closed, it is the hub that moves. *)
LEMMA HubMoves ==
  ASSUME SInv, SInv', Record, Rests \/ \E k \in Conn : Does(k), UNCHANGED shown
  PROVE  \/ Alike
         \/ \E q \in Person : Joined(q)
         \/ \E q \in Person, c \in ConvId, S \in SUBSET Person : Opened(q, c, S)
         \/ \E q \in Person, c \in ConvId, x \in Text : Spoke(q, c, x)
<1>0. HInv /\ FamilyIn /\ Recorded /\ Recorded' /\ convs \in [ConvId -> Conv]
  BY DEF SInv, HInv, IInv, Typed
<1>1. CASE Rests
  <2>1. \A c \in ConvId : Silent(c)
    BY <1>0, <1>1, SilentRecord DEF Rests
  <2> QED
    BY <1>1, <2>1, HeardSame DEF Rests, Silent, Alike, Audience
<1>2. ASSUME NEW k \in Conn, Joins(k)
      PROVE  \E q \in Person : Joined(q)
  BY <1>0, <1>2, JoinsJoined
<1>3. ASSUME NEW k \in Conn, Opens(k)
      PROVE  \E q \in Person, c \in ConvId, S \in SUBSET Person : Opened(q, c, S)
  BY <1>0, <1>3, OpensOpened
<1>4. ASSUME NEW k \in Conn, Speaks(k)
      PROVE  \E q \in Person, c \in ConvId, x \in Text : Spoke(q, c, x)
  BY <1>0, <1>4, SpeaksSpoke
<1>5. ASSUME NEW k \in Conn, Acknowledges(k)
      PROVE  Alike
  BY <1>0, <1>5, AcknowledgesAlike
<1> QED
  BY <1>1, <1>2, <1>3, <1>4, <1>5 DEF Does

(* Every step of the system is one the people may see, or none. *)
LEMMA PeopleSee ==
  ASSUME ~PersistMayFail, SInv, SysNext \/ UNCHANGED sysVars
  PROVE  \/ Alike
         \/ \E q \in Person : Joined(q) \/ Closed(q)
         \/ \E q \in Person, c \in ConvId, S \in SUBSET Person : Opened(q, c, S)
         \/ \E q \in Person, c \in ConvId, x \in Text : Spoke(q, c, x)
         \/ \E q \in Person, c \in ConvId : \E i \in DOMAIN Logs[c] : Saw(q, c, i)
<1>0. ClientTypes /\ Lines /\ HInv /\ Recorded
  BY DEF SInv
<1>1. SInv'
  BY SInvStep
<1>2. Record /\ (Rests \/ \E k \in Conn : Does(k))
  BY <1>0, SystemDoes
<1>3. CASE UNCHANGED shown
  BY <1>1, <1>2, <1>3, HubMoves
<1>4. ASSUME NEW q \in Person, User(q) \/ Client(q)
      PROVE  UNCHANGED <<convs, history>>
  BY <1>0, <1>4, ClientsSaveNothing
<1>5. ASSUME NEW q \in Person, Receive(q)
      PROVE  UNCHANGED shown \/ \E c \in ConvId : \E i \in DOMAIN Logs[c] : Saw(q, c, i)
  <2>1. Shows(q, Head(down[conn[q]])) \/ UNCHANGED shown
    BY <1>5, ReceiveDoes DEF Updates
  <2>2. UNCHANGED <<convs, history>>
    BY <1>4, <1>5 DEF Client
  <2> QED
    BY <1>5, <2>1, <2>2, ShowsSaw
<1>6. ASSUME NEW q \in Person, Relaunch(q)
      PROVE  Closed(q)
  <2>1. UNCHANGED <<convs, history>>
    BY <1>4, <1>6 DEF User
  <2>2. shown' = [shown EXCEPT ![q] = [c \in ConvId |-> <<>>]]
    BY <1>6 DEF Relaunch
  <2> QED
    BY <2>1, <2>2 DEF Closed, Audience, Logs
<1>7. ASSUME NEW q \in Person, User(q) \/ Client(q), ~Relaunch(q), ~Receive(q)
      PROVE  UNCHANGED shown
  BY <1>7 DEF User, UserSends, UserOpensDm, UserCreatesRoom, Type,
     Client, Dial, SayHello, Transmit, NoticeLinkDown
<1>8. UNCHANGED sysVars \/ (\E k \in Conn : HubStep(k)) \/ Failures => UNCHANGED shown
  BY DEF sysVars, HubStep, Failures, client
<1> QED
  BY <1>3, <1>5, <1>6, <1>7, <1>8 DEF SysNext

(* The words of module Conversations. *)
LEMMA InWords ==
  /\ Alike => UNCHANGED Abstract!absVars
  /\ \A q \in Person : (Joined(q) => Abstract!Join(q)) /\ (Closed(q) => Abstract!Close(q))
  /\ \A q \in Person, c \in ConvId, S \in SUBSET Person : Opened(q, c, S) => Abstract!Open(q, c, S)
  /\ \A q \in Person, c \in ConvId, x \in Text : Spoke(q, c, x) => Abstract!Say(q, c, x)
  /\ \A q \in Person, c \in ConvId : \A i \in DOMAIN Logs[c] : Saw(q, c, i) => Abstract!See(q, c, i)
<1>1. Alike => UNCHANGED Abstract!absVars
  BY DEF Alike, Audience, Logs, Heard, Line, Abstract!absVars
<1>2. ASSUME NEW q \in Person
      PROVE  (Joined(q) => Abstract!Join(q)) /\ (Closed(q) => Abstract!Close(q))
  BY DEF Joined, Closed, Audience, Logs, Heard, Line, Abstract!Join, Abstract!Close
<1>3. ASSUME NEW q \in Person, NEW c \in ConvId, NEW S \in SUBSET Person, Opened(q, c, S)
      PROVE  Abstract!Open(q, c, S)
  BY <1>3 DEF Opened, Audience, Logs, Heard, Line, Abstract!Open
<1>4. ASSUME NEW q \in Person, NEW c \in ConvId, NEW x \in Text, Spoke(q, c, x)
      PROVE  Abstract!Say(q, c, x)
  BY <1>4 DEF Spoke, Audience, Logs, Heard, Line, Abstract!Say
<1>5. ASSUME NEW q \in Person, NEW c \in ConvId, NEW i \in DOMAIN Logs[c], Saw(q, c, i)
      PROVE  Abstract!See(q, c, i)
  BY <1>5 DEF Saw, Audience, Logs, Heard, Line, Abstract!See
<1> QED
  BY <1>1, <1>2, <1>3, <1>4, <1>5

(* With a disk that takes every write, drive_hub, emit_hub, the handlers   *)
(* and the store together do no more than module Conversations allows: one *)
(* log for everybody, that nothing is taken from; people see messages of   *)
(* conversations they are in, of others, that were said, in order and none *)
(* twice - for any number of people, connections, rooms and messages, any  *)
(* MAX_LOG and channel capacity, across lost links, crashes, relaunches    *)
(* and reconnects.                                                         *)
THEOREM KeepsPromises ==
  ASSUME ~PersistMayFail
  PROVE  SysSpec => ImplementsConversations
<1>1. SysInit => Abstract!Init
  <2> SUFFICES ASSUME SysInit PROVE Abstract!Init
    OBVIOUS
  <2>1. Audience = [c \in ConvId |-> IF c = Family THEN {} ELSE {}]
    BY DEF SysInit, Init, NoConv, Audience
  <2>2. Logs = [c \in ConvId |-> <<>>]
    <3>1. Heard(<<>>) = <<>>
      BY DEF Heard
    <3> QED
      BY <3>1 DEF SysInit, Logs
  <2>3. shown = [q \in Person |-> [c \in ConvId |-> <<>>]]
    BY DEF SysInit
  <2> QED
    BY <2>1, <2>2, <2>3 DEF Audience, Logs, Heard, Line, Abstract!Init
<1>2. SInv /\ [SysNext]_sysVars => [Abstract!Next]_(Abstract!absVars)
  <2> SUFFICES ASSUME SInv, SysNext \/ UNCHANGED sysVars
               PROVE  Abstract!Next \/ UNCHANGED Abstract!absVars
    OBVIOUS
  <2>1. ASSUME NEW c \in ConvId
        PROVE  DOMAIN Logs[c] = DOMAIN [i \in DOMAIN history[c] |->
                 [from |-> history[c][i].from, text |-> history[c][i].text]]
    BY DEF Logs, Heard
  <2> QED
    BY <2>1, PeopleSee, InWords DEF Abstract!Next
<1> QED
  BY <1>1, <1>2, SystemInvariance, PTL DEF SysSpec, ImplementsConversations, Abstract!Spec


-----------------------------------------------------------------------------
(* Nothing is lost between the replay at sign-in and the pushes after it.  *)

\* A handler that still has its welcome or its backlog to send has only news
\* of the sign-in to push.
Polite == \A k \in Conn : Greeting(k) => NoMsg(pend[k].push)

\* The mark of a conversation is a seq that was shown.
TopShown == \A q \in Person, c \in ConvId :
              lastSeq[q][c] = 0 \/ \E i \in DOMAIN shown[q][c] : shown[q][c][i] = lastSeq[q][c]

\* On the way to a connection: due to its person, or being pushed there.
UnderWay(k, c, s) == (\E m \in Due(k) : IsMsg(m, c, s)) \/ Pushers(k, c, s) # {}

\* Done with, as far as somebody is concerned.
Settled(q, c, s) ==
  \/ history[c][s].from = q
  \/ \E i \in DOMAIN shown[q][c] : shown[q][c][i] = s
  \/ s < lastSeq[q][c]
  \/ s <= convs[c].cursors[q]
  \/ s <= convs[c].nextSeq - Len(convs[c].log)

Served(q, k) == online[q] = k /\ conn[q] = k /\ link[k] = "up"
Reached(q, k, c) == q \in convs[c].members =>
  \A s \in DOMAIN history[c] : Settled(q, c, s) \/ UnderWay(k, c, s)
Delivered == \A q \in Person, k \in Conn, c \in ConvId : Served(q, k) => Reached(q, k, c)

AInv == SInv /\ CInv /\ Polite /\ TopShown /\ Delivered

(* What is under way is counted. *)
LEMMA UnderWayCounted ==
  ASSUME CInv, NEW k \in Conn, NEW c \in ConvId, NEW s \in Nat, UnderWay(k, c, s)
  PROVE  OnItsWay(k, c, s)
<1> DEFINE B == Among(pend[k].backlog, c, s)
           R == Hits(rx[k], c, s)
           D == Hits(down[k], c, s)
           P == Pushers(k, c, s)
<1>1. OneOf(B, R, D, P)
  BY DEF CInv, Single, OnePlace
<1>2. B # {} \/ R # {} \/ D # {} \/ P # {}
  BY DEF UnderWay, Due, Entries, Among, Hits
<1>3. Copies(k, c, s) = Cardinality(B) + Cardinality(R) + Cardinality(D) + Cardinality(P)
  BY Zenon DEF Copies, Among, Hits, Pushers, IsMsg
<1> HIDE DEF B, R, D, P
<1>4. /\ Cardinality(B) = IF B = {} THEN 0 ELSE 1
      /\ Cardinality(R) = IF R = {} THEN 0 ELSE 1
      /\ Cardinality(D) = IF D = {} THEN 0 ELSE 1
      /\ Cardinality(P) = IF P = {} THEN 0 ELSE 1
  BY <1>1, Few DEF OneOf
<1>5. Cardinality(B) + Cardinality(R) + Cardinality(D) + Cardinality(P) > 0
  BY <1>2, <1>4
<1> QED
  BY <1>3, <1>5 DEF OnItsWay

(* So what the invariant says is what is asked. *)
LEMMA DeliveredAccounts ==
  ASSUME AInv
  PROVE  Accounted
<1>1. SUFFICES ASSUME NEW q \in Person, NEW k \in Conn, NEW c \in ConvId,
                      Connected(q, k), q \in convs[c].members, NEW s \in DOMAIN history[c]
               PROVE  Settled(q, c, s) \/ OnItsWay(k, c, s)
  BY DEF Accounted, Settled
<1>2. Served(q, k)
  BY <1>1 DEF Connected, Served
<1>3. Settled(q, c, s) \/ UnderWay(k, c, s)
  BY <1>1, <1>2 DEF AInv, Delivered, Reached
<1>4. s \in Nat
  BY DEF AInv, SInv, Recorded
<1> QED
  BY <1>3, <1>4, UnderWayCounted DEF AInv

(* A handler stays polite. *)
LEMMA PoliteHandles ==
  ASSUME Typed, Polite, NEW j \in Conn, Handles(j)
  PROVE  Polite'
<1>0. pend \in [Conn -> Work]
  BY DEF Typed
<1>1. CASE UNCHANGED pend
  BY <1>1 DEF Polite, Greeting
<1>2. ASSUME NEW w, pend' = [pend EXCEPT ![j] = w],
             (w.welcome = <<>> /\ w.backlog = {}) \/ NoMsg(w.push)
      PROVE  Polite'
  BY <1>0, <1>2 DEF Polite, Greeting
<1>3. Idle.welcome = <<>> /\ Idle.backlog = {}
  BY DEF Idle
<1>4. ASSUME NEW q, NEW S
      PROVE  Pushing(q, S).welcome = <<>> /\ Pushing(q, S).backlog = {}
  BY DEF Pushing, Idle
<1>5. CASE Still \/ ForwardPush(j)
  BY <1>1, <1>5 DEF Still, ForwardPush
<1>6. CASE Resets(j)
  BY <1>2, <1>3, <1>6 DEF Resets
<1>7. CASE Greets(j)
  <2>1. PICK w : pend' = [pend EXCEPT ![j] = w] /\ w.push = pend[j].push
    BY <1>7 DEF Greets
  <2>2. NoMsg(pend[j].push)
    BY <1>7 DEF Greets, Polite
  <2> QED
    BY <1>2, <2>1, <2>2
<1>8. CASE Signs(j)
  BY <1>2, <1>8 DEF Signs, Starts
<1>9. CASE Tells(j) \/ Posting(j)
  <2>1. \E q, S : pend' = [pend EXCEPT ![j] = Pushing(q, S)]
    BY <1>9 DEF Tells, Posting, Starts
  <2> QED
    BY <1>2, <1>4, <2>1
<1>10. CASE Push(j)
  <2>1. PICK t \in pend[j].to : pend' = [pend EXCEPT ![j] =
             IF pend[j].to = {t} THEN Idle ELSE [pend[j] EXCEPT !.to = @ \ {t}]]
    BY <1>10 DEF Push
  <2>2. pend[j].welcome = <<>> /\ pend[j].backlog = {} /\ pend[j] \in Work
    BY <1>0, <1>10 DEF Push
  <2> DEFINE v == [pend[j] EXCEPT !.to = @ \ {t}]
  <2>3. v.welcome = <<>> /\ v.backlog = {}
    BY <2>2 DEF Work
  <2> HIDE DEF v
  <2> QED
    BY <1>2, <1>3, <2>1, <2>3 DEF v
<1> QED
  BY <1>5, <1>6, <1>7, <1>8, <1>9, <1>10 DEF Handles

(* Whatever happens. *)
LEMMA PoliteStep ==
  ASSUME HInv, Polite, [Next]_vars
  PROVE  Polite'
<1>0. Typed /\ Shape /\ Numbered
  BY DEF HInv, IInv, Store
<1>1. CASE Still \/ \E k \in Conn : Loses(k)
  BY <1>1 DEF Still, Loses, Polite, Greeting
<1>2. CASE Crash
  BY <1>2 DEF Crash, Polite, Greeting, Idle
<1>3. CASE \E k \in Conn : Handles(k)
  BY <1>0, <1>3, PoliteHandles
<1> QED
  BY <1>1, <1>2, <1>3, MovesStep DEF Moves

-----------------------------------------------------------------------------
(* What is under way to a connection whose handler serves it on a working  *)
(* link stays under way, whatever any handler does.                        *)

(* Nothing moves. *)
LEMMA WayStill ==
  ASSUME NEW k \in Conn, UNCHANGED <<pend, rx>>, down'[k] = down[k],
         NEW c, NEW s, UnderWay(k, c, s)
  PROVE  UnderWay(k, c, s)'
BY DEF UnderWay, Due, Entries, Pushers

(* A task that ends had nothing of the kind to push. *)
LEMMA WayResets ==
  ASSUME Typed, Carries, Polite, NEW j \in Conn, Resets(j),
         NEW k \in Conn, phase'[k] = "serving", NEW c, NEW s, UnderWay(k, c, s)
  PROVE  UnderWay(k, c, s)'
<1>0. /\ phase \in [Conn -> {"free", "hello", "serving", "leaving"}] /\ pend \in [Conn -> Work]
      /\ rx \in [Conn -> Seq(Msgs \cup Notices)] /\ down \in [Conn -> Seq(ServerMsgs)]
  BY DEF Typed
<1>1. j # k
  BY <1>0 DEF Resets
<1>2. pend'[k] = pend[k] /\ rx'[k] = rx[k] /\ down'[k] = down[k]
  BY <1>0, <1>1 DEF Resets
<1>3. Due(k)' = Due(k)
  BY <1>2 DEF Due, Entries
<1>4. ASSUME NEW x \in Pushers(k, c, s)
      PROVE  x \in Pushers(k, c, s)'
  <2>1. x \in Conn /\ k \in pend[x].to /\ IsMsg(pend[x].push[1], c, s)
    BY DEF Pushers
  <2>2. pend[x].push \in Seq(Msgs \cup Notices) /\ pend[x].push # <<>>
    BY <1>0, <2>1 DEF Carries, OneMessage, Work
  <2>3. x # j
    <3> SUFFICES ASSUME x = j PROVE FALSE
      OBVIOUS
    <3>1. NoMsg(pend[j].push)
      BY <2>1 DEF Resets, Polite
    <3>2. 1 \in DOMAIN pend[j].push
      BY <2>2
    <3> QED
      BY <2>1, <3>1, <3>2 DEF NoMsg, IsMsg
  <2>4. pend'[x] = pend[x]
    BY <1>0, <2>1, <2>3 DEF Resets
  <2> QED
    BY <2>1, <2>4 DEF Pushers
<1> QED
  BY <1>3, <1>4 DEF UnderWay

(* The last entry of a queue is in it, and the others still are. *)
LEMMA EntriesAppended ==
  ASSUME NEW S, NEW q \in Seq(S), NEW m \in S
  PROVE  Entries(q) \cup {m} \subseteq Entries(Append(q, m))
<1>1. \A i \in DOMAIN q : i \in DOMAIN Append(q, m) /\ Append(q, m)[i] = q[i]
  OBVIOUS
<1>2. Len(q) + 1 \in DOMAIN Append(q, m) /\ Append(q, m)[Len(q) + 1] = m
  OBVIOUS
<1> QED
  BY <1>1, <1>2 DEF Entries

(* So with two queues. *)
LEMMA EntriesJoined ==
  ASSUME NEW S, NEW q \in Seq(S), NEW r \in Seq(S)
  PROVE  Entries(q) \cup Entries(r) \subseteq Entries(q \o r)
<1>1. \A i \in DOMAIN q : i \in DOMAIN (q \o r) /\ (q \o r)[i] = q[i]
  OBVIOUS
<1>2. \A i \in DOMAIN r : Len(q) + i \in DOMAIN (q \o r) /\ (q \o r)[Len(q) + i] = r[i]
  OBVIOUS
<1> QED
  BY <1>1, <1>2 DEF Entries

(* What is behind the first is left when that is taken. *)
LEMMA EntriesBehind ==
  ASSUME NEW S, NEW q \in Seq(S), q # <<>>
  PROVE  Entries(q) \subseteq Entries(Tail(q)) \cup {Head(q)}
<1> SUFFICES ASSUME NEW i \in DOMAIN q
             PROVE  q[i] \in Entries(Tail(q)) \cup {Head(q)}
  BY DEF Entries
<1>1. CASE i = 1
  BY <1>1
<1>2. CASE i # 1
  <2>1. i - 1 \in DOMAIN Tail(q) /\ Tail(q)[i - 1] = q[i]
    BY <1>2
  <2> QED
    BY <2>1 DEF Entries
<1> QED
  BY <1>1, <1>2

(* The backlog goes out on the link. *)
LEMMA WayGreets ==
  ASSUME Typed, NEW j \in Conn, Greets(j),
         NEW k \in Conn, link[k] = "up", NEW c, NEW s, UnderWay(k, c, s)
  PROVE  UnderWay(k, c, s)'
<1>0. /\ pend \in [Conn -> Work] /\ down \in [Conn -> Seq(ServerMsgs)]
      /\ down[k] \in Seq(ServerMsgs) /\ pend[j] \in Work
  BY DEF Typed
<1>1. UNCHANGED rx
  BY DEF Greets
<1>2. PICK m, w :
        /\ SendOn(j, m) /\ pend' = [pend EXCEPT ![j] = w]
        /\ w.to = pend[j].to /\ w.push = pend[j].push
        /\ \/ m \in Welcomes /\ w.backlog = pend[j].backlog
           \/ m \in pend[j].backlog /\ w.backlog = pend[j].backlog \ {m}
  BY DEF Greets
<1>3. \A x \in Conn : pend'[x].to = pend[x].to /\ pend'[x].push = pend[x].push
  BY <1>0, <1>2
<1>4. Pushers(k, c, s)' = Pushers(k, c, s)
  BY <1>3 DEF Pushers
<1>5. CASE j # k
  <2>1. pend'[k] = pend[k] /\ down'[k] = down[k]
    BY <1>0, <1>2, <1>5 DEF SendOn
  <2> QED
    BY <1>1, <1>4, <2>1 DEF UnderWay, Due, Entries
<1>6. CASE j = k
  <2>1. m \in ServerMsgs
    BY <1>0, <1>2 DEF Work, ServerMsgs
  <2>2. down'[k] = Append(down[k], m)
    BY <1>0, <1>2, <1>6 DEF SendOn
  <2>3. Entries(down[k]) \cup {m} \subseteq Entries(down'[k])
    BY <1>0, <2>1, <2>2, EntriesAppended
  <2>4. pend[k].backlog \subseteq pend'[k].backlog \cup {m}
    BY <1>0, <1>2, <1>6
  <2>5. Due(k) \subseteq Due(k)'
    BY <1>1, <2>3, <2>4 DEF Due, Entries
  <2> QED
    BY <1>4, <2>5 DEF UnderWay
<1> QED
  BY <1>5, <1>6

(* Who takes up something new had nothing in hand. *)
LEMMA WayStarts ==
  ASSUME Typed, NEW j \in Conn, NEW w, Starts(j, w),
         NEW k \in Conn, NEW c, NEW s, UnderWay(k, c, s)
  PROVE  UnderWay(k, c, s)'
<1>0. pend \in [Conn -> Work]
  BY DEF Typed
<1>1. pend[j] = Idle /\ pend' = [pend EXCEPT ![j] = w] /\ UNCHANGED <<rx, down>>
  BY DEF Starts
<1>2. Idle.backlog = {} /\ Idle.to = {}
  BY DEF Idle
<1>3. \A x \in Conn : x # j => pend'[x] = pend[x]
  BY <1>0, <1>1
<1>4. Pushers(k, c, s) \subseteq Pushers(k, c, s)'
  BY <1>1, <1>2, <1>3 DEF Pushers
<1>5. pend[k].backlog \subseteq pend'[k].backlog
  BY <1>1, <1>2, <1>3
<1>6. Due(k) \subseteq Due(k)'
  BY <1>1, <1>5 DEF Due, Entries
<1> QED
  BY <1>4, <1>6 DEF UnderWay

(* A push puts it in the queue of a handler that serves. *)
LEMMA WayPush ==
  ASSUME Typed, Carries, NEW j \in Conn, Push(j),
         NEW k \in Conn, phase[k] = "serving", NEW c, NEW s, UnderWay(k, c, s)
  PROVE  UnderWay(k, c, s)'
<1>0. /\ pend \in [Conn -> Work] /\ pend[j] \in Work
      /\ rx \in [Conn -> Seq(Msgs \cup Notices)] /\ rx[k] \in Seq(Msgs \cup Notices)
  BY DEF Typed
<1>1. PICK t \in pend[j].to :
        /\ rx' = [rx EXCEPT ![t] = IF phase[t] = "serving" THEN rx[t] \o pend[j].push ELSE rx[t]]
        /\ pend' = [pend EXCEPT ![j] =
             IF pend[j].to = {t} THEN Idle ELSE [pend[j] EXCEPT !.to = pend[j].to \ {t}]]
  BY DEF Push
<1>2. pend[j].backlog = {} /\ UNCHANGED down
  BY DEF Push, wire
<1> DEFINE p == pend[j].push
<1>3. p \in Seq(Msgs \cup Notices) /\ t \in Conn
  BY <1>0 DEF Work
<1>4. /\ Entries(rx[k]) \subseteq Entries(rx'[k])
      /\ t = k => Entries(p) \subseteq Entries(rx'[k])
  <2>1. rx'[k] = IF t = k THEN rx[k] \o p ELSE rx[k]
    BY <1>0, <1>1, <1>3
  <2>2. Entries(rx[k]) \cup Entries(p) \subseteq Entries(rx[k] \o p)
    BY <1>0, <1>3, EntriesJoined
  <2> HIDE DEF p
  <2> QED
    BY <2>1, <2>2
<1>5. \A x \in Conn : x # j => pend'[x] = pend[x]
  BY <1>0, <1>1
<1>6. pend[j].to # {t} => pend'[j].to = pend[j].to \ {t} /\ pend'[j].push = p
  BY <1>0, <1>1 DEF Work
<1>7. pend[k].backlog \subseteq pend'[k].backlog
  BY <1>2, <1>5
<1>8. Due(k) \subseteq Due(k)'
  BY <1>2, <1>4, <1>7 DEF Due, Entries
<1>9. ASSUME NEW x \in Pushers(k, c, s), x \notin Pushers(k, c, s)'
      PROVE  \E m \in Due(k)' : IsMsg(m, c, s)
  <2>1. x \in Conn /\ k \in pend[x].to /\ IsMsg(pend[x].push[1], c, s)
    BY DEF Pushers
  <2>2. x = j
    BY <1>5, <1>9, <2>1 DEF Pushers
  <2>3. t = k
    BY <1>6, <1>9, <2>1, <2>2 DEF Pushers
  <2>4. p # <<>>
    BY <2>1, <2>2 DEF Carries, OneMessage
  <2>5. p[1] \in Entries(p)
    BY <1>3, <2>4 DEF Entries
  <2>6. p[1] \in Due(k)'
    BY <1>4, <2>3, <2>5 DEF Due, Entries
  <2> QED
    BY <2>1, <2>2, <2>6
<1> HIDE DEF p
<1> QED
  BY <1>8, <1>9 DEF UnderWay

(* The head of the queue goes out on the link. *)
LEMMA WayForward ==
  ASSUME Typed, NEW j \in Conn, ForwardPush(j),
         NEW k \in Conn, link[k] = "up", NEW c, NEW s, UnderWay(k, c, s)
  PROVE  UnderWay(k, c, s)'
<1>0. /\ rx \in [Conn -> Seq(Msgs \cup Notices)] /\ down \in [Conn -> Seq(ServerMsgs)]
      /\ rx[k] \in Seq(Msgs \cup Notices) /\ down[k] \in Seq(ServerMsgs)
  BY DEF Typed
<1>1. /\ rx[j] # <<>> /\ SendOn(j, Head(rx[j])) /\ rx' = [rx EXCEPT ![j] = Tail(rx[j])]
      /\ UNCHANGED pend
  BY DEF ForwardPush
<1>2. CASE j # k
  <2>1. rx'[k] = rx[k] /\ down'[k] = down[k]
    BY <1>0, <1>1, <1>2 DEF SendOn
  <2> QED
    BY <1>1, <2>1 DEF UnderWay, Due, Entries, Pushers
<1>3. CASE j = k
  <2>1. Head(rx[k]) \in ServerMsgs /\ rx[k] # <<>>
    BY <1>0, <1>1, <1>3 DEF ServerMsgs
  <2>2. rx'[k] = Tail(rx[k]) /\ down'[k] = Append(down[k], Head(rx[k]))
    BY <1>0, <1>1, <1>3 DEF SendOn
  <2>3. Entries(down[k]) \cup {Head(rx[k])} \subseteq Entries(down'[k])
    BY <1>0, <2>1, <2>2, EntriesAppended
  <2>4. Entries(rx[k]) \subseteq Entries(rx'[k]) \cup {Head(rx[k])}
    BY <1>0, <2>1, <2>2, EntriesBehind
  <2>5. Due(k) \subseteq Due(k)'
    BY <1>1, <2>3, <2>4 DEF Due, Entries
  <2> QED
    BY <1>1, <2>5 DEF UnderWay, Pushers
<1> QED
  BY <1>2, <1>3

(* Whatever a handler does. *)
LEMMA WayHandles ==
  ASSUME Typed, Carries, Polite, NEW j \in Conn, Handles(j),
         NEW k \in Conn, phase[k] = "serving", phase'[k] = "serving", link[k] = "up",
         NEW c, NEW s, UnderWay(k, c, s)
  PROVE  UnderWay(k, c, s)'
<1>1. CASE Still
  BY <1>1, WayStill DEF Still
<1>2. CASE Signs(j) \/ Tells(j) \/ Posting(j)
  <2>1. \E w : Starts(j, w)
    BY <1>2 DEF Signs, Tells, Posting
  <2> QED
    BY <2>1, WayStarts
<1> QED
  BY <1>1, <1>2, WayResets, WayGreets, WayPush, WayForward DEF Handles

-----------------------------------------------------------------------------
(* Who is served, and with what. *)

(* A handler registers nobody but at sign-in, and brings up no link. *)
LEMMA HandlerServes ==
  ASSUME Typed, NEW j \in Conn, Handler(j), UNCHANGED conn,
         NEW q \in Person, NEW k \in Conn, Served(q, k)'
  PROVE  Served(q, k) \/ (j = k /\ SignIn(k))
<1>0. /\ online \in [Person -> Conn \cup {NoConn}] /\ link \in [Conn -> {"up", "down"}]
      /\ NoConn \notin Conn
  BY HubAssumption DEF Typed
<1>1. CASE SignIn(j)
  <2>1. UNCHANGED link /\ \E p : online' = [online EXCEPT ![p] = j]
    BY <1>1 DEF SignIn
  <2> QED
    BY <1>0, <1>1, <2>1 DEF Served
<1>2. CASE ~SignIn(j)
  <2>1. UNCHANGED online \/ \E p : online' = [online EXCEPT ![p] = NoConn]
    BY <1>2 DEF Handler, DropEarlyFrame, GiveUpHello, Greet, SendWelcome, SendBacklog, GoOffline,
       Push, ForwardPush, PushRefused, LinkEnded, Leave, EndTask, HandleFrame, HandleSend,
       HandleAck, HandleOpenDm, HandleCreateRoom, IgnoreHello
  <2>2. UNCHANGED link \/ TaskEnds(j)
    BY <1>2 DEF Handler, DropEarlyFrame, GiveUpHello, Greet, SendWelcome, SendBacklog, GoOffline,
       Push, ForwardPush, PushRefused, LinkEnded, Leave, EndTask, HandleFrame, HandleSend,
       HandleAck, HandleOpenDm, HandleCreateRoom, IgnoreHello, wire
  <2>3. online[q] = k
    BY <1>0, <2>1 DEF Served
  <2>4. link[k] = "up"
    BY <1>0, <2>2 DEF Served, TaskEnds
  <2> QED
    BY <2>3, <2>4 DEF Served
<1> QED
  BY <1>1, <1>2

(* A message posted is set out to every member online, its author apart. *)
LEMMA PostIsPushed ==
  ASSUME HInv, Record, NEW j \in Conn, Handler(j),
         NEW c \in ConvId, convs'[c].nextSeq # convs[c].nextSeq
  PROVE  \E e : /\ Starts(j, Pushing(<<Msg(c, e)>>,
                                     PushesFor(online, convs'[c].members \ {who[j]})))
                /\ e.seq = convs'[c].nextSeq /\ e = convs'[c].log[Len(convs'[c].log)]
                /\ e.from = who[j]
<1>0. Typed /\ Shape /\ Numbered /\ convs \in [ConvId -> Conv]
  BY DEF HInv, IInv, Store, Typed
<1>1. CASE HandleSend(j) /\ Speaks(j)
  <2>1. PICK d \in ConvId : \E b : convs' = [convs EXCEPT ![d] = b]
    BY <1>1 DEF Speaks
  <2>2. \A x \in ConvId : convs'[x].nextSeq # convs[x].nextSeq => x = d
    BY <1>0, <2>1
  <2>3. Posting(j)
    BY <1>0, <1>1, MovesSend
  <2>4. PICK x \in ConvId : \E e, S :
          /\ Starts(j, Pushing(<<Msg(x, e)>>, S))
          /\ e.seq = convs[x].nextSeq + 1 /\ convs'[x].nextSeq = e.seq
          /\ e = convs'[x].log[Len(convs'[x].log)] /\ e.from = who[j]
          /\ S = PushesFor(online, convs'[x].members \ {who[j]})
    BY <2>3 DEF Posting
  <2>5. convs'[x].nextSeq # convs[x].nextSeq
    BY <1>0, <2>4 DEF Conv
  <2>6. x = c
    BY <2>2, <2>5
  <2> QED
    BY <2>4, <2>6
<1>2. ASSUME Joins(j) \/ Opens(j) \/ Acknowledges(j)
      PROVE  FALSE
  BY <1>2, JoinsSilent, OpensSilent, AcknowledgesSilent DEF Silent
<1>3. CASE UNCHANGED convs
  BY <1>3
<1>4. CASE SignIn(j)
  BY <1>0, <1>2, <1>4, DoesSignIn
<1>5. CASE HandleFrame(j)
  BY <1>0, <1>1, <1>2, <1>3, <1>5, DoesFrame
<1>6. CASE ~SignIn(j) /\ ~HandleFrame(j)
  BY <1>3, <1>6, StoreUntouched
<1> QED
  BY <1>4, <1>5, <1>6

(* So it is on its way to whoever is registered. *)
LEMMA PostReaches ==
  ASSUME HInv, Record, NEW j \in Conn, Handler(j),
         NEW c \in ConvId, convs'[c].nextSeq # convs[c].nextSeq, NEW s, s = convs'[c].nextSeq,
         NEW q \in convs'[c].members, q \in Person, q # who[j], NEW k \in Conn, online[q] = k
  PROVE  UnderWay(k, c, s)'
<1>0. pend \in [Conn -> Work] /\ NoConn \notin Conn
  BY HubAssumption DEF HInv, IInv, Typed
<1> DEFINE S == PushesFor(online, convs'[c].members \ {who[j]})
<1>1. PICK e : Starts(j, Pushing(<<Msg(c, e)>>, S)) /\ e.seq = convs'[c].nextSeq
  BY PostIsPushed
<1>2. k \in S
  BY <1>0 DEF PushesFor, OnlineIds
<1> HIDE DEF S
<1> DEFINE p == <<Msg(c, e)>>
<1>3. Pushing(p, S).to = S /\ Pushing(p, S).push = p
  BY <1>2 DEF Pushing, Idle
<1>4. pend'[j] = Pushing(p, S)
  BY <1>0, <1>1 DEF Starts
<1>5. p[1].t = "msg" /\ p[1].conv = c /\ p[1].seq = e.seq
  BY DEF Msg
<1> HIDE DEF p
<1>6. k \in pend'[j].to /\ IsMsg(pend'[j].push[1], c, s)
  BY <1>1, <1>2, <1>3, <1>4, <1>5 DEF IsMsg
<1> QED
  BY <1>6 DEF UnderWay, Pushers

(* Whatever is in a log and not read is in the backlog of a sign-in. *)
LEMMA BacklogHolds ==
  ASSUME NEW cs \in [ConvId -> Conv], NEW c \in ConvId, Contiguous(cs[c]),
         NEW q \in cs[c].members, NEW s \in 1 .. cs[c].nextSeq,
         s > cs[c].cursors[q], s > cs[c].nextSeq - Len(cs[c].log)
  PROVE  \E m \in BacklogFor(cs, q) : IsMsg(m, c, s)
<1> DEFINE a == cs[c]
           i == s - (a.nextSeq - Len(a.log))
<1>1. a \in Conv /\ a.log \in Seq(Entry) /\ a.nextSeq \in Nat /\ Len(a.log) \in Nat
      /\ Len(a.log) <= a.nextSeq
  <2>1. a \in Conv
    OBVIOUS
  <2>2. a.log \in Seq(Entry) /\ a.nextSeq \in Nat /\ Len(a.log) \in Nat
    BY <2>1 DEF Conv
  <2> QED
    BY <2>1, <2>2, HubAssumption DEF Contiguous
<1>2. i \in 1 .. Len(a.log) /\ a.nextSeq - Len(a.log) + i = s
  BY <1>1
<1>3. a.log[i].seq = s
  BY <1>2 DEF Contiguous
<1>4. a.log[i] \in Unread(a, q)
  BY <1>2, <1>3 DEF Unread
<1>5. Msg(c, a.log[i]) \in BacklogFor(cs, q)
  <2> DEFINE here == {Msg(c, e) : e \in Unread(a, q)}
             all == {{Msg(d, e) : e \in Unread(cs[d], q)} : d \in {d \in ConvId : Has(cs[d], q)}}
  <2>1. Msg(c, a.log[i]) \in here
    BY <1>4
  <2>2. here \in all
    BY DEF Has
  <2>3. BacklogFor(cs, q) = UNION all
    BY DEF BacklogFor
  <2> HIDE DEF here, all
  <2> QED
    BY <2>1, <2>2, <2>3
<1>6. IsMsg(Msg(c, a.log[i]), c, s)
  BY <1>3 DEF IsMsg, Msg
<1> QED
  BY <1>5, <1>6

(* Who signs in is replayed all that is kept and not read. *)
LEMMA SignInReaches ==
  ASSUME HInv, HInv', Recorded', NEW k \in Conn, SignIn(k),
         NEW q \in Person, online'[q] = k, NEW c \in ConvId
  PROVE  Reached(q, k, c)'
<1>0. Typed /\ Shape /\ PushesAreLive' /\ Typed' /\ who \in [Conn -> Person \cup {Nobody}]
      /\ pend \in [Conn -> Work] /\ NoConn \notin Conn
  BY HubAssumption DEF HInv, IInv, Shape, Typed
<1>1. who'[k] = q
  BY <1>0 DEF PushesAreLive
<1>2. PICK p \in Person : \E w :
        who' = [who EXCEPT ![k] = p] /\ Starts(k, w) /\ w.backlog = BacklogFor(convs', p)
  BY <1>0, MovesSignIn DEF Signs
<1>3. p = q
  BY <1>0, <1>1, <1>2
<1>4. pend'[k].backlog = BacklogFor(convs', q)
  BY <1>0, <1>2, <1>3 DEF Starts
<1>5. convs' \in [ConvId -> Conv] /\ Contiguous(convs'[c])
  BY DEF HInv, IInv, Typed, Store, Numbered, AllContiguous
<1> SUFFICES ASSUME q \in convs'[c].members, NEW s \in DOMAIN history'[c]
             PROVE  Settled(q, c, s)' \/ UnderWay(k, c, s)'
  BY DEF Reached
<1>6. s \in 1 .. convs'[c].nextSeq
  BY DEF Recorded
<1>7. CASE s <= convs'[c].cursors[q] \/ s <= convs'[c].nextSeq - Len(convs'[c].log)
  BY <1>7 DEF Settled
<1>8. CASE s > convs'[c].cursors[q] /\ s > convs'[c].nextSeq - Len(convs'[c].log)
  <2>1. \E m \in BacklogFor(convs', q) : IsMsg(m, c, s)
    BY <1>5, <1>6, <1>8, BacklogHolds
  <2> QED
    BY <1>4, <2>1 DEF UnderWay, Due
<1>9. /\ convs'[c].cursors[q] \in Nat /\ convs'[c].nextSeq \in Nat /\ Len(convs'[c].log) \in Nat
      /\ s \in Nat
  <2>1. convs'[c] \in Conv
    BY <1>5
  <2> QED
    BY <1>6, <2>1 DEF Conv
<1> QED
  BY <1>7, <1>8, <1>9

(* What is done with remains so, as long as nothing shown is forgotten. *)
LEMMA SettledKept ==
  ASSUME HInv, HInv', Recorded, NEW q \in Person, NEW c \in ConvId, NEW s \in DOMAIN history[c],
         history'[c][s] = history[c][s],
         SameAcks(convs[c], convs'[c]), convs'[c].nextSeq >= convs[c].nextSeq,
         \A i \in DOMAIN shown[q][c] : \E j \in DOMAIN shown'[q][c] : shown'[q][c][j] = shown[q][c][i],
         lastSeq[q][c] \in Nat, lastSeq'[q][c] \in Nat, lastSeq'[q][c] >= lastSeq[q][c],
         Settled(q, c, s)
  PROVE  Settled(q, c, s)'
<1>0. convs[c] \in Conv /\ convs'[c] \in Conv /\ Contiguous(convs[c]) /\ Contiguous(convs'[c])
  BY DEF HInv, IInv, Typed, Store, Numbered, AllContiguous
<1>1. /\ convs[c].nextSeq \in Nat /\ convs'[c].nextSeq \in Nat
      /\ convs[c].cursors[q] \in Nat /\ convs'[c].cursors[q] \in Nat
      /\ Len(convs[c].log) \in Nat /\ Len(convs'[c].log) \in Nat
  BY <1>0 DEF Conv
<1>2. s \in Nat /\ s <= convs[c].nextSeq
  BY DEF Recorded
<1>3. CASE history[c][s].from = q
  BY <1>3 DEF Settled
<1>4. CASE \E i \in DOMAIN shown[q][c] : shown[q][c][i] = s
  BY <1>4 DEF Settled
<1>5. CASE s < lastSeq[q][c]
  <2>1. s < lastSeq'[q][c]
    BY <1>2, <1>5
  <2> QED
    BY <2>1 DEF Settled
<1>6. CASE s <= convs[c].cursors[q]
  <2>1. convs'[c].cursors[q] >= (IF convs[c].cursors[q] < convs[c].nextSeq
                                 THEN convs[c].cursors[q] ELSE convs[c].nextSeq)
    BY DEF SameAcks
  <2>2. s <= convs'[c].cursors[q]
    BY <1>1, <1>2, <1>6, <2>1
  <2> QED
    BY <2>2 DEF Settled
<1>7. CASE s <= convs[c].nextSeq - Len(convs[c].log)
  <2>1. /\ Len(convs[c].log) = (IF convs[c].nextSeq < MaxLog THEN convs[c].nextSeq ELSE MaxLog)
        /\ Len(convs'[c].log) = (IF convs'[c].nextSeq < MaxLog THEN convs'[c].nextSeq ELSE MaxLog)
    BY <1>0 DEF Contiguous
  <2>2. s <= convs'[c].nextSeq - Len(convs'[c].log)
    BY <1>1, <1>2, <1>7, <2>1, HubAssumption
  <2> QED
    BY <2>2 DEF Settled
<1> QED
  BY <1>3, <1>4, <1>5, <1>6, <1>7 DEF Settled

-----------------------------------------------------------------------------
(* What the clients see of it. *)

(* A message that passes the mark is shown; one that does not is dropped. *)
LEMMA ReadsMessage ==
  ASSUME NEW q \in Person, Receive(q), Head(down[conn[q]]).t = "msg"
  PROVE  \/ Shows(q, Head(down[conn[q]]))
         \/ ~(Head(down[conn[q]]).seq > lastSeq[q][Head(down[conn[q]]).conv])
            /\ UNCHANGED <<lastSeq, shown>>
<1> DEFINE m == Head(down[conn[q]])
<1>1. m.t = "msg" /\ Fresh(q, m) => Shows(q, m)
  BY DEF Receive, Shows, Fresh
<1>2. ~(m.t = "msg" /\ Fresh(q, m)) => UNCHANGED <<lastSeq, shown>>
  BY DEF Receive
<1> HIDE DEF m
<1> QED
  BY <1>1, <1>2 DEF m, Fresh

(* What is shown grows, and the marks with it. *)
LEMMA ShowsGrows ==
  ASSUME ClientTypes, NEW q \in Person, NEW m, m.conv \in ConvId, m.seq \in Nat, Shows(q, m),
         NEW p \in Person, NEW c \in ConvId
  PROVE  /\ \A i \in DOMAIN shown[p][c] :
              i \in DOMAIN shown'[p][c] /\ shown'[p][c][i] = shown[p][c][i]
         /\ lastSeq'[p][c] \in Nat /\ lastSeq'[p][c] >= lastSeq[p][c]
         /\ p = q /\ c = m.conv =>
              lastSeq'[p][c] = m.seq /\ \E i \in DOMAIN shown'[p][c] : shown'[p][c][i] = m.seq
         /\ ~(p = q /\ c = m.conv) => lastSeq'[p][c] = lastSeq[p][c] /\ shown'[p][c] = shown[p][c]
<1> DEFINE s == shown[q][m.conv]
<1>0. /\ shown \in [Person -> [ConvId -> Seq(Nat)]] /\ lastSeq \in [Person -> [ConvId -> Nat]]
      /\ s \in Seq(Nat) /\ lastSeq[p][c] \in Nat
  BY DEF ClientTypes
<1>1. CASE p = q /\ c = m.conv
  <2>1. shown'[p][c] = Append(s, m.seq) /\ lastSeq'[p][c] = m.seq /\ m.seq > lastSeq[p][c]
    BY <1>0, <1>1 DEF Shows
  <2> HIDE DEF s
  <2>2. /\ \A i \in DOMAIN s : i \in DOMAIN Append(s, m.seq) /\ Append(s, m.seq)[i] = s[i]
        /\ Len(s) + 1 \in DOMAIN Append(s, m.seq) /\ Append(s, m.seq)[Len(s) + 1] = m.seq
    BY <1>0
  <2>3. lastSeq'[p][c] \in Nat /\ lastSeq'[p][c] >= lastSeq[p][c]
    BY <1>0, <2>1
  <2> QED
    BY <1>1, <2>1, <2>2, <2>3 DEF s
<1>2. CASE ~(p = q /\ c = m.conv)
  <2>1. shown'[p][c] = shown[p][c] /\ lastSeq'[p][c] = lastSeq[p][c]
    BY <1>0, <1>2 DEF Shows
  <2> QED
    BY <1>0, <1>2, <2>1
<1> QED
  BY <1>1, <1>2

(* A mark is set to what is shown. *)
LEMMA TopShownStep ==
  ASSUME Typed, ClientTypes, Lines, TopShown, SysNext \/ UNCHANGED sysVars
  PROVE  TopShown'
<1>1. CASE UNCHANGED <<lastSeq, shown>>
  BY <1>1 DEF TopShown
<1>2. ASSUME NEW q \in Person, Receive(q)
      PROVE  TopShown'
  <2> DEFINE m == Head(down[conn[q]])
  <2>1. Shows(q, m) \/ UNCHANGED <<lastSeq, shown>>
    BY <1>2, ReceiveDoes DEF Updates
  <2>2. m \in ServerMsgs
    BY <1>2, ReceiveDoes, Read
  <2> HIDE DEF m
  <2>3. CASE Shows(q, m)
    <3>1. m.conv \in ConvId /\ m.seq \in Nat
      BY <2>2, <2>3, ServerFields DEF Shows
    <3> SUFFICES ASSUME NEW p \in Person, NEW c \in ConvId
                 PROVE  \/ lastSeq'[p][c] = 0
                        \/ \E i \in DOMAIN shown'[p][c] : shown'[p][c][i] = lastSeq'[p][c]
      BY DEF TopShown
    <3>2. CASE p = q /\ c = m.conv
      BY <2>3, <3>1, <3>2, ShowsGrows
    <3>3. CASE ~(p = q /\ c = m.conv)
      <4>1. lastSeq'[p][c] = lastSeq[p][c] /\ shown'[p][c] = shown[p][c]
        BY <2>3, <3>1, <3>3, ShowsGrows
      <4> QED
        BY <4>1 DEF TopShown
    <3> QED
      BY <3>2, <3>3
  <2> QED
    BY <1>1, <2>1, <2>3
<1>3. ASSUME NEW q \in Person, Relaunch(q)
      PROVE  TopShown'
  <2>1. /\ lastSeq' = [lastSeq EXCEPT ![q] = [d \in ConvId |-> 0]]
        /\ shown' = [shown EXCEPT ![q] = [d \in ConvId |-> <<>>]]
    BY <1>3 DEF Relaunch
  <2>2. \A p \in Person, c \in ConvId :
          IF p = q THEN lastSeq'[p][c] = 0
          ELSE lastSeq'[p][c] = lastSeq[p][c] /\ shown'[p][c] = shown[p][c]
    BY <2>1 DEF ClientTypes
  <2> QED
    BY <2>2 DEF TopShown
<1>4. ASSUME NEW q \in Person, User(q) \/ Client(q), ~Relaunch(q), ~Receive(q)
      PROVE  UNCHANGED <<lastSeq, shown>>
  BY <1>4 DEF User, UserSends, UserOpensDm, UserCreatesRoom, Type,
     Client, Dial, SayHello, Transmit, NoticeLinkDown
<1>5. CASE UNCHANGED client
  BY <1>1, <1>5 DEF client
<1>6. UNCHANGED sysVars \/ (\E k \in Conn : HubStep(k)) \/ Failures => UNCHANGED client
  BY DEF sysVars, HubStep, Failures
<1> QED
  BY <1>1, <1>2, <1>3, <1>4, <1>5, <1>6 DEF SysNext

(* Where a client connects nobody was registered before. *)
LEMMA ClientServes ==
  ASSUME HInv, ClientTypes, Lines, NEW p \in Person, User(p) \/ Client(p),
         NEW q \in Person, NEW k \in Conn, Served(q, k)'
  PROVE  Served(q, k) /\ phase[k] = "serving" /\ phase'[k] = "serving"
<1>0. /\ Typed /\ PushesAreLive /\ conn \in [Person -> Conn \cup {NoConn}]
      /\ link \in [Conn -> {"up", "down"}] /\ phase \in [Conn -> {"free", "hello", "serving", "leaving"}]
      /\ NoConn \notin Conn
  BY HubAssumption DEF HInv, IInv, Shape, ClientTypes, Typed
<1>1. UNCHANGED online /\ \A h \in Conn : phase[h] = "serving" => phase'[h] = phase[h] /\ (link'[h] = "up" => link[h] = "up")
  <2>1. CASE UNCHANGED vars
    BY <2>1 DEF vars
  <2>2. ASSUME NEW j \in Conn, OnLine(j)
        PROVE  UNCHANGED online /\ \A h \in Conn : phase[h] = "serving" => phase'[h] = phase[h] /\ (link'[h] = "up" => link[h] = "up")
    BY <1>0, <2>2 DEF OnLine, Network, Accept, Deliver, CutLink, ClientFrame
  <2> QED
    BY <2>1, <2>2, ClientsAreOpen
<1>2. online[q] = k /\ phase[k] = "serving"
  BY <1>0, <1>1 DEF Served, PushesAreLive
<1>3. conn'[q] = k => conn[q] = k
  <2>1. UNCHANGED conn \/ conn' = [conn EXCEPT ![p] = NoConn] \/ Dial(p)
    BY DEF User, UserSends, UserOpensDm, UserCreatesRoom, Type, Relaunch,
       Client, SayHello, Transmit, Receive, NoticeLinkDown, HangUp
  <2>2. ASSUME NEW h \in Conn, Accept(h), conn' = [conn EXCEPT ![p] = h], conn'[q] = k
        PROVE  conn[q] = k
    BY <1>0, <1>2, <2>2 DEF Accept
  <2> QED
    BY <1>0, <2>1, <2>2 DEF Dial
<1> QED
  BY <1>1, <1>2, <1>3 DEF Served

-----------------------------------------------------------------------------
(* Each step delivers what it adds and keeps what is delivered. *)

(* Somebody signed in joins a conversation only when it is opened.         *)
LEMMA MembersBefore ==
  ASSUME HInv, Recorded, Record, FamilyIn, NEW j \in Conn, Does(j) \/ UNCHANGED convs,
         NEW k \in Conn, who[k] # Nobody, NEW c \in ConvId,
         who[k] \in convs'[c].members, who[k] \notin convs[c].members
  PROVE  DOMAIN history'[c] = {}
<1>0. /\ convs \in [ConvId -> Conv] /\ Family \in ConvId /\ Unborn(convs[c])
      /\ history[c] \in Seq(Entry) /\ Len(history[c]) = convs[c].nextSeq
  BY DEF HInv, IInv, Typed, Store, AllUnborn, Recorded, ConvId
<1>1. CASE Joins(j)
  <2>1. PICK p \in Person : convs' = [convs EXCEPT ![Family].members = @ \cup {p}]
    BY <1>1 DEF Joins
  <2>2. c = Family
    BY <1>0, <2>1
  <2> QED
    BY <2>2 DEF FamilyIn
<1>2. CASE Opens(j)
  <2>1. PICK d \in ConvId, S \in SUBSET Person :
          convs[d].members = {} /\ convs' = [convs EXCEPT ![d] = NewConv(S)]
    BY <1>2 DEF Opens
  <2>2. c = d
    BY <1>0, <2>1
  <2>3. convs[c].nextSeq = 0
    BY <1>0, <2>1, <2>2 DEF Unborn
  <2>4. Silent(c)
    BY <1>2, OpensSilent
  <2> QED
    BY <1>0, <2>3, <2>4 DEF Silent
<1>3. ASSUME NEW d \in ConvId, NEW b, b.members = convs[d].members,
             convs' = [convs EXCEPT ![d] = b]
      PROVE  FALSE
  BY <1>0, <1>3
<1>4. CASE Speaks(j)
  <2>1. PICK d \in ConvId, x \in Text :
          who[j] \in convs[d].members /\ convs' = [convs EXCEPT ![d] = Posted(convs[d], who[j], x)]
    BY <1>4 DEF Speaks
  <2>2. convs[d] \in Conv /\ who[j] \in Person
    BY <1>0, <2>1 DEF Conv
  <2>3. Posted(convs[d], who[j], x).members = convs[d].members
    BY <2>2, PostedType
  <2> QED
    BY <1>3, <2>1, <2>3
<1>5. CASE Acknowledges(j)
  <2>1. PICK d \in ConvId, p \in Person, n \in Nat :
          convs' = [convs EXCEPT ![d] = Acked(convs[d], p, n)]
    BY <1>5 DEF Acknowledges
  <2>2. Acked(convs[d], p, n).members = convs[d].members
    BY <1>0, <2>1, AckedType
  <2> QED
    BY <1>3, <2>1, <2>2
<1> QED
  BY <1>1, <1>2, <1>4, <1>5 DEF Does

(* What a step records is the last entry of the log. *)
LEMMA NewlyRecorded ==
  ASSUME Recorded, Recorded', Record, NEW c \in ConvId,
         convs[c].nextSeq \in Nat, convs'[c].nextSeq \in Nat,
         NEW s \in DOMAIN history'[c], s \notin DOMAIN history[c]
  PROVE  /\ convs'[c].nextSeq # convs[c].nextSeq /\ s = convs'[c].nextSeq
         /\ history'[c][s] = convs'[c].log[Len(convs'[c].log)]
<1> DEFINE e == convs'[c].log[Len(convs'[c].log)]
           h == history[c]
<1>1. /\ h \in Seq(Entry) /\ history'[c] \in Seq(Entry)
      /\ Len(h) = convs[c].nextSeq /\ Len(history'[c]) = convs'[c].nextSeq
  BY DEF Recorded
<1>2. history'[c] = IF convs'[c].nextSeq > convs[c].nextSeq THEN Append(h, e) ELSE h
  BY DEF Record
<1> HIDE DEF e, h
<1>3. history'[c] = Append(h, e) /\ convs'[c].nextSeq > convs[c].nextSeq
  BY <1>2 DEF h
<1>4. s \in 1 .. Len(h) + 1 /\ s \notin 1 .. Len(h)
  BY <1>1, <1>3 DEF h
<1>5. s = Len(h) + 1 /\ Len(history'[c]) = Len(h) + 1
  BY <1>1, <1>3, <1>4
<1>6. Append(h, e)[Len(h) + 1] = e
  BY <1>1
<1> QED
  BY <1>1, <1>3, <1>5, <1>6 DEF e

(* A handler's. *)
LEMMA DeliveredHub ==
  ASSUME ~PersistMayFail, AInv, SInv', NEW j \in Conn, HubStep(j)
  PROVE  Delivered'
<1>0. /\ HInv /\ HInv' /\ ClientTypes /\ Lines /\ FamilyIn /\ Recorded /\ Recorded'
      /\ Typed /\ Shape /\ PushesAreLive /\ PushesAreLive' /\ Carries /\ Polite /\ Delivered
  BY DEF AInv, SInv, CInv, HInv, IInv, Shape
<1>1. Handler(j) /\ Record /\ UNCHANGED <<conn, shown, lastSeq>>
  BY DEF HubStep, client
<1>2. Does(j) \/ UNCHANGED convs
  BY <1>0, <1>1, DoesHandler
<1>3. Handles(j)
  BY <1>0, <1>1, MovesHandler DEF HInv, Store
<1>4. \A c \in ConvId : SameAcks(convs[c], convs'[c]) /\ convs'[c].nextSeq >= convs[c].nextSeq
  BY <1>0, <1>1, PastKept DEF Next, SameHistory
<1>5. \A c \in ConvId : \A i \in DOMAIN history[c] : history'[c][i] = history[c][i]
  <2>1. SysNext
    BY DEF SysNext
  <2>2. Rests \/ \E k \in Conn : Does(k)
    BY <1>0, <2>1, SystemDoes
  <2>3. \A c \in ConvId : Talks(c)
    BY <1>0, <1>1, <2>2, Talking
  <2> QED
    BY <1>0, <1>1, <2>3, RecordStep
<1>6. \A q \in Person, c \in ConvId : lastSeq[q][c] \in Nat
  BY <1>0 DEF ClientTypes
<1>7. \A c \in ConvId : convs[c].nextSeq \in Nat /\ convs'[c].nextSeq \in Nat
  <2>1. \A c \in ConvId : convs[c] \in Conv /\ convs'[c] \in Conv
    BY <1>0 DEF HInv, IInv, Typed
  <2> QED
    BY <2>1 DEF Conv
<1> SUFFICES ASSUME NEW q \in Person, NEW k \in Conn, NEW c \in ConvId, Served(q, k)'
             PROVE  Reached(q, k, c)'
  BY DEF Delivered
<1>8. CASE j = k /\ SignIn(k)
  BY <1>0, <1>8, SignInReaches DEF Served
<1>9. CASE Served(q, k)
  <2>1. NoConn \notin Conn /\ Nobody \notin Person
    BY HubAssumption
  <2>2. phase[k] = "serving" /\ phase'[k] = "serving" /\ who[k] = q /\ link[k] = "up" /\ online[q] = k
    BY <1>0, <1>9, <2>1 DEF PushesAreLive, Served
  <2> SUFFICES ASSUME q \in convs'[c].members, NEW s \in DOMAIN history'[c]
               PROVE  Settled(q, c, s)' \/ UnderWay(k, c, s)'
    BY DEF Reached
  <2>3. q \in convs[c].members
    BY <1>0, <1>1, <1>2, <2>1, <2>2, MembersBefore
  <2>4. CASE s \in DOMAIN history[c]
    <3>1. Settled(q, c, s) \/ UnderWay(k, c, s)
      BY <1>0, <1>9, <2>3, <2>4 DEF Delivered, Reached
    <3>2. CASE UnderWay(k, c, s)
      BY <1>0, <1>3, <2>2, <3>2, WayHandles
    <3>3. CASE Settled(q, c, s)
      <4>1. lastSeq'[q][c] = lastSeq[q][c] /\ shown'[q][c] = shown[q][c] /\ lastSeq[q][c] \in Nat
        BY <1>1, <1>6
      <4>2. lastSeq'[q][c] \in Nat /\ lastSeq'[q][c] >= lastSeq[q][c]
        BY <4>1
      <4> QED
        BY <1>0, <1>4, <1>5, <2>4, <3>3, <4>1, <4>2, SettledKept
    <3> QED
      BY <3>1, <3>2, <3>3
  <2>5. CASE s \notin DOMAIN history[c]
    <3>1. /\ convs'[c].nextSeq # convs[c].nextSeq /\ s = convs'[c].nextSeq
          /\ history'[c][s] = convs'[c].log[Len(convs'[c].log)]
      BY <1>0, <1>1, <1>7, <2>5, NewlyRecorded
    <3>2. CASE q = who[j]
      <4>1. convs'[c].log[Len(convs'[c].log)].from = who[j]
        BY <1>0, <1>1, <3>1, PostIsPushed
      <4> QED
        BY <3>1, <3>2, <4>1 DEF Settled
    <3>3. CASE q # who[j]
      BY <1>0, <1>1, <2>2, <3>1, <3>3, PostReaches
    <3> QED
      BY <3>2, <3>3
  <2> QED
    BY <2>4, <2>5
<1> QED
  BY <1>0, <1>1, <1>8, <1>9, HandlerServes

(* Where the conversations stay as they are. *)
LEMMA StaysReached ==
  ASSUME UNCHANGED <<convs, history>>, NEW q \in Person, NEW k \in Conn, NEW c \in ConvId,
         Reached(q, k, c),
         \A i \in DOMAIN shown[q][c] : i \in DOMAIN shown'[q][c] /\ shown'[q][c][i] = shown[q][c][i],
         lastSeq[q][c] \in Nat, lastSeq'[q][c] \in Nat, lastSeq'[q][c] >= lastSeq[q][c],
         Recorded,
         \A s \in DOMAIN history[c] : UnderWay(k, c, s) => Settled(q, c, s)' \/ UnderWay(k, c, s)'
  PROVE  Reached(q, k, c)'
<1> SUFFICES ASSUME q \in convs[c].members, NEW s \in DOMAIN history[c]
             PROVE  Settled(q, c, s)' \/ UnderWay(k, c, s)'
  BY DEF Reached
<1>1. Settled(q, c, s) \/ UnderWay(k, c, s)
  BY DEF Reached
<1>2. s \in Nat
  BY DEF Recorded
<1>3. CASE s < lastSeq[q][c]
  <2>1. s < lastSeq'[q][c]
    BY <1>2, <1>3
  <2> QED
    BY <2>1 DEF Settled
<1>4. CASE Settled(q, c, s) /\ ~(s < lastSeq[q][c])
  BY <1>4 DEF Settled
<1> QED
  BY <1>1, <1>3, <1>4

(* A break of a link, or a restart of the hub. *)
LEMMA DeliveredFailures ==
  ASSUME ~PersistMayFail, AInv, Failures
  PROVE  Delivered'
<1>0. /\ Typed /\ ClientTypes /\ Recorded /\ Delivered /\ link \in [Conn -> {"up", "down"}]
      /\ down \in [Conn -> Seq(ServerMsgs)]
  BY DEF AInv, SInv, HInv, IInv, Typed
<1>1. UNCHANGED <<conn, shown, lastSeq, history>>
  BY DEF Failures, client
<1> SUFFICES ASSUME NEW q \in Person, NEW k \in Conn, NEW c \in ConvId, Served(q, k)'
             PROVE  Reached(q, k, c)'
  BY DEF Delivered
<1>2. PICK j \in Conn : CutLink(j)
  BY DEF Failures, Crash, Served
<1>3. j # k
  BY <1>0, <1>2 DEF CutLink, Served
<1>4. UNCHANGED <<convs, online, pend, rx>> /\ link'[k] = link[k] /\ down'[k] = down[k]
  BY <1>0, <1>2, <1>3 DEF CutLink, store
<1>5. Reached(q, k, c)
  BY <1>0, <1>1, <1>4 DEF Delivered, Served
<1>6. lastSeq[q][c] \in Nat /\ lastSeq'[q][c] = lastSeq[q][c] /\ lastSeq[q][c] >= lastSeq[q][c]
  BY <1>0, <1>1 DEF ClientTypes
<1>7. \A s : UnderWay(k, c, s) => UnderWay(k, c, s)'
  BY <1>4, WayStill
<1> QED
  BY <1>0, <1>1, <1>4, <1>5, <1>6, <1>7, StaysReached

(* A message read was news and is shown, or is behind the mark.            *)
LEMMA DeliveredReceive ==
  ASSUME AInv, NEW p \in Person, Receive(p), UNCHANGED <<convs, history>>,
         NEW q \in Person, NEW k \in Conn, NEW c \in ConvId, Served(q, k)
  PROVE  Reached(q, k, c)'
<1> DEFINE m == Head(down[conn[p]])
<1>0. /\ Typed /\ ClientTypes /\ Lines /\ Recorded /\ TopShown /\ Reached(q, k, c)
      /\ lastSeq[q][c] \in Nat /\ down \in [Conn -> Seq(ServerMsgs)] /\ NoConn \notin Conn
      /\ history[c] \in Seq(Entry)
  BY HubAssumption DEF AInv, SInv, HInv, IInv, Delivered, Typed, ClientTypes, Recorded
<1>1. /\ conn[p] \in Conn /\ m \in ServerMsgs /\ down[conn[p]] # <<>>
      /\ UNCHANGED <<pend, rx>> /\ down' = [down EXCEPT ![conn[p]] = Tail(down[conn[p]])]
  BY <1>0, ReceiveDoes, Read DEF Deliver
<1>2. Shows(p, m) \/ UNCHANGED <<lastSeq, shown>>
  BY ReceiveDoes DEF Updates
<1>3. m.t = "msg" => Shows(p, m) \/ (~(m.seq > lastSeq[p][m.conv]) /\ UNCHANGED <<lastSeq, shown>>)
  BY ReadsMessage
<1> HIDE DEF m
<1>4. Shows(p, m) => m.conv \in ConvId /\ m.seq \in Nat
  BY <1>1, ServerFields DEF Shows
<1>5. /\ \A i \in DOMAIN shown[q][c] : i \in DOMAIN shown'[q][c] /\ shown'[q][c][i] = shown[q][c][i]
      /\ lastSeq'[q][c] \in Nat /\ lastSeq'[q][c] >= lastSeq[q][c]
  <2>1. CASE Shows(p, m)
    BY <1>0, <1>4, <2>1, ShowsGrows
  <2>2. CASE UNCHANGED <<lastSeq, shown>>
    BY <1>0, <2>2
  <2> QED
    BY <1>2, <2>1, <2>2
<1>6. ASSUME NEW s \in DOMAIN history[c], UnderWay(k, c, s)
      PROVE  Settled(q, c, s)' \/ UnderWay(k, c, s)'
  <2>1. CASE p # q
    <3>1. conn[p] # k
      BY <1>0, <2>1 DEF Lines, Served
    <3>2. down'[k] = down[k]
      BY <1>0, <1>1, <3>1
    <3> QED
      BY <1>1, <1>6, <3>2, WayStill
  <2>2. CASE p = q
    <3>1. conn[p] = k /\ down[k] \in Seq(ServerMsgs) /\ down'[k] = Tail(down[k]) /\ m = Head(down[k])
      BY <1>0, <1>1, <2>2 DEF Served, m
    <3>2. Entries(down[k]) \subseteq Entries(down'[k]) \cup {m}
      BY <1>1, <3>1, EntriesBehind
    <3>3. CASE UnderWay(k, c, s)' \/ ~IsMsg(m, c, s)
      <4>1. Due(k) \subseteq Due(k)' \cup {m}
        BY <1>1, <3>2 DEF Due, Entries
      <4>2. Pushers(k, c, s)' = Pushers(k, c, s)
        BY <1>1 DEF Pushers
      <4> QED
        BY <1>6, <3>3, <4>1, <4>2 DEF UnderWay
    <3>4. CASE IsMsg(m, c, s)
      <4>1. m.t = "msg" /\ m.conv = c /\ m.seq = s /\ s \in Nat /\ s # 0
        BY <1>0, <3>4 DEF IsMsg
      <4>2. CASE Shows(p, m)
        <5>1. \E i \in DOMAIN shown'[q][c] : shown'[q][c][i] = s
          BY <1>0, <2>2, <4>1, <4>2, ShowsGrows
        <5> QED
          BY <5>1 DEF Settled
      <4>3. CASE ~(s > lastSeq[q][c]) /\ UNCHANGED <<lastSeq, shown>>
        <5>1. CASE s < lastSeq[q][c]
          BY <4>3, <5>1 DEF Settled
        <5>2. CASE s = lastSeq[q][c]
          <6>1. \E i \in DOMAIN shown[q][c] : shown[q][c][i] = s
            BY <1>0, <4>1, <5>2 DEF TopShown
          <6> QED
            BY <4>3, <6>1 DEF Settled
        <5> QED
          BY <1>0, <4>1, <4>3, <5>1, <5>2
      <4> QED
        BY <1>3, <2>2, <4>1, <4>2, <4>3
    <3> QED
      BY <3>3, <3>4
  <2> QED
    BY <2>1, <2>2
<1> QED
  BY <1>0, <1>5, <1>6, StaysReached

(* Whatever people and their clients do. *)
LEMMA DeliveredClients ==
  ASSUME AInv, NEW p \in Person, User(p) \/ Client(p)
  PROVE  Delivered'
<1>0. /\ HInv /\ Typed /\ ClientTypes /\ Lines /\ Recorded /\ Delivered
      /\ down \in [Conn -> Seq(ServerMsgs)] /\ link \in [Conn -> {"up", "down"}] /\ NoConn \notin Conn
  BY HubAssumption DEF AInv, SInv, HInv, IInv, Typed
<1>1. UNCHANGED <<convs, history>>
  BY <1>0, ClientsSaveNothing
<1> SUFFICES ASSUME NEW q \in Person, NEW k \in Conn, NEW c \in ConvId, Served(q, k)'
             PROVE  Reached(q, k, c)'
  BY DEF Delivered
<1>2. Served(q, k)
  BY <1>0, ClientServes
<1>3. Reached(q, k, c) /\ lastSeq[q][c] \in Nat
  BY <1>0, <1>2 DEF Delivered, ClientTypes
<1>4. CASE Receive(p)
  BY <1>1, <1>2, <1>4, DeliveredReceive
<1>5. CASE ~Receive(p)
  <2>1. lastSeq'[q][c] = lastSeq[q][c] /\ shown'[q][c] = shown[q][c]
    <3>1. CASE Relaunch(p)
      <4>1. /\ lastSeq' = [lastSeq EXCEPT ![p] = [d \in ConvId |-> 0]]
            /\ shown' = [shown EXCEPT ![p] = [d \in ConvId |-> <<>>]]
            /\ conn' = [conn EXCEPT ![p] = NoConn]
        BY <3>1 DEF Relaunch
      <4>2. q # p
        BY <1>0, <4>1 DEF Served, ClientTypes
      <4> QED
        BY <1>0, <4>1, <4>2 DEF ClientTypes
    <3>2. CASE ~Relaunch(p)
      <4>1. UNCHANGED <<lastSeq, shown>>
        BY <1>5, <3>2 DEF User, UserSends, UserOpensDm, UserCreatesRoom, Type,
           Client, Dial, SayHello, Transmit, NoticeLinkDown
      <4> QED
        BY <4>1
    <3> QED
      BY <3>1, <3>2
  <2>2. UNCHANGED <<pend, rx>> /\ down'[k] = down[k]
    <3>1. CASE UNCHANGED vars
      BY <3>1 DEF vars
    <3>2. ASSUME NEW j \in Conn, Uses(j)
          PROVE  UNCHANGED <<pend, rx>> /\ down'[k] = down[k]
      <4>1. CASE CutLink(j)
        <5>1. j # k
          BY <1>0, <4>1 DEF CutLink, Served
        <5> QED
          BY <1>0, <4>1, <5>1 DEF CutLink
      <4>2. CASE Accept(j) \/ \E f \in Frames : ClientFrame(j, f)
        BY <4>2 DEF Accept, ClientFrame
      <4> QED
        BY <3>2, <4>1, <4>2 DEF Uses
    <3> QED
      BY <1>0, <1>5, <3>1, <3>2, ClientsOnTheWire
  <2>3. \A s : UnderWay(k, c, s) => UnderWay(k, c, s)'
    BY <2>2, WayStill
  <2>4. lastSeq'[q][c] \in Nat /\ lastSeq'[q][c] >= lastSeq[q][c]
    BY <1>3, <2>1
  <2> QED
    BY <1>0, <1>1, <1>3, <2>1, <2>3, <2>4, StaysReached
<1> QED
  BY <1>4, <1>5

(* At first nobody is registered. *)
LEMMA AInvInit ==
  ASSUME SysInit
  PROVE  AInv
<1>1. SInv /\ CInv
  BY SInvInit, CInvInit DEF SysInit
<1>2. Polite
  BY DEF SysInit, Init, Polite, Greeting, Idle
<1>3. TopShown
  BY DEF SysInit, TopShown
<1>4. Delivered
  BY HubAssumption DEF SysInit, Init, Delivered, Served
<1> QED
  BY <1>1, <1>2, <1>3, <1>4 DEF AInv

(* Every step keeps it. *)
LEMMA AInvStep ==
  ASSUME ~PersistMayFail, AInv, SysNext \/ UNCHANGED sysVars
  PROVE  AInv'
<1>0. SInv /\ CInv /\ Polite /\ TopShown /\ HInv /\ Typed /\ ClientTypes /\ Lines
  BY DEF AInv, SInv, HInv, IInv
<1>1. [Next]_vars
  BY <1>0, SystemIsHub
<1>2. SInv'
  BY <1>0, SInvStep
<1>3. CInv'
  BY <1>0, <1>1, CInvStep
<1>4. Polite' /\ TopShown'
  BY <1>0, <1>1, PoliteStep, TopShownStep
<1>5. Delivered'
  <2>1. CASE UNCHANGED sysVars
    BY <2>1 DEF AInv, Delivered, Served, Reached, Settled, UnderWay, Due, Entries, Pushers,
       sysVars, vars, client
  <2> QED
    BY <1>2, <2>1, DeliveredHub, DeliveredFailures, DeliveredClients DEF SysNext
<1> QED
  BY <1>2, <1>3, <1>4, <1>5 DEF AInv

(* With a disk that takes every write, nothing falls between the replay at *)
(* sign-in and the pushes that follow it: at any time, across lost links,  *)
(* restarts and reconnects, whatever was said in a conversation is to its  *)
(* connected member shown, on its way to her on the link she reads, her    *)
(* own, behind her mark or her cursor, or trimmed from the log.            *)
THEOREM EverythingAccounted ==
  ASSUME ~PersistMayFail
  PROVE  SysSpec => []Accounted
<1>1. AInv /\ [SysNext]_sysVars => AInv'
  BY AInvStep
<1>2. AInv => Accounted
  BY DeliveredAccounts
<1> QED
  BY <1>1, <1>2, AInvInit, PTL DEF SysSpec
====
