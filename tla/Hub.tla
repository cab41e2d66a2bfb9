-------------------------------- MODULE Hub --------------------------------
(***************************************************************************)
(* The family hub (crates/famchat-hub/src/lib.rs): one server process, one *)
(* handler task per connection, all of them sharing one state behind one   *)
(* mutex.  Every critical section is one step.  What a handler does AFTER  *)
(* releasing the mutex - pushing to the channels it cloned inside, sending *)
(* the welcome and the backlog - are steps of their own, so that handlers  *)
(* interleave as they do on a multi-threaded runtime.                      *)
(*                                                                         *)
(* The clients are left completely open here: any frame may arrive on any  *)
(* link at any time, a link may break between any two steps and the hub    *)
(* may crash.  HubSystem closes the loop with the desktop client.          *)
(*                                                                         *)
(* Abstractions.  Display names, titles and timestamps are left out.  A    *)
(* conversation's member list is a set.  An absent conversation is one     *)
(* with no member, an absent cursor is 0 (what the code reads in its       *)
(* place).  A sealed channel is a bounded queue that loses a suffix of     *)
(* what it holds when the link breaks.  The ids of rooms, 128 random bits, *)
(* are distinct.                                                           *)
(***************************************************************************)
EXTENDS Naturals, Sequences, FiniteSets

CONSTANTS
  Person,         \* member ids (device ids of the desktop client)
  Conn,           \* connection slots; a slot is reused once nothing refers to it
  Family,         \* FAMILY_ROOM, the id of the room everybody is in
  Room,           \* ids create_room may draw
  Text,           \* message bodies
  NoConn,         \* "no push channel" in the online map
  Nobody,         \* "has not said Hello"
  MaxLog,         \* MAX_LOG, entries a conversation keeps
  LinkCap,        \* frames a sealed channel queues before it refuses one
  PersistMayFail, \* whether persist() may fail (its errors are ignored)
  Kinds,          \* bound: the kinds of frame clients originate, a first Hello apart
  MaxPosts,       \* bound: messages posted in all, and the largest seq acknowledged
  MaxUp,          \* bound: frames waiting on one link to the hub
  MaxQueued       \* bound: no new connection or request with more messages queued

Dm == {{a, b} : a \in Person, b \in Person}   \* dm_id is symmetric in its arguments
ConvId == {Family} \cup Room \cup Dm

ASSUME HubAssumption ==
  /\ NoConn \notin Conn /\ Nobody \notin Person
  /\ MaxLog \in Nat \ {0} /\ LinkCap \in Nat \ {0}
  /\ MaxPosts \in Nat /\ MaxUp \in Nat /\ MaxQueued \in Nat
  /\ PersistMayFail \in BOOLEAN

VARIABLES
  members,  \* Persisted.members: who ever signed in
  convs,    \* Persisted.convs
  disk,     \* the state file: what Hub::load would read back
  online,   \* Hub.online: the push channel of each member, named by its connection
  phase,    \* where each handler is
  who,      \* the id a handler's connection signed in with
  pend,     \* what a handler still has to send after its last critical section
  rx,       \* the unbounded push queue of each handler
  link,     \* whether each connection is up
  up,       \* frames from the client that the handler has not read
  down      \* frames to the client that it has not read

store == <<members, convs, disk>>
wire == <<link, up, down>>
vars == <<members, convs, disk, online, phase, who, pend, rx, link, up, down>>

-----------------------------------------------------------------------------
(* Messages *)

Hello(q) == [t |-> "hello", id |-> q]
Send(c, x) == [t |-> "send", conv |-> c, text |-> x]
Ack(c, s) == [t |-> "ack", conv |-> c, seq |-> s]
OpenDm(q) == [t |-> "open_dm", peer |-> q]
CreateRoom(S) == [t |-> "create_room", members |-> S]

Frames ==
  [t : {"hello"}, id : Person] \cup
  [t : {"send"}, conv : ConvId, text : Text] \cup
  [t : {"ack"}, conv : ConvId, seq : 0 .. MaxPosts] \cup
  [t : {"open_dm"}, peer : Person] \cup
  [t : {"create_room"}, members : SUBSET Person]

Entry == [seq : Nat, from : Person, text : Text]

Msg(c, e) == [t |-> "msg", conv |-> c, seq |-> e.seq, from |-> e.from, text |-> e.text]

Msgs == [t : {"msg"}, conv : ConvId, seq : Nat, from : Person, text : Text]
Welcomes == [t : {"welcome"}, members : SUBSET Person,
             convs : SUBSET ConvId, online : SUBSET Person]
Notices ==
  [t : {"members"}, members : SUBSET Person] \cup
  [t : {"presence"}, online : SUBSET Person] \cup
  [t : {"conv"}, conv : ConvId]
ServerMsgs == Msgs \cup Welcomes \cup Notices

-----------------------------------------------------------------------------
(* Conversations *)

NoConv == [members |-> {}, log |-> <<>>,
           cursors |-> [q \in Person |-> 0], nextSeq |-> 0]

Conv == [members : SUBSET Person, log : Seq(Entry),
         cursors : [Person -> Nat], nextSeq : Nat]

NewConv(S) == [NoConv EXCEPT !.members = S]

Has(conv, q) == q \in conv.members

(* Mutant of Trim: the oldest entries are kept.                            *)
TrimNewest(log, n) == IF Len(log) > n THEN SubSeq(log, 1, n) ELSE log

(* The last n entries of a log at most: log.drain(0..excess). *)
Trim(log, n) ==
  IF Len(log) > n THEN SubSeq(log, Len(log) - n + 1, Len(log)) ELSE log

(* Mutant of Posted: everybody's cursor moves as if the push were delivery. *)
PostedToAll(conv, q, x) ==
  LET s == conv.nextSeq + 1
  IN [conv EXCEPT !.nextSeq = s,
                  !.log = Trim(Append(@, [seq |-> s, from |-> q, text |-> x]), MaxLog),
                  !.cursors = [p \in Person |-> IF p \in conv.members THEN s ELSE @[p]]]

(* do_send's update of the conversation: the next seq, the entry, the      *)
(* sender's own cursor moved to it, the oldest entries dropped.            *)
Posted(conv, q, x) ==
  LET s == conv.nextSeq + 1
  IN [conv EXCEPT !.nextSeq = s,
                  !.log = Trim(Append(@, [seq |-> s, from |-> q, text |-> x]), MaxLog),
                  !.cursors[q] = s]

(* Mutant of Acked: the cursor is set, not raised.                         *)
AckedAsTold(conv, q, s) == [conv EXCEPT !.cursors[q] = s]

Acked(conv, q, s) ==
  [conv EXCEPT !.cursors[q] = IF s > @ THEN s ELSE @]

(* Mutant of Unread: off by one.                                           *)
UnreadButOne(conv, q) ==
  {conv.log[i] : i \in {j \in 1 .. Len(conv.log) : conv.log[j].seq > conv.cursors[q] + 1}}

Unread(conv, q) ==
  {conv.log[i] : i \in {j \in 1 .. Len(conv.log) : conv.log[j].seq > conv.cursors[q]}}

BacklogFor(cs, q) ==
  UNION {{Msg(c, e) : e \in Unread(cs[c], q)} : c \in {d \in ConvId : Has(cs[d], q)}}

MetasFor(cs, q) == {c \in ConvId : Has(cs[c], q)}

OnlineIds(on) == {q \in Person : on[q] # NoConn}

(* Mutants of Recipients: the sender too; everybody who is online.         *)
RecipientsAndSender(conv, q) == conv.members
RecipientsAnybody(conv, q) == Person \ {q}

(* Whom a message is pushed to. *)
Recipients(conv, q) == conv.members \ {q}

(* Mutant of PushesFor: no check that there is a channel.                  *)
PushesForOffline(on, S) == {on[q] : q \in S}

(* pushes_for: the channels of the online people among S. *)
PushesFor(on, S) == {on[q] : q \in S \cap OnlineIds(on)}

-----------------------------------------------------------------------------
(* What a handler carries out of its critical section.  `push` goes to the *)
(* queue of every connection in `to`, after the welcome and the backlog    *)
(* have been sent on the handler's own link.                               *)

Idle == [welcome |-> <<>>, backlog |-> {}, push |-> <<>>, to |-> {}]

Pushing(msgs, targets) ==
  IF targets = {} THEN Idle ELSE [Idle EXCEPT !.push = msgs, !.to = targets]

(* The handler is back in its select loop. *)
AtSelect(k) == phase[k] = "serving" /\ pend[k] = Idle

(* persist(): the whole state replaces the file atomically (write to a    *)
(* temporary, rename), or the error is ignored and the old file stays.     *)
Persist(ms, cs) ==
  \/ disk' = [members |-> ms, convs |-> cs]
  \/ PersistMayFail /\ UNCHANGED disk

Init ==
  /\ members = {}
  /\ convs = [c \in ConvId |-> NoConv]
  /\ disk = [members |-> {}, convs |-> [c \in ConvId |-> NoConv]]
  /\ online = [q \in Person |-> NoConn]
  /\ phase = [k \in Conn |-> "free"]
  /\ who = [k \in Conn |-> Nobody]
  /\ pend = [k \in Conn |-> Idle]
  /\ rx = [k \in Conn |-> <<>>]
  /\ link = [k \in Conn |-> "down"]
  /\ up = [k \in Conn |-> <<>>]
  /\ down = [k \in Conn |-> <<>>]

-----------------------------------------------------------------------------
(* The environment: clients and the network *)

Referenced(k) ==
  \/ \E q \in Person : online[q] = k
  \/ \E j \in Conn : k \in pend[j].to

QueuesShort == \A j \in Conn : Len(rx[j]) + Len(down[j]) <= MaxQueued

(* serve(): a link was established and the sealed channel with it; a task  *)
(* is spawned for it.                                                      *)
Accept(k) ==
  /\ phase[k] = "free" /\ ~Referenced(k)
  /\ QueuesShort
  /\ phase' = [phase EXCEPT ![k] = "hello"]
  /\ link' = [link EXCEPT ![k] = "up"]
  /\ UNCHANGED <<store, online, who, pend, rx, up, down>>

Waiting == {w \in Conn \X (1 .. MaxUp) : w[2] \in DOMAIN up[w[1]]}
InFlight(type) == Cardinality({w \in Waiting : up[w[1]][w[2]].t = type})
Posts == UNION {{c} \X (1 .. convs[c].nextSeq) : c \in ConvId}

UnusedRooms == {r \in Room : convs[r].members = {}}

(* What bounds the frames a client may originate. *)
WithinBounds(k, f) ==
  /\ Len(up[k]) < MaxUp
  /\ f.t \in Kinds \/ (f.t = "hello" /\ phase[k] = "hello" /\ up[k] = <<>>)
  /\ f.t = "send" => Cardinality(Posts) + InFlight("send") < MaxPosts
  /\ f.t = "create_room" => Cardinality(UnusedRooms) > InFlight("create_room")
  /\ f.t \in {"ack", "open_dm", "create_room"} => QueuesShort

ClientFrame(k, f) ==
  /\ link[k] = "up" /\ WithinBounds(k, f)
  /\ up' = [up EXCEPT ![k] = Append(@, f)]
  /\ UNCHANGED <<store, online, phase, who, pend, rx, link, down>>

Deliver(k) ==
  /\ down[k] # <<>>
  /\ down' = [down EXCEPT ![k] = Tail(@)]
  /\ UNCHANGED <<store, online, phase, who, pend, rx, link, up>>

(* The link breaks.  The handler still reads the frames that had arrived,  *)
(* a prefix.  The client does too, but nothing tells its reading them just *)
(* before the break from just after, so they are lost here.                *)
CutLink(k) ==
  /\ link[k] = "up"
  /\ link' = [link EXCEPT ![k] = "down"]
  /\ \E n \in 0 .. Len(up[k]) : up' = [up EXCEPT ![k] = SubSeq(@, 1, n)]
  /\ down' = [down EXCEPT ![k] = <<>>]
  /\ UNCHANGED <<store, online, phase, who, pend, rx>>

(* The process dies and starts again from its state file. *)
Crash ==
  /\ members' = disk.members /\ convs' = disk.convs
  /\ online' = [q \in Person |-> NoConn]
  /\ phase' = [k \in Conn |-> "free"]
  /\ who' = [k \in Conn |-> Nobody]
  /\ pend' = [k \in Conn |-> Idle]
  /\ rx' = [k \in Conn |-> <<>>]
  /\ link' = [k \in Conn |-> "down"]
  /\ up' = [k \in Conn |-> <<>>]
  /\ down' = [k \in Conn |-> <<>>]
  /\ UNCHANGED disk

-----------------------------------------------------------------------------
(* The handler task *)

(* The task returns: its queue and both halves of its channel are dropped. *)
TaskEnds(k) ==
  /\ phase' = [phase EXCEPT ![k] = "free"]
  /\ who' = [who EXCEPT ![k] = Nobody]
  /\ rx' = [rx EXCEPT ![k] = <<>>]
  /\ link' = [link EXCEPT ![k] = "down"]
  /\ up' = [up EXCEPT ![k] = <<>>]
  /\ down' = [down EXCEPT ![k] = <<>>]
  /\ pend' = [pend EXCEPT ![k] = Idle]

NextFrame(k, type) == up[k] # <<>> /\ Head(up[k]).t = type
Consume(k) == up' = [up EXCEPT ![k] = Tail(@)]

(* Before Hello every other frame is dropped. *)
DropEarlyFrame(k) ==
  /\ phase[k] = "hello" /\ up[k] # <<>> /\ ~NextFrame(k, "hello")
  /\ Consume(k)
  /\ UNCHANGED <<store, online, phase, who, pend, rx, link, down>>

GiveUpHello(k) ==
  /\ phase[k] = "hello" /\ up[k] = <<>> /\ link[k] = "down"
  /\ TaskEnds(k)
  /\ UNCHANGED <<store, online>>

(* The sign-in critical section: directory, family room, push channel     *)
(* (replacing whichever was there), persist, and snapshots of all the      *)
(* handler is going to send.                                               *)
SignIn(k) ==
  /\ phase[k] = "hello" /\ NextFrame(k, "hello")
  /\ LET q == Head(up[k]).id
         ms == members \cup {q}
         cs == [convs EXCEPT ![Family].members = @ \cup {q}]
         on == [online EXCEPT ![q] = k]
     IN /\ Persist(ms, cs)
        /\ members' = ms /\ convs' = cs /\ online' = on
        /\ who' = [who EXCEPT ![k] = q]
        /\ pend' = [pend EXCEPT ![k] =
             [welcome |-> <<[t |-> "welcome", members |-> ms,
                             convs |-> MetasFor(cs, q), online |-> OnlineIds(on)]>>,
              backlog |-> BacklogFor(cs, q),
              push |-> <<[t |-> "members", members |-> ms],
                         [t |-> "presence", online |-> OnlineIds(on)]>>,
              to |-> PushesFor(on, Person)]]
  /\ phase' = [phase EXCEPT ![k] = "serving"]
  /\ Consume(k)
  /\ UNCHANGED <<rx, link, down>>

(* sender.send: queued on a working link, or swallowed by a broken one    *)
(* whose end has not noticed; refused when broken or full.                 *)
SendOn(k, m) ==
  \/ /\ link[k] = "up" /\ Len(down[k]) < LinkCap
     /\ down' = [down EXCEPT ![k] = Append(@, m)]
  \/ link[k] = "down" /\ UNCHANGED down
Refused(k) == link[k] = "down" \/ Len(down[k]) >= LinkCap

(* Mutant of SendWelcome: the backlog is read once the welcome is out.     *)
SendWelcomeThenRead(k) ==
  /\ phase[k] = "serving" /\ pend[k].welcome # <<>>
  /\ SendOn(k, pend[k].welcome[1])
  /\ pend' = [pend EXCEPT ![k] =
       [@ EXCEPT !.welcome = <<>>, !.backlog = BacklogFor(convs, who[k])]]
  /\ UNCHANGED <<store, online, phase, who, rx, link, up>>

SendWelcome(k) ==
  /\ phase[k] = "serving" /\ pend[k].welcome # <<>>
  /\ SendOn(k, pend[k].welcome[1])
  /\ pend' = [pend EXCEPT ![k].welcome = <<>>]
  /\ UNCHANGED <<store, online, phase, who, rx, link, up>>

(* Within a conversation the backlog goes out in log order; the order of  *)
(* the conversations is that of a HashMap.                                 *)
SendBacklog(k) ==
  /\ phase[k] = "serving" /\ pend[k].welcome = <<>>
  /\ \E m \in pend[k].backlog :
       /\ \A n \in pend[k].backlog : n.conv = m.conv => m.seq <= n.seq
       /\ SendOn(k, m)
       /\ pend' = [pend EXCEPT ![k].backlog = @ \ {m}]
  /\ UNCHANGED <<store, online, phase, who, rx, link, up>>

(* The welcome or a backlog message is refused: go_offline removes the     *)
(* push channel under this id and the task returns without telling anyone. *)
GoOffline(k) ==
  /\ phase[k] = "serving"
  /\ pend[k].welcome # <<>> \/ pend[k].backlog # {}
  /\ Refused(k)
  /\ online' = [online EXCEPT ![who[k]] = NoConn]
  /\ TaskEnds(k)
  /\ UNCHANGED store

(* One `t.send(m)`: the receiving half may be gone already. *)
Push(k) ==
  /\ pend[k].welcome = <<>> /\ pend[k].backlog = {}
  /\ \E j \in pend[k].to :
       /\ rx' = [rx EXCEPT ![j] = IF phase[j] = "serving" THEN @ \o pend[k].push ELSE @]
       /\ pend' = [pend EXCEPT ![k] =
            IF pend[k].to = {j} THEN Idle ELSE [pend[k] EXCEPT !.to = @ \ {j}]]
  /\ UNCHANGED <<store, online, phase, who, wire>>

(* Mutant of Leave: the push channel stays.                                *)
LeaveOnline(k) ==
  /\ phase' = [phase EXCEPT ![k] = "leaving"]
  /\ pend' = [pend EXCEPT ![k] =
       Pushing(<<[t |-> "presence", online |-> OnlineIds(online)]>>, PushesFor(online, Person))]
  /\ UNCHANGED <<store, online, who, rx, wire>>

(* The loop breaks: the push channel under this id is removed, whichever   *)
(* connection put it there, and the others are told.                       *)
Leave(k) ==
  LET on == [online EXCEPT ![who[k]] = NoConn]
  IN /\ online' = on
     /\ phase' = [phase EXCEPT ![k] = "leaving"]
     /\ pend' = [pend EXCEPT ![k] =
          Pushing(<<[t |-> "presence", online |-> OnlineIds(on)]>>, PushesFor(on, Person))]
     /\ UNCHANGED <<store, who, rx, wire>>

(* Mutant of ForwardPush: a full channel loses the message.                *)
ForwardPushOrDrop(k) ==
  /\ AtSelect(k) /\ rx[k] # <<>>
  /\ SendOn(k, Head(rx[k])) \/ (link[k] = "up" /\ Len(down[k]) >= LinkCap /\ UNCHANGED down)
  /\ rx' = [rx EXCEPT ![k] = Tail(@)]
  /\ UNCHANGED <<store, online, phase, who, pend, link, up>>

ForwardPush(k) ==
  /\ AtSelect(k) /\ rx[k] # <<>>
  /\ SendOn(k, Head(rx[k]))
  /\ rx' = [rx EXCEPT ![k] = Tail(@)]
  /\ UNCHANGED <<store, online, phase, who, pend, link, up>>

PushRefused(k) == AtSelect(k) /\ rx[k] # <<>> /\ Refused(k) /\ Leave(k)

(* Mutant of LinkEnded: a dead link is only noticed with a push to send.   *)
LinkEndedWhenPushing(k) ==
  AtSelect(k) /\ up[k] = <<>> /\ link[k] = "down" /\ rx[k] # <<>> /\ Leave(k)

LinkEnded(k) == AtSelect(k) /\ up[k] = <<>> /\ link[k] = "down" /\ Leave(k)

EndTask(k) ==
  /\ phase[k] = "leaving" /\ pend[k].to = {}
  /\ TaskEnds(k)
  /\ UNCHANGED <<store, online>>

(* Mutant of HandleSend: nothing is persisted.                             *)
HandleSendInMemory(k) ==
  /\ AtSelect(k) /\ NextFrame(k, "send")
  /\ LET c == Head(up[k]).conv
         q == who[k]
         conv == Posted(convs[c], q, Head(up[k]).text)
         to == PushesFor(online, Recipients(conv, q))
     IN IF Has(convs[c], q)
        THEN /\ convs' = [convs EXCEPT ![c] = conv]
             /\ pend' = [pend EXCEPT ![k] =
                  Pushing(<<Msg(c, conv.log[Len(conv.log)])>>, to)]
        ELSE UNCHANGED <<convs, pend>>
  /\ Consume(k)
  /\ UNCHANGED <<members, disk, online, phase, who, rx, link, down>>

(* do_send, and the push of the message to the online members but the      *)
(* sender once the lock is released.                                       *)
HandleSend(k) ==
  /\ AtSelect(k) /\ NextFrame(k, "send")
  /\ LET c == Head(up[k]).conv
         q == who[k]
         conv == Posted(convs[c], q, Head(up[k]).text)
         cs == [convs EXCEPT ![c] = conv]
         to == PushesFor(online, Recipients(conv, q))
     IN IF Has(convs[c], q)
        THEN /\ Persist(members, cs) /\ convs' = cs
             /\ pend' = [pend EXCEPT ![k] =
                  Pushing(<<Msg(c, conv.log[Len(conv.log)])>>, to)]
        ELSE UNCHANGED <<convs, disk, pend>>
  /\ Consume(k)
  /\ UNCHANGED <<members, online, phase, who, rx, link, down>>

(* Acknowledge: no check that the conversation is the client's own, nor    *)
(* that the seq was ever given out; nothing is created for an unknown one. *)
HandleAck(k) ==
  /\ AtSelect(k) /\ NextFrame(k, "ack")
  /\ LET c == Head(up[k]).conv
         cs == IF convs[c].members = {} THEN convs
               ELSE [convs EXCEPT ![c] = Acked(@, who[k], Head(up[k]).seq)]
     IN Persist(members, cs) /\ convs' = cs
  /\ Consume(k)
  /\ UNCHANGED <<members, online, phase, who, pend, rx, link, down>>

(* Mutant of HandleOpenDm: an existing conversation is made anew.          *)
HandleOpenDmAnew(k) ==
  /\ AtSelect(k) /\ NextFrame(k, "open_dm")
  /\ LET c == {who[k], Head(up[k]).peer}
         cs == [convs EXCEPT ![c] = NewConv(c)]
     IN /\ Persist(members, cs) /\ convs' = cs
        /\ pend' = [pend EXCEPT ![k] =
             Pushing(<<[t |-> "conv", conv |-> c]>>, PushesFor(online, c))]
  /\ Consume(k)
  /\ UNCHANGED <<members, online, phase, who, rx, link, down>>

(* open_dm: an existing conversation is only announced again.  A DM with   *)
(* oneself lists its member twice and is announced twice.                  *)
HandleOpenDm(k) ==
  /\ AtSelect(k) /\ NextFrame(k, "open_dm")
  /\ LET c == {who[k], Head(up[k]).peer}
         cs == [convs EXCEPT ![c] = NewConv(c)]
         m == [t |-> "conv", conv |-> c]
     IN /\ IF convs[c].members = {}
           THEN Persist(members, cs) /\ convs' = cs
           ELSE UNCHANGED <<convs, disk>>
        /\ pend' = [pend EXCEPT ![k] =
             Pushing(IF Cardinality(c) = 1 THEN <<m, m>> ELSE <<m>>,
                     PushesFor(online, c))]
  /\ Consume(k)
  /\ UNCHANGED <<members, online, phase, who, rx, link, down>>

HandleCreateRoom(k) ==
  /\ AtSelect(k) /\ NextFrame(k, "create_room")
  /\ \E r \in UnusedRooms :
       LET S == Head(up[k]).members \cup {who[k]}
           cs == [convs EXCEPT ![r] = NewConv(S)]
           to == PushesFor(online, S)
       IN /\ Persist(members, cs) /\ convs' = cs
          /\ pend' = [pend EXCEPT ![k] =
               Pushing(<<[t |-> "conv", conv |-> r]>>, to)]
  /\ Consume(k)
  /\ UNCHANGED <<members, online, phase, who, rx, link, down>>

(* A second Hello on a signed-in connection is ignored. *)
IgnoreHello(k) ==
  /\ AtSelect(k) /\ NextFrame(k, "hello")
  /\ Consume(k)
  /\ UNCHANGED <<store, online, phase, who, pend, rx, link, down>>

-----------------------------------------------------------------------------

Greet(k) == SendWelcome(k) \/ SendBacklog(k) \/ GoOffline(k)
HandleFrame(k) ==
  \/ HandleSend(k) \/ HandleAck(k) \/ HandleOpenDm(k)
  \/ HandleCreateRoom(k) \/ IgnoreHello(k)
Handler(k) ==
  \/ DropEarlyFrame(k) \/ GiveUpHello(k) \/ SignIn(k) \/ Greet(k) \/ Push(k)
  \/ HandleFrame(k) \/ ForwardPush(k) \/ PushRefused(k) \/ LinkEnded(k) \/ EndTask(k)
Network(k) == Accept(k) \/ Deliver(k) \/ CutLink(k)

Next ==
  \/ \E k \in Conn : Handler(k) \/ Network(k) \/ \E f \in Frames : ClientFrame(k, f)
  \/ Crash

Spec == Init /\ [][Next]_vars

-----------------------------------------------------------------------------
(* Properties *)

TypeOK ==
  /\ members \in SUBSET Person
  /\ convs \in [ConvId -> Conv]
  /\ disk \in [members : SUBSET Person, convs : [ConvId -> Conv]]
  /\ online \in [Person -> Conn \cup {NoConn}]
  /\ phase \in [Conn -> {"free", "hello", "serving", "leaving"}]
  /\ who \in [Conn -> Person \cup {Nobody}]
  /\ pend \in [Conn -> [welcome : Seq(Welcomes), backlog : SUBSET Msgs,
                        push : Seq(Msgs \cup Notices), to : SUBSET Conn]]
  /\ rx \in [Conn -> Seq(Msgs \cup Notices)]
  /\ link \in [Conn -> {"up", "down"}]
  /\ up \in [Conn -> Seq(Frames)]
  /\ down \in [Conn -> Seq(ServerMsgs)]

(* hub.rs: "Every conversation has a monotonic seq": whatever was trimmed, *)
(* lost or reloaded, a log holds the latest entries, numbered without gap  *)
(* or repetition up to the last seq given out.                             *)
LogContiguous ==
  \A c \in ConvId :
    LET log == convs[c].log
    IN /\ Len(log) = (IF convs[c].nextSeq < MaxLog THEN convs[c].nextSeq ELSE MaxLog)
       /\ \A i \in 1 .. Len(log) : log[i].seq = convs[c].nextSeq - Len(log) + i

(* A message is only ever on its way to a member of its conversation: in   *)
(* no push under way, push queue, pending replay or link of anyone else,   *)
(* however sign-ins, stale channels and posts interleave.                  *)
MaySee(q, m) == m.t = "msg" => q \in convs[m.conv].members
OnlyMembersReceive ==
  \A k \in Conn :
    /\ \A m \in pend[k].backlog : MaySee(who[k], m)
    /\ \A j \in pend[k].to, i \in DOMAIN pend[k].push :
         phase[j] = "serving" => MaySee(who[j], pend[k].push[i])
    /\ \A i \in DOMAIN rx[k] : MaySee(who[k], rx[k][i])
    /\ \A i \in DOMAIN down[k] : MaySee(who[k], down[k][i])

(* The online map never names the connection of somebody else, or one     *)
(* whose handler has stopped forwarding: a push cannot vanish there.       *)
PushesAreLive ==
  \A q \in Person : online[q] # NoConn =>
    phase[online[q]] = "serving" /\ who[online[q]] = q

(* Sign-in registers the push channel and reads the backlog under one     *)
(* lock: a message can be replayed to a connection or pushed to it, never  *)
(* both, and never twice.                                                  *)
Copies(k, c, s) ==
  LET Is(m) == m.t = "msg" /\ m.conv = c /\ m.seq = s
  IN Cardinality({m \in pend[k].backlog : Is(m)})
     + Cardinality({i \in DOMAIN rx[k] : Is(rx[k][i])})
     + Cardinality({i \in DOMAIN down[k] : Is(down[k][i])})
     + Cardinality({j \in Conn : k \in pend[j].to /\ Is(pend[j].push[1])})
AtMostOneCopy ==
  \A k \in Conn, c \in ConvId : \A s \in 1 .. convs[c].nextSeq : Copies(k, c, s) <= 1

(* Nothing is shown to anyone before it is on disk: every seq in a queue   *)
(* or on a link is at most the one the state file would resume from.       *)
ToldIsDurable ==
  \A k \in Conn :
    LET OnDisk(m) == m.t = "msg" => m.seq <= disk.convs[m.conv].nextSeq
    IN /\ \A m \in pend[k].backlog : OnDisk(m)
       /\ \A i \in DOMAIN rx[k] : OnDisk(rx[k][i])
       /\ \A i \in DOMAIN down[k] : OnDisk(down[k][i])

(* A seq names one message for ever: no step, a crash and a reload         *)
(* included, numbers two messages alike or takes a number back.            *)
HistoryImmutable ==
  [][\A c \in ConvId :
       /\ convs'[c].nextSeq >= convs[c].nextSeq
       /\ \A i \in DOMAIN convs[c].log, j \in DOMAIN convs'[c].log :
            convs[c].log[i].seq = convs'[c].log[j].seq => convs[c].log[i] = convs'[c].log[j]]_vars

(* What somebody acknowledged, by an Ack or by posting, is never replayed   *)
(* again: no step, a crash included, takes a cursor back below it.  (A      *)
(* cursor an Ack put beyond the last seq may come back to that seq.)       *)
AckedStaysAcked ==
  [][\A c \in ConvId, q \in Person :
       LET was == convs[c].cursors[q]
       IN convs'[c].cursors[q] >= (IF was < convs[c].nextSeq THEN was
                                   ELSE convs[c].nextSeq)]_vars

(* A handler whose link is gone always ends: no task, queue or "online"   *)
(* mark is left behind for ever.  (Fairness: see HubSystem.)               *)
DeadLinkIsReaped ==
  \A k \in Conn : link[k] = "down" ~> phase[k] = "free" \/ link[k] = "up"
====
