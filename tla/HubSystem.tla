----------------------------- MODULE HubSystem -----------------------------
(***************************************************************************)
(* The hub and the desktop clients that talk to it: drive_hub and the hub  *)
(* commands of src-tauri/src/main.rs on one side of each link, the         *)
(* handlers of module Hub on the other.  One device per person.            *)
(*                                                                         *)
(* A client dials, says Hello, then pumps: frames the user typed go out,   *)
(* server messages go to the UI unless their seq is at or below the mark   *)
(* of their conversation.  When the link drops it dials again, keeping its *)
(* marks and its outgoing queue.  It never sends an Ack.                   *)
(***************************************************************************)
EXTENDS Hub

CONSTANTS
  MaxOut,   \* bound: frames typed and not yet sent by one client
  MaxAsks,  \* bound: DMs and rooms asked for
  MaxBreaks \* bound: links the network breaks, crashes of the hub, relaunches

ASSUME SystemAssumption == MaxOut \in Nat \ {0} /\ MaxAsks \in Nat /\ MaxBreaks \in Nat

VARIABLES
  stage,    \* where drive_hub is: "dialing", "greeting" or "pumping"
  conn,     \* the connection it uses
  outq,     \* hub_tx/out_rx: frames the commands queued
  lastSeq,  \* emit_hub's high-water mark per conversation
  roster,   \* hub.dir, hub.online and hub.convs of the UI's sidebar
  shown,    \* history: per conversation, the seqs shown since the program started
  typed,    \* history: message bodies already typed
  asked,    \* history: DMs and rooms asked for so far
  history,  \* history: per conversation, every message the hub accepted
  breaks    \* history: breaks, crashes and relaunches so far

client == <<stage, conn, outq, lastSeq, roster, shown, typed, asked>>
sysVars == <<vars, client, history, breaks>>

NoRoster == [members |-> {}, online |-> {}, convs |-> {}]

SysInit ==
  /\ Init
  /\ stage = [q \in Person |-> "dialing"]
  /\ conn = [q \in Person |-> NoConn]
  /\ outq = [q \in Person |-> <<>>]
  /\ lastSeq = [q \in Person |-> [c \in ConvId |-> 0]]
  /\ roster = [q \in Person |-> NoRoster]
  /\ shown = [q \in Person |-> [c \in ConvId |-> <<>>]]
  /\ typed = {} /\ asked = 0
  /\ history = [c \in ConvId |-> <<>>]
  /\ breaks = 0

-----------------------------------------------------------------------------
(* What people do *)

Type(q, f) ==
  /\ Len(outq[q]) < MaxOut
  /\ outq' = [outq EXCEPT ![q] = Append(@, f)]
  /\ UNCHANGED <<vars, stage, conn, lastSeq, roster, shown, history, breaks>>

(* hub_send: accepted as soon as it is queued, whatever the link does. *)
UserSends(q, c, x) ==
  /\ "send" \in Kinds
  /\ c \in roster[q].convs /\ x \notin typed
  /\ Type(q, Send(c, x))
  /\ typed' = typed \cup {x} /\ UNCHANGED asked

Asks == asked < MaxAsks /\ asked' = asked + 1

(* Mutant of UserOpensDm: the conversation is asked for, not the peer.     *)
UserOpensConv(q, r) ==
  /\ "open_dm" \in Kinds
  /\ r \in roster[q].members \ {q} /\ {q, r} \notin roster[q].convs
  /\ Type(q, OpenDm({q, r}))
  /\ Asks /\ UNCHANGED typed

(* openDm: only for a conversation the UI does not know yet. *)
UserOpensDm(q, r) ==
  /\ "open_dm" \in Kinds
  /\ r \in roster[q].members \ {q} /\ {q, r} \notin roster[q].convs
  /\ Type(q, OpenDm(r))
  /\ Asks /\ UNCHANGED typed

UserCreatesRoom(q, S) ==
  /\ "create_room" \in Kinds
  /\ S \subseteq roster[q].members \ {q}
  /\ Type(q, CreateRoom(S))
  /\ Asks /\ UNCHANGED typed

(* The program is closed (or the hub left) and started again: everything   *)
(* it knew of the hub was in memory.                                       *)
Relaunch(q) ==
  /\ breaks < MaxBreaks /\ breaks' = breaks + 1
  /\ IF conn[q] # NoConn /\ link[conn[q]] = "up" THEN CutLink(conn[q]) ELSE UNCHANGED vars
  /\ stage' = [stage EXCEPT ![q] = "dialing"]
  /\ conn' = [conn EXCEPT ![q] = NoConn]
  /\ outq' = [outq EXCEPT ![q] = <<>>]
  /\ lastSeq' = [lastSeq EXCEPT ![q] = [c \in ConvId |-> 0]]
  /\ roster' = [roster EXCEPT ![q] = NoRoster]
  /\ shown' = [shown EXCEPT ![q] = [c \in ConvId |-> <<>>]]
  /\ UNCHANGED <<typed, asked, history>>

-----------------------------------------------------------------------------
(* drive_hub *)

(* Mutant of Dial: it only dials when there is something to send.          *)
DialToSend(q) ==
  /\ stage[q] = "dialing" /\ outq[q] # <<>>
  /\ \E k \in Conn \ {conn[r] : r \in Person} :
       Accept(k) /\ conn' = [conn EXCEPT ![q] = k]
  /\ stage' = [stage EXCEPT ![q] = "greeting"]
  /\ UNCHANGED <<outq, lastSeq, roster, shown, typed, asked, history, breaks>>

Dial(q) ==
  /\ stage[q] = "dialing"
  /\ \E k \in Conn \ {conn[r] : r \in Person} :
       Accept(k) /\ conn' = [conn EXCEPT ![q] = k]
  /\ stage' = [stage EXCEPT ![q] = "greeting"]
  /\ UNCHANGED <<outq, lastSeq, roster, shown, typed, asked, history, breaks>>

(* The result of sending Hello is ignored. *)
SayHello(q) ==
  /\ stage[q] = "greeting"
  /\ IF link[conn[q]] = "up" THEN ClientFrame(conn[q], Hello(q)) ELSE UNCHANGED vars
  /\ stage' = [stage EXCEPT ![q] = "pumping"]
  /\ UNCHANGED <<conn, outq, lastSeq, roster, shown, typed, asked, history, breaks>>

HangUp(q) ==
  /\ stage' = [stage EXCEPT ![q] = "dialing"]
  /\ conn' = [conn EXCEPT ![q] = NoConn]

(* The head of out_rx is taken off before it is sent: whatever becomes of  *)
(* the send, it is gone from the queue.                                    *)
Transmit(q) ==
  /\ stage[q] = "pumping" /\ outq[q] # <<>>
  /\ outq' = [outq EXCEPT ![q] = Tail(@)]
  /\ \/ /\ link[conn[q]] = "up" /\ Len(up[conn[q]]) < LinkCap
        /\ ClientFrame(conn[q], Head(outq[q]))
        /\ UNCHANGED <<stage, conn>>
     \/ /\ link[conn[q]] = "down"
        /\ UNCHANGED <<vars, stage, conn>>
     \/ /\ link[conn[q]] = "down"
        /\ UNCHANGED vars /\ HangUp(q)
     \/ /\ link[conn[q]] = "up" /\ Len(up[conn[q]]) >= LinkCap
        /\ CutLink(conn[q]) /\ HangUp(q)
  /\ UNCHANGED <<lastSeq, roster, shown, typed, asked, history, breaks>>

(* Mutant of Fresh: the last message seen passes again.                    *)
FreshOrLast(q, m) == m.seq >= lastSeq[q][m.conv]

(* emit_hub: only a seq above the conversation's mark goes to the UI.      *)
Fresh(q, m) == m.seq > lastSeq[q][m.conv]

(* emit_hub, then the UI's 'hub' listener. *)
Receive(q) ==
  /\ stage[q] = "pumping" /\ down[conn[q]] # <<>>
  /\ Deliver(conn[q])
  /\ LET m == Head(down[conn[q]])
     IN CASE m.t = "msg" /\ Fresh(q, m) ->
               /\ lastSeq' = [lastSeq EXCEPT ![q][m.conv] = m.seq]
               /\ shown' = [shown EXCEPT ![q][m.conv] = Append(@, m.seq)]
               /\ UNCHANGED roster
          [] m.t = "welcome" ->
               /\ roster' = [roster EXCEPT ![q] =
                    [members |-> m.members, online |-> m.online, convs |-> m.convs]]
               /\ UNCHANGED <<lastSeq, shown>>
          [] m.t = "members" ->
               /\ roster' = [roster EXCEPT ![q].members = m.members]
               /\ UNCHANGED <<lastSeq, shown>>
          [] m.t = "presence" ->
               /\ roster' = [roster EXCEPT ![q].online = m.online]
               /\ UNCHANGED <<lastSeq, shown>>
          [] m.t = "conv" ->
               /\ roster' = [roster EXCEPT ![q].convs = @ \cup {m.conv}]
               /\ UNCHANGED <<lastSeq, shown>>
          [] OTHER -> UNCHANGED <<lastSeq, shown, roster>>
  /\ UNCHANGED <<stage, conn, outq, typed, asked, history, breaks>>

NoticeLinkDown(q) ==
  /\ stage[q] = "pumping" /\ link[conn[q]] = "down"
  /\ HangUp(q)
  /\ UNCHANGED <<vars, outq, lastSeq, roster, shown, typed, asked, history, breaks>>

-----------------------------------------------------------------------------
(* The hub's own steps, with the history they make. *)

Record ==
  history' = [c \in ConvId |->
    IF convs'[c].nextSeq > convs[c].nextSeq
    THEN Append(history[c], convs'[c].log[Len(convs'[c].log)])
    ELSE history[c]]

HubStep(k) == Handler(k) /\ Record /\ UNCHANGED <<client, breaks>>
Failures ==
  /\ breaks < MaxBreaks /\ breaks' = breaks + 1
  /\ Crash \/ \E k \in Conn : CutLink(k)
  /\ UNCHANGED <<client, history>>

User(q) ==
  \/ \E c \in ConvId, x \in Text : UserSends(q, c, x)
  \/ \E r \in Person : UserOpensDm(q, r)
  \/ \E S \in SUBSET Person : UserCreatesRoom(q, S)
  \/ Relaunch(q)
Client(q) ==
  Dial(q) \/ SayHello(q) \/ Transmit(q) \/ Receive(q) \/ NoticeLinkDown(q)

SysNext ==
  \/ \E k \in Conn : HubStep(k)
  \/ Failures
  \/ \E q \in Person : User(q) \/ Client(q)

SysSpec == SysInit /\ [][SysNext]_sysVars

(* The same system once everybody has signed in and read everything, each *)
(* person on a connection of her own: a reachable state to start from when *)
(* a run is about what comes after.                                        *)
SignedInInit ==
  /\ members = Person
  /\ convs = [c \in ConvId |-> IF c = Family THEN NewConv(Person) ELSE NoConv]
  /\ disk = [members |-> members, convs |-> convs]
  /\ conn = CHOOSE f \in [Person -> Conn] : \A q, r \in Person : f[q] = f[r] => q = r
  /\ online = conn
  /\ who = [k \in Conn |-> IF \E q \in Person : conn[q] = k
                           THEN CHOOSE q \in Person : conn[q] = k ELSE Nobody]
  /\ phase = [k \in Conn |-> IF who[k] = Nobody THEN "free" ELSE "serving"]
  /\ link = [k \in Conn |-> IF who[k] = Nobody THEN "down" ELSE "up"]
  /\ pend = [k \in Conn |-> Idle]
  /\ rx = [k \in Conn |-> <<>>] /\ up = [k \in Conn |-> <<>>] /\ down = [k \in Conn |-> <<>>]
  /\ stage = [q \in Person |-> "pumping"]
  /\ outq = [q \in Person |-> <<>>]
  /\ lastSeq = [q \in Person |-> [c \in ConvId |-> 0]]
  /\ roster = [q \in Person |-> [members |-> Person, online |-> Person, convs |-> {Family}]]
  /\ shown = [q \in Person |-> [c \in ConvId |-> <<>>]]
  /\ typed = {} /\ asked = 0 /\ history = [c \in ConvId |-> <<>>]
  /\ breaks = 0

(* The runtime keeps polling every task that can move, on both sides.      *)
(* People do as they please, and nothing has to break.                     *)
Fairness ==
  /\ \A k \in Conn : WF_sysVars(HubStep(k))
  /\ \A q \in Person : WF_sysVars(Client(q))

SignedInSpec == SignedInInit /\ [][SysNext]_sysVars
SignedInFairSpec == SignedInSpec /\ Fairness

-----------------------------------------------------------------------------
(* Properties *)

(* The whole system does no more than Conversations allows: one order per  *)
(* conversation, no duplicate and no step back on any screen across        *)
(* reconnects, nothing invented, nothing shown to an outsider or echoed to *)
(* its author.                                                             *)
Abstract == INSTANCE Conversations WITH
  audience <- [c \in ConvId |-> convs[c].members],
  log <- [c \in ConvId |-> [i \in DOMAIN history[c] |->
            [from |-> history[c][i].from, text |-> history[c][i].text]]],
  seen <- shown
ImplementsConversations == Abstract!Spec

(* Every message of somebody else's is accounted for on the connection its *)
(* reader is registered with: shown, or still on its way to her there -     *)
(* unless a later one overtook it (the mark drops it), or it lies below her *)
(* own last post, or it was trimmed away.  Nothing falls between the replay *)
(* at sign-in and the pushes that follow it.                                *)
OnItsWay(k, c, s) == Copies(k, c, s) > 0
Connected(q, k) == online[q] = k /\ conn[q] = k /\ stage[q] = "pumping" /\ link[k] = "up"
Accounted ==
  \A q \in Person, k \in Conn, c \in ConvId : Connected(q, k) /\ q \in convs[c].members =>
    \A s \in DOMAIN history[c] :
      \/ history[c][s].from = q
      \/ \E i \in DOMAIN shown[q][c] : shown[q][c][i] = s
      \/ OnItsWay(k, c, s)
      \/ s < lastSeq[q][c]
      \/ s <= convs[c].cursors[q]
      \/ s <= convs[c].nextSeq - Len(convs[c].log)

(* lib.rs: "live push-channels for connected members". *)
ConnectedIsOnline ==
  \A k \in Conn : phase[k] = "serving" /\ link[k] = "up" => online[who[k]] # NoConn

(* Somebody who stays connected catches up: again and again everything     *)
(* posted so far has reached her or was overtaken, or her link has broken. *)
StayingConnectedCatchesUp ==
  \A q \in Person, k \in Conn :
    []<>(Connected(q, k) =>
           \A c \in ConvId : q \in convs[c].members =>
             \/ lastSeq[q][c] = convs[c].nextSeq
             \/ convs[c].cursors[q] = convs[c].nextSeq)

(* drive_hub "reconnects after a short pause", whatever became of the      *)
(* link, the hub or the handler left behind.                               *)
AlwaysReconnects ==
  \A q \in Person : stage[q] = "dialing" ~> stage[q] = "pumping"
====
