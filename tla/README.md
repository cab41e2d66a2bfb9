# FamChat in TLA+

FamChat is a family messenger: desktop clients that talk to each other over a
sealed channel, either directly, through a group relay, or through an always-on
**hub** that stores messages for whoever is away. This directory holds its
specifications: TLA+ modules translated from the Rust and JavaScript sources,
TLC configurations that check them on small instances, and proofs that TLAPS
checks for every instance.

The hub and the desktop client that talks to it are modelled together, because
that is where several processes share state, links break, and people rely on
nothing getting lost. Below them are the layers of the sealed channel, each by
itself: the Double Ratchet, the cover-traffic stream, and the way from a dial to
two ends that can speak. Beside the hub are the group relay, the transfer of
files, and what the desktop program keeps of its chats.

## The system

| part | source | state | operations | what makes it hard |
|---|---|---|---|---|
| hub server | `crates/famchat-hub/src/lib.rs` | directory, conversations (members, log, cursors, next seq), online map, state file | sign-in, send, ack, open DM, create room, leave; one task per connection, one mutex | work done after the unlock; reconnects before the old handler ends; full queues; crashes; log cap |
| hub protocol | `famchat-core/src/hub.rs` | – | messages, conversation ids | seq and cursor semantics |
| hub client | `src-tauri/src/main.rs` (`drive_hub`), `ui/app.js` | outgoing queue, high-water mark per conversation, sidebar | dial, Hello, pump, reconnect | what survives a reconnect and what does not |
| sealed channel | `famchat-core/src/channel.rs` | ratchet behind a lock, bounded queue, pumps | establish, send, receive | encrypt and queue are two steps; the responder cannot speak first |
| double ratchet | `ratchet.rs` | root and chain keys, counters, skipped keys | encrypt, decrypt | reordering, skip budget, eviction, atomic failure |
| cover traffic | `cover.rs` | stream of bytes, cells, reassembly buffer, ready queue | try_send, tick, write and read a cell | a length prefix cut by a cell, drop-oldest, delivery only on the next cell, end of stream |
| sender keys | `group.rs` | chain, iteration, skipped keys | encrypt, distribute, decrypt | old and new distributions, reordering |
| group session, relay | `groupsession.rs`, `grouphost.rs` | roster, who is keyed, receivers; bounded queues | join, roster, key, text, leave | key before text, rejoin, queues that block |
| file transfer | `message.rs`, `main.rs`, `ui/app.js` | the gate's offers and accepted transfers, open files, one dialog, the decisions under way | offer, accept, chunk, end | decision and chunks race; one question at a time; nobody waits for room |
| desktop session | `main.rs` (`ChatState`) | sender, group, hub, file slots, active conversation, tasks | host, connect, disconnect, send | one lock per slot; two chats overlap; aborts |
| establishment | `session.rs`, `wire.rs` | listener, what is left of a handshake | accept, dial with retries, handshake | one handshake at a time; peers that fail half-way or never speak |
| history | `history.rs`, `main.rs` | transcript in memory and on disk | append, persist, clear_history | three steps without a lock |
| preferences, contacts, identity, UI layout | `prefs.rs`, `contacts.rs`, `identity.rs`, `ui/` | two files | save, parse | sequential: not modelled |

How they interact. A client's UI invokes commands; `hub_send` and friends put a
frame on an unbounded queue that the `drive_hub` task pumps into a sealed
channel. The hub's handler for that connection reads it, takes the mutex,
changes the conversations, writes the state file, copies the push channels of
the people concerned, releases the mutex and only then pushes. Each handler
forwards its push queue to its own link. The client's task passes what arrives
to the UI unless its per-conversation mark says it has been seen. Nothing is
ever acknowledged by the desktop client: the only thing that moves a cursor is
posting.

What each part has to get right: the hub, that numbering is dense and for ever,
that a message goes to members only, that replay and push neither lose nor
repeat, that the online map is right, that what was shown is durable; the
client, that it shows one order without repetition and always gets back in; the
two together, that everything posted reaches its readers; the ratchet, that a
message opens within the promised tolerance, opens once, and leaves no key
behind; the cover layer, that a stream cut into cells is put together as it was;
establishment, that only those with the credential get in and nobody keeps the
others out; the channel, that two ends that agree can both speak, and that a
session ends for both; the relay, that keys reach everybody in the room and texts
everybody who has the key; the transfer, that nothing is written without consent
and that "sent" is true; the desktop, that a chat that is on can be spoken in,
that one that is over leaves no handle behind, and that deleted chats stay deleted.

A session, bottom up: `Link::establish` listens or dials and shakes hands on the
bare stream; `SealedChannel::establish` exchanges the first ratchet keys and hands
the stream to the cover layer; its `SealedSender` encrypts with the ratchet and
queues the ciphertext for the cells, its inbound task decrypts what they carried.
`drive` (two-party), `drive_group` and `drive_hub` are the tasks on top of it;
`ChatState` is how the commands of the UI find them.

## Modules

| module | models | |
|---|---|---|
| `Hub` | the hub and its connections | clients completely open: any frame on any link at any time |
| `HubSystem` | `Hub` composed with the desktop client | `EXTENDS Hub`; each client step that touches a link is joined with the `Hub` action of that link |
| `Conversations` | what the hub promises its users | the abstract specification `HubSystem` implements |
| `HubProofs` | theorems about `Hub`: types, the online map, confidentiality, numbering; the past, durability, single delivery | `EXTENDS Hub, TLAPS` |
| `SystemProofs` | theorems about `HubSystem`: that it implements `Conversations`, and accounts for every message | `EXTENDS HubSystem, HubProofs` |
| `DoubleRatchet` | one end of a ratchet session as a value, its operations as operators | no variables |
| `RatchetPair` | two ends and a link that loses, repeats and reorders | `EXTENDS DoubleRatchet` |
| `RatchetProofs` | theorems about `RatchetPair` | `EXTENDS RatchetPair, TLAPS` |
| `SenderKey` | a member's sending chain and a receiver of it as values | no variables |
| `GroupRelay` | the relay's two tasks per member, the members' clients, the links | `EXTENDS SenderKey` |
| `GroupProofs` | theorems about `GroupRelay` and the sender keys in it | `EXTENDS GroupRelay, TLAPS` |
| `CoverChannel` | one direction of the cover layer, from `try_send` to the consumer | bytes named by message and place |
| `CoverProofs` | theorems about `CoverChannel`: types, the byte stream, that it implements `LossyFifo` | `EXTENDS CoverChannel, TLAPS` |
| `LossyFifo` | what one direction of a channel promises | the abstract specification `CoverChannel` implements |
| `Establish` | listener, dials and handshakes | credentials are symbols |
| `SealedChannel` | a session from its first dial to its end at both sides | `EXTENDS Establish` |
| `ChannelProofs` | theorems about `SealedChannel` and the establishment in it | `EXTENDS SealedChannel, TLAPS` |
| `FileTransfer` | several files at once from one end of a chat to the other | sender's and receiver's programs and UIs |
| `FileProofs` | theorems about `FileTransfer` | `EXTENDS FileTransfer, TLAPS` |
| `DesktopSession` | `ChatState`, its commands and tasks, the transcript | one step per critical section |
| `DesktopProofs` | theorems about `DesktopSession` | `EXTENDS DesktopSession, TLAPS` |
| `MCHub`, `MCHubSystem`, `MCFileTransfer`, `MCDesktopSession` | symmetry sets and file sizes for TLC | |

### `Hub`

State. `members`, `convs` are `Persisted`; `disk` is the state file; `online` is
`Hub.online`, with a push channel named by the connection whose handler created
it. Per connection slot: `phase` (where its task is), `who` (the id that signed
in), `rx` (the unbounded push queue), `pend` (what the handler has computed
under the lock and not yet sent), and the link: `link`, `up`, `down`.

One action per critical section, and one per thing done outside of it:

| action | code (`famchat-hub/src/lib.rs`) |
|---|---|
| `Accept` | `serve` spawns a handler, the channel is established |
| `DropEarlyFrame`, `GiveUpHello` | the loop that waits for Hello |
| `SignIn` | the sign-in block under the lock: directory, family room, push channel, persist, snapshots |
| `SendWelcome`, `SendBacklog`, `GoOffline` | sends after it, and `go_offline` with return when one is refused |
| `Push` | one `t.send(..)` to a push channel cloned under the lock |
| `ForwardPush`, `PushRefused` | the first arm of the `select!` |
| `HandleSend`, `HandleAck`, `HandleOpenDm`, `HandleCreateRoom`, `IgnoreHello` | the second arm, with `do_send`, `open_dm`, `create_room` and the persist each makes |
| `LinkEnded`, `EndTask` | the link closes; the cleanup after the loop and the return |
| `ClientFrame`, `Deliver`, `CutLink` | the other end of the link and the network |
| `Crash` | the process dies and `Hub::load` reads the file |

Both arms of the `select!` are enabled whenever they could be polled ready, so
TLC tries either. A slot of `Conn` may be taken again as soon as neither the
online map nor a push under way refers to it; what remains of a dead
connection's queue is gone with its receiver.

Abstractions: names, titles, timestamps and console output are left out; member
lists are sets (a DM with oneself, whose list names its member twice, keeps its
one visible effect: it is announced twice); conversations and cursors that do
not exist are empty ones and zeros; the two notices after a sign-in are queued
in one step; what arrives on a link just before it breaks is counted as lost or
as read before; room ids are never drawn twice.

### `HubSystem`

Per person one device with `stage` and `conn` (where `drive_hub` is), `outq`
(`hub_tx`), `lastSeq` (`emit_hub`'s mark), `roster` (the sidebar's directory,
online set and conversations), and history variables: `shown` (seqs that passed
the mark, in order, since the program started), `typed`, `asked`, `history` (all
that `do_send` ever accepted, also after trimming) and `breaks`. `Relaunch` is
closing the program or leaving the hub; everything but what the hub holds is
lost. `UserSends` and the other user actions only offer what the UI does:
conversations in the sidebar, DMs with people it lists that it does not know,
rooms of people it lists.

`SysSpec` starts from nothing; `SignedInSpec` from the reachable state where
everybody has just signed in and read the family room, which spares TLC the
same first steps in every run.

### `Conversations`

One growing log per conversation, an audience per conversation, and what each
person has seen of each log: only other people's messages, only of
conversations one is in, never backwards, never twice until the program is
closed. `HubSystem!Abstract` maps `history` to the log, the members to the
audience and `shown` to what was seen.

### `DoubleRatchet` and `RatchetPair`

A ratchet is a record with the fields of `struct DoubleRatchet` (ratchet.rs); a
key pair is its owner and a number, a Diffie-Hellman result the pair of keys it
mixes, a root key the sequence of the results mixed into it, a chain key a
position on the chain of a root key, and a message key the position it is drawn
at. Two ends hold the same key if and only if they mixed the same secrets in the
same order, which is what the KDFs provide, and a ciphertext opens under its own
key only, which is what the AEAD provides. The header is authenticated, so a
packet nobody sealed opens nowhere and changes nothing; such packets are left
out.

| operator | code (`ratchet.rs`) |
|---|---|
| `InitAlice`, `InitBob` | `init_alice`, `init_bob` |
| `CanEncrypt`, `Sealed`, `Encrypted` | `encrypt`: its two early returns, the message, the new state |
| `Gap`, `SkipForward` | `skip_forward` |
| `Bank`, `Slots`, `Slot` | `SkippedKeys`: `insert` with its eviction, `peek`, `remove` |
| `Turns`, `Flushed`, `Working`, `CaughtUp`, `Target` | the local computations of `decrypt` |
| `WithinBudget`, `Opens` | the errors `decrypt` returns: budget, no chain, AEAD |
| `Turned`, `Decrypted` | what it commits |

`RatchetPair` has two actions, `Encrypt(p)` and `Decrypt(p)`. What was sent stays
available for ever: any of it may be opened at any time, again, or never, which
is every loss, duplication and reordering there is. (Over the real channel,
messages are lost where the cover layer drops them and refused when its queue is
full; duplicates and reordering need a link that is not the Noise one. The
module promises more than its caller uses, and the model takes it at its word.)
`sent` and `opened` are histories.

`Bank` treats the store as a list in insertion order, which leaves out that
`insert` would replace the key at an address already taken. `NoAddressTwice` says
that this case, "somehow already existed" in the code, does not occur.

### `SenderKey` and `GroupRelay`

In a relayed group each member draws a chain of its own, sends the chain as it is
to every member the relay lists, and writes texts under it. Keys are symbolic: a
chain key is the number of times it was ratcheted. `Opens` and `Opened` are the
errors and the effect of `ReceiverState::decrypt`, `Stored` its bounded store.
`LastIteration` is where the `u32` iteration stays; it is not reached in the run.
(The code goes on past it: iterations repeat while keys do not, so that one loss
out there ends the chain for its readers.)

| action | code |
|---|---|
| `Join` | `GroupClient::join`, `GroupHost::serve` accepting it |
| `OnRoster`, `OnKeyFor`, `OnText`, `Write`, `Leave` | the client's task, with `GroupMember`'s methods |
| `Register`, `RouteKey`, `RouteText` | `host_reader`, up to the release of the roster's lock |
| `BroadcastRoster` | `broadcast_roster`, which takes the lock again |
| `Enqueue` | one `tx.send(..).await`, which waits for room or fails with the writer gone |
| `Forward`, `WriterEnds` | the writer task |
| `ReaderEnds` | the link is closed: off the roster, and a broadcast if it had said Hello |

`sending` is what a reader has copied under the lock and is yet to put into
queues: it takes no further frame before that is done, and the roster, a hash map,
has no order. A link takes `LinkCap` frames and refuses more; a client ignores
that, a writer ends of it. A broken link and a leaving user are one action,
since the first leads to the second and nothing else can be seen of it.

Left out: the encoding and the sealed box of a distribution (a relay sees neither,
and hands a `KeyFor` to its addressee only), frames of members that do not follow
the client's code, the establishment of the channel, and the queues between
client and UI, whose waits hold up nothing but their own client. The cover
layer's habit of dropping what its consumer does not fetch is left out too: relay
and client fetch at once.

### `CoverChannel` and `LossyFifo`

| action | code (`cover.rs`) |
|---|---|
| `TrySend`, `DropOutbound` | `CoverSender::try_send`; the last sender is dropped |
| `Tick` | one turn of the pacing loop of `sender_task`: serialize what is queued until a cell is full, offer the cell to the writer with `try_send`, and drain the bytes only when it took it; flush and stop once disconnected |
| `WriteCell`, `Shutdown`, `Break` | `writer_task` and the transport |
| `ReadCell` | one turn of `receiver_task`: append the cell's bytes, cut complete messages off the front, stage them (`Staged` drops the oldest), hand over what the consumer has room for |
| `EndOfStream`, `Take`, `DropInbound` | the read fails; the consumer receives, or is dropped |

A byte is its message and its place in it, so that a byte in the wrong place is
told from the right one; `Declared` reads a length prefix from wherever the
receiver believes one begins. Left out: the header and padding of a cell, its
encryption, the clock's interval, and the errors for malformed cells and absurd
lengths, which do not arise between two ends that run this code.

`LossyFifo` accepts items and hands some of them out, in order, each at most
once. `Abstract` maps the messages accepted to its items and what the consumer
took to what was handed out; a message that is not, byte for byte, one that was
accepted has no place in it.

### `Establish` and `SealedChannel`

A handshake is a script: what an end sends, awaits and checks, in the order of
`wire.rs` (`CodeInitiator`, `CodeResponder`, `IdInitiator`, `IdResponder`), then
the two ratchet keys of `SealedChannel::establish`. A message carries its sender's
credential and `Opens` if the two ends share what it takes to open it; `CheckPin`
is the fingerprint comparison after the last message.

| action | code |
|---|---|
| `Bind`, `Accept`, `HostGivesUp`, `CloseListener` | `Link::establish` as a listener: one connection at a time, `continue` on any failure, the listener dropped with the session |
| `Dial`, `DialerGivesUp` | `dial_with_retry`, and the dialer's single handshake |
| `Speak`, `Hear`, `CheckPin`, `StopWaiting` | one line of a script; the peer is gone or the timeout strikes |
| `Sync` | the empty first message of the connecting side (`channel.rs`), which gives the responder its sending chain |
| `Send`, `Unseal`, `Recv` | `SealedSender::send`, the inbound task, `SealedReceiver::recv` |
| `Break`, `Leave`, `RecvNone` | the link dies; a side tears its session down; the other one learns of it |

Time is abstract: an end gives up only on a peer that has nothing to say (one of
`Silent`, or for a dialer a listener busy with others), so a live peer is quicker
than the timeout. Everybody in one behaviour uses the same mode, code word or
identity. Cryptography is symbolic; a dialer that knows neither is one of those
with a wrong word or pin. What is below is the subject of `CoverChannel` and
`RatchetPair`; here a link keeps order, refuses frames when full, and loses a tail
when it goes down.

### `FileTransfer`

A file is a number of chunks, an offer's name and size stand for that number, and a
frame is its kind, its transfer and, of an offer, its size. Of the sender's side there are
two kinds of transfer ids. Those of `sendFile` are random (`new_transfer_id`), offered
once, and streamed after a yes. Those in `Stray` are of the peer's own choosing: nothing
in `drive` or the gate checks who speaks, and the gate is there for a peer that does not
keep to `sendFile` (message.rs:17).

State. `pending`, `accepted` and `promised` are the gate's two sets and the size it keeps
with an offer; `disk`, `size` and `received` are the sinks, and what became of a file once
its sink was gone; `dialog` is the question asked, with the offer it was asked about;
`decisions` is `dec_tx`.

| action | code |
|---|---|
| `Begin`, `Wait`, `GiveUp`, `Stream`, `HearDecision` | `sendFile` and `waitForPeerDecision` of `app.js`, with `file_begin`, `file_chunk`, `file_end` (`main.rs`) |
| `Unprompted` | the peer's program sends an offer of any size, a chunk or an end of an id in `Stray`, at any time |
| `TakeFrame` | the receive arm of `drive` with the gate and the sink of `message.rs`: `Offered`, `ChunkCame`, `EndCame`, `Finish` |
| `Answer` | the user answers `askConfirm`; `file_accept` or `file_reject` queue the decision for `drive` and then send the answer to the peer |
| `TakeDecision` | the decision arm of `drive`, which opens the file, or fails to |
| `Shed` | the cover layer drops the oldest frame it stages |
| `Close` | the session ends |

The sender's loop does not wait for room: `Stream` fails when `send` refuses a
frame, and nothing tells the receiver. The window between `file_begin` and the
listener of `waitForPeerDecision` is a step of its own (`Wait`), so an answer may
come before anybody waits for it; it is then lost, and only the timeout of two
minutes ends the wait. `askConfirm` keeps one promise: a second offer takes the place
of the first, whose sender is never answered. `early`, `shed` and `ignored` record
these cases for the properties; `agreed` and `answer` what the user said of an id, and
of which offer of it; `crossed` the ids that were offered again while an earlier offer of
theirs was `Outstanding`: pending, accepted, asked about and not answered, or with its
answer on the way to `drive`.

File names are data, and a size too large is one of the reasons for which a file cannot
be opened; `WriteChunk` keeps the rule that a file does not grow past its offer. The
question is on the screen in the step that takes the offer; in the code the event may take
a while, and `Outstanding` counts questions that were pushed aside, so that what the
properties say of the other ids does not depend on it. Files the other way are the same roles exchanged.

### `DesktopSession`

`slot` are the four handles of `ChatState` (`sender`, `group`, `hub_tx`,
`file_decisions`), named by the chat they belong to; `active`, `tracked` the other
two fields. What happens under one lock, or between two awaits, is one step.

| action | code (`main.rs`) |
|---|---|
| `Begin`, `Spawn`, `Track` | `host`, `connect`, `host_group`, `join_group`, `connect_hub`: `set_active`, the spawned task, `track` |
| `Establish`, `Install`, `InstallFiles`, `Receive`, `File`, `Ended` | the tasks: the channel is up, their handles are stored, a message is received and filed by `persist_msg`, and the handles are cleared at the end, whoever is in them by then |
| `Die` | an aborted task ends where it waits |
| `Send`, `FindActive`, `FileSent` | `send_message`, which looks at the group first and files the text after it is sent |
| `Leave`, `ClearNext` | `ChatState::clear`: abort every tracked task, then empty slot after slot |
| `Delete`, `Reopen`, `Replace` | `clear_history` after its `clear`: `history::delete`, `History::open`, the assignment under the lock |
| `Relaunch` | the program ends anywhere and starts again |

Abort is a request: a task that is waiting ends with it, one that was running goes on
until its next await. At an await for its peer it ends for sure; at one for a lock it
may get it first (`Step`, `Die`). `History::persist` empties the file before it writes
it, so a write that fails or is cut off leaves a file that reads as an empty transcript
(`Filed`). Contents, titles and file names are left out: a chat has a name of its own.
In the code two chats given the same name are filed together, since `set_active` makes
the key from the lower-cased title, although `history.rs:35` has it "never the human
display name". The relay task of a hosted group fills no slot and is left out.

## Runs

Passing runs:

| run | instance | properties |
|---|---|---|
| `hub_mail` | 2 people, 2 connections, one conversation, 2 posts, queue and log of 1 | `TypeOK`, `LogContiguous`, `PushesAreLive`, `AtMostOneCopy`, `ToldIsDurable` |
| `hub_frames` | 1 person, 1 connection, family room + self-DM + 1 room, all kinds of frame, acks up to 2 | `AckedStaysAcked`, `HistoryImmutable` |
| `sys_mail` | 2 people, 3 connections, 2 messages, 1 break | `Accounted`, `ImplementsConversations` |
| `sys_tight` | 2 people, 2 connections, DMs and a room, queue of 1 | `OnlyMembersReceive` |
| `sys_live` | 2 people, 2 connections, 1 message, 1 break | `StayingConnectedCatchesUp`, `AlwaysReconnects`, `DeadLinkIsReaped` |
| `ratchet` | 2 ends, 6 messages each, budget 2, store 3, counters up to 3 | `TypeOK`, `NoAddressTwice`, `OpenedAtMostOnce`, `NoReuse`, `GapsAreBridged`, `SpentKeysAreGone` |
| `cover` | 3 messages of up to 2 bytes, prefix of 2, cells of 3, queues of 1 or 2 | `TypeOK`, `StreamIsWhole`, `ImplementsLossyFifo`, `EveryMessageArrives` |
| `channel` | a listener, 2 dialers and a silent one, 2 words, all pins, 2 dials, one frame each way | `TypeOK`, `Authenticated`, `ListenerMovesOn`, `AgreedPeersTalk`, `EndsTogether` |
| `group` | 2 members, 3 texts of one of them, links of 2, queues of 1, 1 skip | `TypeOK`, `OldTextsStayClosed`, `InSenderOrder`, `TextsAccounted`, `KeysArrive`, `LeaversLeaveRoster` |
| `files` | a file of `sendFile` of one chunk, an id of the peer's choosing with offers of 0 and 1 chunks, 4 frames of it, 2 places at the gate, a channel of 2 | `NothingWithoutConsent`, `SentIsSaved`, `SlotsAreFreed` |
| `desktop` | 2 chats of any kind, 2 messages, 1 end | `ChatIsWhole`, `NoDeadHandle`, `WipedStaysWiped` |

One run shows where the code departs from what the repository says of it:
`sys_stale` violates `ConnectedIsOnline` (lib.rs:83 "live push-channels for
connected members"): an old handler's exit removes the newer channel of the same
id (lib.rs:328).

What the passing runs show beside that, as the exceptions a property has to make:

`Accounted` says how a posted message can pass a reader on a live connection: it is
shown, on its way, overtaken, below her own post, or trimmed away, and nothing else.
Each of these exceptions is a limit of the code. Pushes after the unlock cross, and the
mark of the client drops the one that was overtaken, though it was never shown
(main.rs:443 calls this "dedup re-sent messages"). Posting moves one's cursor over
messages not received yet (lib.rs:358), so after a break they are not "replayed
exactly" (lib.rs:6). And a backlog longer than the queue is refused on every
reconnect (lib.rs:272), so it is not delivered "the moment they come back" (HUB.md:6).

`GapsAreBridged` states the module's promise ("tolerated up to the per-packet
`MAX_SKIP` budget, with a bounded cache", ratchet.rs:82) over the order in which
messages were sent, and nothing else: beyond the furthest message opened, one
opens exactly when at most `MAX_SKIP` are jumped over, whether or not the peer
turned the DH ratchet in between; before it, one opens unless more than
`MAX_SKIP_STORE` later ones have been passed. It also shows the limit: once more
than `MAX_SKIP` messages in a row are lost, nothing of that session opens again,
and the channel passes over each failure in silence (channel.rs:236).

`EveryMessageArrives` names where the cover layer gives a message up: the staging
buffer of a slow consumer, a link that breaks, and the end of the stream, at which
messages already put together but not handed over are dropped (cover.rs:551). The
last one means that what is sent right before an orderly end can be lost although
the peer is reading ("delivered to the peer intact and in order", cover.rs:345).
`StreamIsWhole` is the invariant behind it: all bytes on all legs together are one
unbroken stream of the messages not yet put together.

`AgreedPeersTalk` starts where the listener takes a dialer up; before that, the
dialer may have given up behind a peer that used up its timeout. `EndsTogether` also
holds when an end fails after its own handshake and before the other's.

`NothingWithoutConsent` is about any frames: chunks and ends of what was never offered,
was declined, is still asked about or is over, in any order with offers and answers. That
nothing is on disk of an id the user never said yes to, and that the gate keeps its limit,
has no exception. That an open file is the one of the offer the user said yes to last, and
has its place at the gate, holds of every id but those in `crossed`, and there the code
does otherwise. `FileGate::offer` replaces the name and size of a pending id
(message.rs:50): if the user has said yes to the first offer and `drive` has not taken
that answer, it opens the file of the second, and the no to the second that may follow
finds nothing pending and leaves it open. And if an accepted id is offered and accepted
again and `Incoming::start` fails, `gate.finish` takes the id from the gate
(main.rs:844) while the earlier sink stays in `sinks`: its chunks are dropped, it does
not count against the limit, and an end saves it. `sendFile` does neither
(`crossed \subseteq Stray`): it takes a program that uses one of its ids twice.

`SentIsSaved` and `SlotsAreFreed` are about the transfers of `sendFile`, and name what can become of a transfer instead.
`file_accept` has a comment that the file is opened "so it exists before the peer's
first chunk" (main.rs:605); but the decision and the frames reach `drive` over two
queues that a `select!` polls in any order, and a frame taken first is dropped by the
gate (`early`). Then the sender says "sent", and the receiver has a file with a hole
or none at all. A sender that is refused half-way, or has given up waiting, leaves its
place at the gate taken until the session ends, and so does an offer whose question
was pushed aside; `MAX_CONCURRENT_FILES` of them and no more files can be offered.

`ChatIsWhole`, `NoDeadHandle` and `WipedStaysWiped` name overlaps that nothing in the
shell prevents: a chat begun while another of the same slots is on, which takes over the
slots and later has them cleared by the other (`overlapped`); a `clear` that meets a
command between its spawn and its `track`, whose task is then aborted by nobody, or
empties a slot just stored (`caught`); an aborted task that still stores its handle
(`late`), which for a group keeps every later pair from being spoken in; and a message
filed while `clear_history` is at work, which writes all the old ones anew since its
steps are not under the lock of the history (`raced`). The UI offers little of this at
a time, but the commands do not refuse it.

`TextsAccounted` and `KeysArrive` name all the ways in which a group member can
miss something while it and the other are in the room. Two of them are worth
knowing. A key the link refuses is never sent again, because `on_roster` marks its
addressee as keyed first (groupsession.rs:302). And a member whose link refused one
frame of the relay hears nothing any more, while it stays in the roster and can go
on writing: the writer has ended (grouphost.rs:59), but the socket is split and its
other half is still being read. Texts lost on a member's own full link are not
reported (the result of the send is ignored), and only matter to later ones when
more than `MAX_SKIP` in a row are.

### Bounds, and why they are enough

`MaxPosts`, `MaxAsks` and `MaxBreaks` cap what people and the network do in a
behaviour, `MaxUp` and `MaxOut` the frames waiting on one side, `MaxQueued`
keeps TLC from opening connections onto unread ones. Two posts are enough for
one to overtake another, for a cursor to jump over one and, with `MaxLog` 1, for
a log to be trimmed; one break or crash for every reconnect, replay and stale
handler, and three connections for two people so that an old and a new handler
of one person live side by side; a queue of one for every refusal there is.
`LinkCap` is 8 where a refusal is not the question: with a tiny queue a stale
connection that cannot be drained would keep a new one from being opened, by
`MaxQueued` and not by the code. `hub_frames` has one person because a cursor
and a log are touched by one person at a time; the other runs have two.
`Kinds` names the frames clients send of their own accord in a run.
`PersistMayFail` is FALSE in all runs: with TRUE, `HistoryImmutable` and
`ToldIsDurable` fail, since `persist` ignores its errors. Deadlock is not
checked: a system whose people are silent and whose bounds are used up stops.

In `ratchet` the limits keep the order they have in the code, budget below
store, and a chain is longer than a gap may be: `ChainEnd` 3 ends a chain after
three messages, a budget of 2 is exceeded within one chain and across a turn,
six messages fill a chain twice, so that its second one comes after a turn, and
a store of 3 evicts.

In `group` two members suffice for a newcomer and one who was there, and make four
relay tasks that cross; a third would add a second reader of the same kind at forty
times the states. One of them writes, since texts of the other would meet the
same handlers. Links of two and queues of one fill up both in the client and in the
relay; three texts are one more than a skip of one can bridge, and a store of one
keeps the key that was skipped.

In `cover` a prefix of two bytes is longer than what a cell may have left, and lengths
of 0, 1 and 2 make framed messages that end before, at and after the edge of a cell
of 3, in every combination for three messages in a row; queues of one are full most
of the time. Capacities larger than that only delay the cases.

In `channel` two dialers that agree or not in every combination of words and pins, and
a third that never speaks, are enough for one to wait in the backlog behind another of
each kind; a second dial is one refused before the listener is bound. One frame each
way, on queues of one, fills both.

In `files` one id in the peer's hands is enough for what `drive` and the gate keep of an
id, and two sizes tell one offer of it from another; the file of `sendFile` competes with
it for the dialog and for the places, of which an id that is pending and accepted at once
takes both. Four unprompted frames (`MaxUnprompted`) are an offer, its end, another offer
and a chunk, or any other four: enough for an id to be settled and used again, or used
again before that, and written to. `DecisionCap` bounds the decisions that wait for
`drive`, since a peer can have the user asked without end: with two, one is taken while
another waits. `OutCap`, `FrontCap` and `StageCap` are the smallest that let a frame be
refused, and one be shed while another one goes through.

In `desktop` two chats overlap in each kind and order, two messages let one be filed
before, within and after a deletion, and one end is a leaving, a deletion or a restart
at any point; with two ends the run outgrows its time.

### Fairness

`Fairness` is weak fairness of every handler (`HubStep(k)`) and every client
task (`Client(q)`): each is a task of a runtime that polls whatever is ready, and
a blocked one waits only for its own link or queue. Dialing is in it, because
the loop of `drive_hub` never gives up. People owe nothing, nothing has to
break, and neither crash, break nor relaunch is fair. A link that breaks is
noticed by both ends: the channel's tasks end and `recv` returns `None`.

`GroupRelay` has weak fairness of each client's task and of both relay tasks of each
member, for the same reason. Joining, writing and leaving are people's.

`CoverChannel`: the clock ticks, the writer, the receiver and the consumer are tasks
that are polled; nobody has to send, drop or break anything. `SealedChannel`: each
end's handshake goes on, dials are retried, and the application takes the frames it is
sent. `FileTransfer`: the tasks run, `sendFile` goes on, and whoever is asked answers;
nobody has to offer or hang up, and nobody owes an unprompted frame. `DesktopSession` has no fairness: its properties are
about what its steps may never do.

## Theorems

`HubProofs` proves for `Spec` of `Hub`, that is for any people, connections,
rooms, queue and log sizes and bounds, with clients that may send anything,
links that break and crashes at any point, assuming `HubAssumption` only (the
two "nobody" values are outside their sets, sizes are positive naturals):

| theorem | |
|---|---|
| `TypeCorrect` | `[]TypeOK` |
| `PushesLive` | `[]PushesAreLive`: the online map names serving handlers of the right person |
| `Confidential` | `[]OnlyMembersReceive`: a message is only on its way to members |
| `LogsContiguous` | `[]LogContiguous`: logs are numbered densely, also if the file cannot be written |

`Confidential` is not inductive by itself. A push set out to a connection lands
in the queue of whoever serves it *by then*: one needs that the online map is
right when targets are copied (`PushesAreLive`), that a slot is not given to a
new connection while a push to it is under way (`NoReuse`), that a connection
that signs in finds its queues empty (`Quiet`), and that a serving handler knows
its person (`Known`). With the types these make `IInv`; one lemma per action
shows what it does to the four places a message can be in (`BacklogOk`,
`PushOk`, `QueueOk`, `LinkOk`), on top of `Widen`: conversations only take
people in. `LogsContiguous` rests on `Numbered`, which asks of the state file
what it asks of the memory, because a restart loads it.

Its second part is about the past, for the same `Spec`:

| theorem | |
|---|---|
| `HistoryKept` | `HistoryImmutable`, if writes do not fail: no step numbers two messages alike or takes a number back |
| `AcksKept` | `AckedStaysAcked`, if writes do not fail |
| `OnlyRestartsForget` | both, for every step but a restart, also if writes fail |
| `ToldDurable` | `[]ToldIsDurable`, if writes do not fail: who is told of a message is told of one on disk |
| `OneCopy` | `[]AtMostOneCopy`: a message is replayed to a connection or pushed to it, once |
| `StoreInvariance`, `UnderWayInvariance` | the two invariants they rest on |

`~PersistMayFail` is a hypothesis where it says "if writes do not fail": `persist()`
ignores its errors, and a restart after a failed write does forget. The code makes no
promise then, and `OnlyRestartsForget` states how far the damage goes without the
hypothesis. `Store` adds to `Numbered` that a conversation that is not there is empty,
in memory and on disk, and, while writes do not fail, that the file is the memory
(`Saved`) whenever the lock is free. `OneCopy` needs no such thing. The copies of a
message for a connection can be in four places: the backlog its handler has yet to
replay, its push queue, its link, and the pushes other handlers have yet to make to it
(`OnePlace`, that at most one of the four has a copy and has one). That is kept by a
sign-in because whoever signs in has empty queues and nobody pushes to it (`Quiet`), and
by a post because its seq is above all that are anywhere under way (`GivenOut`), which
`Numbered` and the growth of `nextSeq` give, and because a handler that pushes a message
pushes one (`Carries`).

`SystemProofs` goes on to the hub with its desktop clients, `SysSpec` of `HubSystem`,
under the same assumptions:

| theorem | |
|---|---|
| `ClientInvariance` | no two clients share a connection, and each is signed in on its own as itself |
| `HubInSystem` | `SysSpec => Spec`: what is proved of the hub holds in the composition |
| `SystemInvariance` | the record, what is under way and the marks agree, if writes do not fail |
| `KeepsPromises` | `ImplementsConversations`, if writes do not fail: the refinement |
| `EverythingAccounted` | `[]Accounted`, if writes do not fail |

`HubInSystem` is not for free, since the client's steps are joined with the hub's by
equalities on links: it takes `Lines`, that a client writes only on a connection nobody
else has. With it the theorems about `Hub` are at hand, and each step of a handler is one
of four as far as the conversations go (`Does`): it signs somebody in, opens a
conversation, posts, or moves a cursor. The invariant of the refinement then links the
three things that `Conversations` speaks of. The hub's logs are the ends of the record
(`Recorded`), and every place a message can be under way in holds one that is on the
record (`Told`): that is where a failed write and a restart would break it, because the
restarted hub gives the numbers out again. Nobody is sent what is their own: a post moves
its author's cursor past itself and is pushed to the others only, so a replay starts
behind one's own posts and no queue has them (`OwnRead`, `NoEcho`). And a client's mark
is at or past all it has shown (`Marks`), across reconnects, until the program is closed.
`FamilyIn` has to be known as well, that whoever is signed in is in the family room, so
that a conversation nobody is in, which a handler then opens, is never that one. From there
`PeopleSee` and `InWords` take each step to `Join`, `Open`, `Say`, `See` or `Close` of the
abstract specification, or to a stutter.

`Accounted` is proved in its strongest form, `Delivered`: of whoever is registered on a
working link she reads from (`Served`), every message on record is `Settled` for her, or
`UnderWay` in one of the places that `OneCopy` counts. A sign-in establishes it, since the
replay is read under the lock that registers the push channel (`BacklogHolds`,
`SignInReaches`); somebody who is served was in the conversation before, or nothing was
said in it (`MembersBefore`, from `FamilyIn` and `Unborn`); a post is settled for its
author and pushed to everybody else who is registered (`PostReaches`). From then on a
message moves from place to place and is not dropped while the link works
(`WayHandles`): a task that ends drops its pushes only if it never got to send its
welcome, and then they are notices and no message (`Polite`). It ends where the client
reads it, and shows it or finds its mark at or past it (`DeliveredReceive`); a mark is a
seq that was shown (`TopShown`), so a message the mark drops was shown, or overtaken.
What is settled stays settled because logs are trimmed from the front and cursors do
not go back (`SettledKept`).

`RatchetProofs` proves for `Spec` of `RatchetPair`, for any limits, any number of
messages and any order of delivery, assuming only that the limits are naturals,
the two parties differ and the `None` of the fields is no key
(`RatchetAssumption`, `PairAssumption`):

| theorem | |
|---|---|
| `TypeCorrect` | `[]TypeOK`: counters in range, the store bounded |
| `AtMostOnce` | `[]OpenedAtMostOnce` |
| `KeysUsedOnce` | `[]NoReuse` |
| `ForwardSecrecy` | `[]SpentKeysAreGone` |
| `AddressesOnce` | `[]NoAddressTwice`: the store holds one key for a place |
| `GapsBridged` | `[]GapsAreBridged`: which messages open, by how many were passed over |
| `Invariance`, `AddressInvariance`, `BridgeInvariance` | the three invariants they rest on |

The argument is one about lengths. A turn of the DH ratchet makes the root key
two results longer, so the length of a chain's root key tells whose chain it is,
by its parity, and which of that party's key pairs it belongs to; the step along
the chain is the message number (`EndOK`, `SentOK`). The receiving chain key
thereby splits all keys into those `Behind` it and the rest, and only moves on.
What one packet makes an end derive lies ahead of all it had left behind and
behind the chain key it ends up with (`NewKeys`): so stored keys stay distinct,
and a key that was used is behind the chain key, not in the store, and remains so
(`SpentOK`), while the key of a message that opens is not. That needs nothing
of the budget and the eviction, which only take keys away. `AddressesOnce` adds that
a stored key is that of its address: its step is its number, and its root key has the
length that the key pair of its address tells (`AddressInv`). Two entries for one place
would then hold one key, which `EndOK` excludes. Nobody reaches the end of a chain, where
numbers would meet: `ChainEnd` keeps what was sent below it.

`GapsBridged` is of another kind: it says what opens, not what does not, and in terms of
the order in which messages were sent, of which chains and lengths know nothing. What
`BridgeInv` adds is how chains make up that order. The messages of a party are one row
(`LogOK`): the next one is one further along the same chain, or the first of the next
chain, whose header says how long the last one was (`Precedes`); and what a ratchet would
send next continues its row. The receiver stands right behind the furthest message it has
opened (`ReadTo`), and of the messages before it the store holds the keys of those that
were passed over, unless `MaxSkipStore` more were stored since (`StoreOK`). Every message
beyond is on the chain being received, on the next one, or on the first of all
(`WhichChain`): no third one can exist, since a party turns only when it hears of its
peer's turn. Nor can the receiver fail to derive that next chain, because one of the two
ends has always mixed exactly what the other will mix when it turns (`Leads`), and a turn
hands this lead over (`LeadTurn`). So what is derived on the way to a message, flushed
from the old chain and skipped on the new one together, is one key for each message in
between, in order (`Bridges`), and the budget is a question of their number alone
(`OpensWhen`). Opening it banks exactly these keys, which is the next `StoreOK`
(`StoreAhead`). That a key found in the store is that of the message, and of no other,
takes that no two messages share an address, which is part of `IInv`.

`CoverProofs` proves for `Spec` of `CoverChannel`, for any size of a cell and of the length
prefix, any capacities, any lengths and number of messages, assuming `CoverAssumption`
only (sizes are naturals, and positive where the code's are):

| theorem | |
|---|---|
| `CoverTypes` | `[]TypeOK`: every queue within its capacity |
| `CoverStreamIsWhole` | `[]StreamIsWhole` |
| `CoverImplementsLossyFifo` | `ImplementsLossyFifo`: the refinement |
| `CoverInvariant` | the invariant they rest on |

`StreamIsWhole` speaks of a link that is up, and the refinement of any. What they share
(`Wire`, `Put`) is that as long as the receiver reads, there are a message `n` up to which
everything is put together, and some bytes `t`, such that what awaits its end, the cells
still to be read and `t` are exactly the framed messages after `n`; while the link is up
`t` is what the sending side holds, and when it breaks, `t` takes up what was cut off, so
the receiver's end of the stream stays a front of the true one. The order of what was handed
over is then `OrderOK`: it is all of messages up to `n` less those in the ready buffer, and
what is handed over next is of those. A tick keeps this because the bytes leave the
sender's stream only with a cell that was accepted, and because a flush begins with an
empty queue nobody can fill any more (`PaceOK`): so when the task stops on a link that is
up, no byte is left.

The step that matters is reading a cell, and there `CutFacts`: on any front of a stream of
framed messages, wherever it was cut, the loop of the receiver returns the whole messages
it contains and leaves the rest, such that the rest and what follows are the messages
after those. That is a fact about recursions over sequences (`FlattenSeq`, `Ends`), for
every input. Induction by the library's theorems takes an operator as a parameter; it is
done here with sets instead: a set of naturals that has 0 and with each number the next has
them all (`NatSetInduction`), since the least one missing could have no predecessor
(`NatMin`, from the well-foundedness of `<` as a relation). With it recursive functions are
shown to exist and to satisfy their equation (`FlatExists`, `EndExists`), `FlattenSeq` to
distribute over concatenation (`FlattenConcat`), ends of messages to grow (`OffMonotone`),
and the loop to go from one to the next and to stand still at the last one (`NextEndFacts`,
`EndsFacts`).

`FileProofs` proves for `Spec` of `FileTransfer`, for any transfers of any length, any
ids in the peer's hands and any number of frames of them, any limit of the gate and any capacities,
assuming `TransferAssumption` (sizes are naturals, and positive where the code's are),
that `NothingWithoutConsent` always holds (`ConsentFirst`). The invariant has three parts.
`BaseOK` holds of every id: a decision under way is the user's own, accepted transfers
have open files, and both sets of the gate are finite, which counting them takes
(`Smaller`). `ConsentOK` holds of the ids that have not crossed: the question asked, or
the one answer on its way, is about the offer that is pending, if that still is, and
nothing of the id is open then; so what `drive` opens is what was answered. `OnceOK` is
why no id of `sendFile` crosses: before its one offer is taken there is nothing of it at
the receiver, and after that there is no other; it takes what a queue keeps of its frames
when one is shed (`OffersThin`) or added (`OffersGrow`).

`DesktopProofs` proves for `Spec` of `DesktopSession`, for any chats, messages and
ends:

| theorem | |
|---|---|
| `DeletedForGood` | `[]WipedStaysWiped` |
| `HandlesLive` | `[]NoDeadHandle` |
| `ChatsWhole` | `[]ChatIsWhole` |
| `Invariance`, `SlotInvariance`, `ChatInvariance` | the invariants they rest on |

`DeletedForGood` takes knowing, for each stage of `clear_history`, where the doomed
messages are gone from already (`Emptied`), which holds until a message is filed in the
midst of it, and that a message filed later is none of the deleted ones (`Numbered`).
`HandlesLive` takes knowing of whatever is in a slot that a task of that kind stored it,
and that one whose task was aborted is still to be cleared by the leaving under way,
unless it was stored late (`Handles`). `ChatsWhole` is about two chats at once: that
those at work together are of different kinds or `overlapped` (`InTurn`), that a leaving
meets the task of every chat or catches it in the act of being begun (`Met`), and hence
that the slots and the conversation are those of the chat (`Own`) and that what is read,
sent and filed goes where it belongs (`Filing`).

`ChannelProofs` proves for `Spec` of `SealedChannel`, for any dialers, silent ones among
them, any words, pins, capacities and number of dials:

| theorem | |
|---|---|
| `ChannelTypes` | `[]TypeOK`, with a backlog in which nobody waits twice |
| `LetInIsAuthentic` | `[]Authenticated`: whoever is let in is who was to be let in, at either end |
| `ChannelInvariance` | the invariant they rest on |

A host serves one dialer at a time, so what an end has checked has to be carried through
handshakes of others that were begun and dropped in between. The scripts of both ends
are put as tables: how many messages to the host (`Up`) and from it (`Down`) an end is
through with, `n` lines into its script. What is on a link is then the difference
between its two ends (`UpOK`, `DownOK`), with the word of its sender on it (`Sealed`), so
that a line that is checked is checked against the word of the other end (`HostOK`,
`Checked`); and a dialer still at its handshake with a host that is through with it can
only be waiting for messages that are there (`HeardOut`). Assumptions are those of
`Establish` and `SealedChannel`: there is a word, the listener is no dialer, bounds are
positive. Messages are named by single tokens (`e-ee-s-es`), because the prover's
SMT backend cannot read strings with spaces.

`GroupProofs` proves for `Spec` of `GroupRelay`, for any members, limits and number of
texts (the set of members may be infinite, a roster is finite), assuming only
`RelayAssumption` and `SenderKeyAssumption`, by which bounds and limits are naturals, and
for `TextsArrive` that the texts do not outrun the counter of the chain:

| theorem | |
|---|---|
| `GroupTypes` | `[]TypeOK`, with the stores of skipped keys and the links within their limits |
| `NewcomersReadOn` | `[]OldTextsStayClosed` |
| `ShownInOrder` | `[]InSenderOrder` |
| `TextsArrive` | `MaxTexts <= LastIteration` proves `[]TextsAccounted` |
| `KeyInvariance`, `OrderInvariance` | the two invariants they rest on |

`NewcomersReadOn` needs nothing of the order in which keys and texts arrive. `Since(m, q,
n)` says that `q` granted `m` its key before it wrote any text after its `n`th, and as
grants are never taken back, every step keeps it. A `KeyFor` frame carries a position of
the chain at which it was granted, a receiver made of it starts there and only moves
forward, and what it stores on the way lies ahead of where it was (`Granted`,
`OpenedWhole`): so whatever it has is `Since`. The types are the harder part: that a
store cut to size by rank has no more than `MaxSkipStore` members takes the pigeonhole
(`StoredFacts`), and that ranks tell them apart takes knowing that a stored key and its
iteration agree and lie before the receiver's own (`Whole`), also where the iteration has
stopped at `LastIteration` and the chain has not (`AtCap`).

`ShownInOrder` needs nothing of what a receiver opens, only of the way there. What one
member sends another, its key and then its texts, is in five places, in the order they
pass them backwards: shown, on the link from the relay, in the writer's queue, with the
reader that has copied the roster, on the link to the relay. Each frame has a rank, twice
the position of the chain for a key and one more for a text, so that a key goes before
the text it is for and after the one before that. Ranks rise along the row and stay below
that of what is written next (`Row`, `Limit`); a step takes from a place or moves its
first frame to the place before (`RowSends`, `RowShows`, `RowForwards`, `RowEnqueues`,
`RowRoutes`). For that, a reader may have but one frame at a time to put into a member's
queue (`Alone`), which is why it does not matter in which order it serves the members;
and no key may come after texts it is too old for, which is so because it goes out once,
to one who was on the roster and had not been keyed (`MetInv`).

`TextsArrive` adds what a receiver does with the row (`Arrive`). All that is on its way
to one who has the key is texts at or behind the place its receiver stands at, and all
that was shown lies before it (`Opening`): so a text is never passed over because it is
old or not yet keyed, and `Opens` is a question of the gap alone (`TextOpens`). As long
as both are in the room and the writer runs, the key has come or is on its way and every
text meant for the member is accounted for (`Kept`), because what is on the way stays
there until it is read (`WayKept`). The interesting step is a text that does not open:
then more than `MaxSkip` texts lie between the receiver and it, all meant for it, none
of them shown since they lie ahead of the receiver, none on its way since this one was
the first. By `Kept` each of them was refused, or is itself out of reach; so this one is
(`TextMissed`). The hypothesis that the texts do not outrun the counter is needed, not a
convenience: where `saturating_add` holds the iteration at `u32::MAX` it no longer tells
how many texts were lost, and the first loss there, which a receiver could skip, keeps
all later texts of that member from opening. It takes 2^32 texts of one member to get
there, so no states are left out but those.

### What is only model-checked

Liveness, of which fairness and `ENABLED` are beyond the prover: that of `HubSystem`,
`GroupRelay`, `SealedChannel` and `FileTransfer`, and `EveryMessageArrives` of
`CoverChannel`. Every invariant, action property and refinement that a run checks is a theorem.

## Plan

What is left: the message buffers of the UI's hub view, which a welcome empties while the
mark of `drive_hub` keeps what was shown before from coming again (app.js:872), and what
was typed and taken off the client's queue when its link died (main.rs:487).

## Not modelled

- `identity.rs`, `prefs.rs`, the parsing in `contacts.rs`, the hub's `main.rs`: they are
  sequential, write one record, and keep no protocol state.
- The record layer of `wire.rs` and the sockets of `transport.rs`: an ordered pipe that
  may break. The cryptography of Noise, SPAKE2, the KDFs and the AEADs is symbolic.
- Encodings of frames, cells, headers and JSON, and frames that do not decode: both sides
  ignore them, or end the session as for a broken link.
- The UI's rendering, and its message buffers (see the plan).
- Time: timeouts and retries are steps that may be taken, not durations.
- A hub state file damaged from outside, and `persist` failing in the checked runs
  (`PersistMayFail`): the code makes no promise then.

## Running

    tlc -config MCHub_mail.cfg MCHub          # one run per .cfg
    tlc -config CoverChannel.cfg CoverChannel # without an MC module: also GroupRelay, RatchetPair, SealedChannel
    tlapm HubProofs.tla                       # and SystemProofs, RatchetProofs, CoverProofs, FileProofs, DesktopProofs, ChannelProofs, GroupProofs
