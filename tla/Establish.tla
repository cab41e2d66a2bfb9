----------------------------- MODULE Establish -----------------------------
(***************************************************************************)
(* How two programs get to a sealed channel: Link::establish of session.rs *)
(* with its one-at-a-time listener and its retrying dial, the handshakes   *)
(* of wire.rs, and the exchange of the first ratchet key with which        *)
(* SealedChannel::establish (channel.rs) begins.                           *)
(*                                                                         *)
(* A handshake is a script: what an end sends, awaits and checks, in order.*)
(* A message carries the credential of its sender, and opens under what    *)
(* the two ends must share to open it.  Time is abstract: an end gives up  *)
(* only on a peer that has nothing to say, and a live peer is quicker than *)
(* that.                                                                   *)
(***************************************************************************)
EXTENDS Naturals, Sequences, SequencesExt

CONSTANTS
  Host,      \* the listener
  Dialer,    \* those who dial it, each once
  Silent,    \* dialers that connect and never speak
  Word,      \* code words in use
  Anyone,    \* no fingerprint is pinned
  Nobody,    \* the listener has nobody on its hands
  MaxDials   \* dial_with_retry's bound on attempts

ASSUME EstablishAssumption ==
  /\ Host \notin Dialer /\ Silent \subseteq Dialer
  /\ Anyone \notin Dialer \cup {Host} /\ Nobody \notin Dialer /\ MaxDials \in Nat \ {0}
  /\ Word # {}

End == Dialer \cup {Host}
Mode == {"code", "identity"}

VARIABLES
  mode,      \* how everybody authenticates: Auth::Code or Auth::Identity
  word,      \* the code word each end was given
  pin,       \* the fingerprint it expects, in identity mode
  listener,  \* "unbound", "accepting", "shaking", "up", "closed"
  serving,   \* whom it shakes hands with, or has let in
  backlog,   \* connections not accepted yet
  stage,     \* dialers: "dialing", "shaking", "up", "over"
  dials,     \* attempts of a dial that has not come to an end
  todo,      \* what is left of the script of each end's handshake
  wire,      \* per connection, what is on its way "up" to the host and "down"
  dropped    \* connections the host has closed

creds == <<mode, word, pin>>
dialing == <<stage, dials>>
estVars == <<creds, listener, serving, backlog, dialing, todo, wire, dropped>>

\* The connection an end is on, and its direction towards that end.
Conn(e) == IF e = Host THEN serving ELSE e
To(e) == IF e = Host THEN "up" ELSE "down"
From(e) == IF e = Host THEN "down" ELSE "up"
Peer(e) == IF e = Host THEN serving ELSE Host

(***************************************************************************)
(* The scripts.  In code mode a SPAKE2 exchange turns the word into the    *)
(* pre-shared key of the Noise messages; in identity mode the three Noise  *)
(* messages carry the static keys, compared with the pin once the          *)
(* handshake is over.  The last message is the responder's ratchet key.    *)
(***************************************************************************)
Sends(tag) == [op |-> "send", tag |-> tag]
Awaits(tag) == [op |-> "await", tag |-> tag]
ChecksPin == [op |-> "check", tag |-> "pin"]

CodeInitiator ==
  <<Sends("pake"), Awaits("pake"), Sends("psk-e"), Awaits("e-ee"), Awaits("ratchet-key")>>
CodeResponder ==
  <<Awaits("pake"), Sends("pake"), Awaits("psk-e"), Sends("e-ee"), Sends("ratchet-key")>>
IdInitiator ==
  <<Sends("e"), Awaits("e-ee-s-es"), Sends("s-se"), ChecksPin, Awaits("ratchet-key")>>
IdResponder ==
  <<Awaits("e"), Sends("e-ee-s-es"), Awaits("s-se"), ChecksPin, Sends("ratchet-key")>>

Initiator == IF mode = "code" THEN CodeInitiator ELSE IdInitiator
Responder == IF mode = "code" THEN CodeResponder ELSE IdResponder

Message(e, tag) == [tag |-> tag, word |-> word[e]]

(* Mutant of Opens: any word will do.                                      *)
OpensAlways(e, m) == TRUE

(* The Noise messages of code mode open under the key of one's own word. *)
Opens(e, m) == m.tag \in {"psk-e", "e-ee"} => m.word = word[e]

PinHolds(e) == pin[e] \in {Anyone, Peer(e)}

\* What everybody brings along.  The host's word is as good as any other, and
\* what a silent one holds makes no difference; a dialer expects the host (as
\* good as anyone, there is no other listener) or by mistake somebody else.
Brings(e, choices, default) == IF e \in Silent THEN {default} ELSE choices
Credentials ==
  \/ /\ mode = "code" /\ pin = [e \in End |-> Anyone]
     /\ word \in {f \in [End -> Word] :
                   /\ f[Host] = CHOOSE w \in Word : TRUE
                   /\ \A d \in Dialer : f[d] \in Brings(d, Word, f[Host])}
  \/ /\ mode = "identity" /\ word = [e \in End |-> CHOOSE w \in Word : TRUE]
     /\ pin \in {f \in [End -> End \cup {Anyone}] :
                  /\ f[Host] \in Dialer \cup {Anyone}
                  /\ \A d \in Dialer : f[d] \in Brings(d, {Host, d}, Host)}

EstInit ==
  /\ Credentials
  /\ listener = "unbound" /\ serving = Nobody /\ backlog = <<>>
  /\ stage = [d \in Dialer |-> "dialing"] /\ dials = [d \in Dialer |-> 0]
  /\ todo = [e \in End |-> <<>>]
  /\ wire = [d \in Dialer |-> [up |-> <<>>, down |-> <<>>]] /\ dropped = {}

-----------------------------------------------------------------------------
(* Dialing *)

Bind ==
  /\ listener = "unbound" /\ listener' = "accepting"
  /\ UNCHANGED <<creds, serving, backlog, dialing, todo, wire, dropped>>

(* dial_with_retry: nobody answers while nothing is bound; once something  *)
(* is, the system takes the connection, whoever is being served.           *)
Dial(d) ==
  /\ stage[d] = "dialing"
  /\ IF listener \in {"unbound", "closed"}
     THEN /\ dials' = [dials EXCEPT ![d] = (@ + 1) % MaxDials]
          /\ stage' = [stage EXCEPT ![d] = IF dials'[d] = 0 THEN "over" ELSE @]
          /\ UNCHANGED <<backlog, todo>>
     ELSE /\ dials' = [dials EXCEPT ![d] = 0]
          /\ stage' = [stage EXCEPT ![d] = "shaking"]
          /\ backlog' = Append(backlog, d)
          /\ todo' = [todo EXCEPT ![d] = IF d \in Silent THEN <<>> ELSE Initiator]
  /\ UNCHANGED <<creds, listener, serving, wire, dropped>>

-----------------------------------------------------------------------------
(* Shaking hands *)

Accept ==
  /\ listener = "accepting" /\ backlog # <<>>
  /\ listener' = "shaking" /\ serving' = Head(backlog) /\ backlog' = Tail(backlog)
  /\ todo' = [todo EXCEPT ![Host] = Responder]
  /\ UNCHANGED <<creds, dialing, wire, dropped>>

(* The next line of the script of an end that is at it. *)
AtLine(e, op) == todo[e] # <<>> /\ Head(todo[e]).op = op
PeerGone(e) == IF e = Host THEN stage[serving] = "over" ELSE e \in dropped

(* The end has done one more line of its script; after the last it is up.  *)
Advance(e) ==
  /\ todo' = [todo EXCEPT ![e] = Tail(@)]
  /\ listener' = IF e = Host /\ Len(todo[e]) = 1 THEN "up" ELSE listener
  /\ stage' = IF e # Host /\ Len(todo[e]) = 1 THEN [stage EXCEPT ![e] = "up"] ELSE stage
  /\ UNCHANGED <<creds, serving, backlog, dials, dropped>>

(* Mutant of HostGivesUp: it does not go on to the next.                   *)
HostGivesUpForGood ==
  /\ UNCHANGED <<creds, listener, serving, backlog, dialing, wire>>
  /\ dropped' = dropped \cup {serving}
  /\ todo' = [todo EXCEPT ![Host] = <<>>]

(* The session and its listener end together; so do those in the backlog.  *)
CloseListener ==
  /\ listener' = "closed" /\ dropped' = dropped \cup {serving} \cup Range(backlog)
  /\ backlog' = <<>> /\ UNCHANGED serving

(* The listener drops this peer and goes on with the next one - but once   *)
(* the handshake is over it has been handed to drive, which ends with it.  *)
HostGivesUp ==
  /\ todo' = [todo EXCEPT ![Host] = <<>>]
  /\ IF Head(todo[Host]) = Sends("ratchet-key")
     THEN CloseListener
     ELSE /\ listener' = "accepting" /\ dropped' = dropped \cup {serving}
          /\ serving' = Nobody /\ UNCHANGED backlog
  /\ UNCHANGED <<creds, dialing, wire>>

(* A dialer that fails reports it and does not come back by itself; the    *)
(* listener still finds its connection in the backlog.                     *)
DialerGivesUp(d) ==
  /\ stage' = [stage EXCEPT ![d] = "over"]
  /\ todo' = [todo EXCEPT ![d] = <<>>]
  /\ UNCHANGED <<creds, listener, serving, backlog, dials, wire, dropped>>

GivesUp(e) == IF e = Host THEN HostGivesUp ELSE DialerGivesUp(e)

(* write_frame: a peer that is gone may be noticed now, or later. *)
Speak(e) ==
  /\ AtLine(e, "send")
  /\ \/ /\ Advance(e)
        /\ wire' = [wire EXCEPT ![Conn(e)][From(e)] =
                      Append(@, Message(e, Head(todo[e]).tag))]
     \/ PeerGone(e) /\ GivesUp(e)

(* read_frame, and what is done with the message. *)
Hear(e) ==
  /\ AtLine(e, "await") /\ wire[Conn(e)][To(e)] # <<>>
  /\ LET m == Head(wire[Conn(e)][To(e)])
     IN IF Opens(e, m)
        THEN Advance(e) /\ wire' = [wire EXCEPT ![Conn(e)][To(e)] = Tail(@)]
        ELSE GivesUp(e)

(* handshake's last check, after all messages are exchanged. *)
CheckPin(e) ==
  /\ AtLine(e, "check")
  /\ IF PinHolds(e) THEN Advance(e) /\ UNCHANGED wire ELSE GivesUp(e)

(* The connection is closed at the other end, or the timeout ends the wait *)
(* for a peer that has nothing to say: one that never speaks, or for a     *)
(* dialer, a listener that is busy with somebody else.                     *)
StopWaiting(e) ==
  /\ AtLine(e, "await") /\ wire[Conn(e)][To(e)] = <<>>
  /\ PeerGone(e) \/ (IF e = Host THEN serving \in Silent ELSE serving # e)
  /\ GivesUp(e)

EstStep(e) == Speak(e) \/ Hear(e) \/ CheckPin(e) \/ StopWaiting(e)
EstNext ==
  \/ Bind \/ Accept
  \/ \E d \in Dialer : Dial(d)
  \/ \E e \in End : EstStep(e)

-----------------------------------------------------------------------------
(* Properties *)

EstTypeOK ==
  /\ mode \in Mode /\ word \in [End -> Word] /\ pin \in [End -> End \cup {Anyone}]
  /\ listener \in {"unbound", "accepting", "shaking", "up", "closed"}
  /\ serving \in Dialer \cup {Nobody} /\ (serving = Nobody <=> listener \in {"unbound", "accepting"})
  /\ backlog \in Seq(Dialer) /\ \A i, j \in DOMAIN backlog : backlog[i] = backlog[j] => i = j
  /\ stage \in [Dialer -> {"dialing", "shaking", "up", "over"}]
  /\ dials \in [Dialer -> 0 .. MaxDials - 1] /\ dropped \subseteq Dialer

\* session.rs: "authenticated".  Whoever is let in holds the code word, or the
\* key the listener was told to expect, and likewise for the one who dialed;
\* and a dialer is up only with a listener that has finished with it too.
Authenticated ==
  /\ listener = "up" =>
       /\ serving \notin Silent
       /\ mode = "code" => word[serving] = word[Host]
       /\ pin[Host] \in {Anyone, serving}
  /\ \A d \in Dialer : stage[d] = "up" =>
       /\ listener \in {"up", "closed"} /\ serving = d
       /\ mode = "code" => word[d] = word[Host]
       /\ pin[d] \in {Anyone, Host}

\* "A bad or unauthenticated peer must not take the listener down", nor a
\* silent one: it gets through with whoever it has on its hands.
ListenerMovesOn == listener = "shaking" ~> listener # "shaking"

\* Both would let the other in.
Agree(d) ==
  /\ d \notin Silent
  /\ mode = "code" => word[d] = word[Host]
  /\ pin[Host] \in {Anyone, d} /\ pin[d] \in {Anyone, Host}
============================================================================
