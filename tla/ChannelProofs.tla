--------------------------- MODULE ChannelProofs ---------------------------
(***************************************************************************)
(* For any number of dialers, silent ones among them, any words and pins,  *)
(* and any order in which they dial, shake hands, give up, sign off and    *)
(* are cut off: whoever is let in is who was to be let in, and both ends   *)
(* of a session are on it.                                                 *)
(***************************************************************************)
EXTENDS SealedChannel, SequenceTheorems, TLAPS

-----------------------------------------------------------------------------
(* The scripts, as tables.  Every script has five lines; after n of them,  *)
(* an end has done its part of so many messages to the host (Up), and of   *)
(* so many to the dialer (Down).  It is the same number for the one who    *)
(* sends them and the one who awaits them.                                 *)

Tag == {"pake", "psk-e", "e-ee", "ratchet-key", "e", "e-ee-s-es", "s-se", "pin", "sync", "frame"}
Line == [op : {"send", "await", "check"}, tag : Tag]
Rest(script, n) == [i \in 1 .. 5 - n |-> script[n + i]]

UpTags == IF mode = "code" THEN <<"pake", "psk-e">> ELSE <<"e", "s-se">>
DownTags ==
  IF mode = "code" THEN <<"pake", "e-ee", "ratchet-key">> ELSE <<"e-ee-s-es", "ratchet-key">>

Up(n) == IF n >= 3 THEN 2 ELSE IF n >= 1 THEN 1 ELSE 0
Down(n) ==
  IF n >= 5 THEN Len(DownTags)
  ELSE IF n >= 4 THEN Len(DownTags) - 1
  ELSE IF n >= 2 THEN 1 ELSE 0

-----------------------------------------------------------------------------
(* How far everybody is. *)

At(e) == 5 - Len(todo[e])
Shaking(d) == stage[d] = "shaking" /\ d \notin Silent
\* The host is through with the handshake of the dialer it serves.
Through == listener \in {"up", "closed"}
\* How far the host is in the handshake with this one.
HostAt(d) == IF serving = d THEN At(Host) ELSE 0

Mail == [tag : Tag, word : Word]
EstTypes ==
  /\ mode \in Mode /\ word \in [End -> Word] /\ pin \in [End -> End \cup {Anyone}]
  /\ listener \in {"unbound", "accepting", "shaking", "up", "closed"}
  /\ serving \in Dialer \cup {Nobody} /\ (serving = Nobody <=> listener \in {"unbound", "accepting"})
  /\ backlog \in Seq(Dialer)
  /\ stage \in [Dialer -> {"dialing", "shaking", "up", "over"}]
  /\ dials \in [Dialer -> 0 .. MaxDials - 1] /\ dropped \subseteq Dialer
  /\ todo \in [End -> Seq(Line)]
  /\ wire \in [Dialer -> [up : Seq(Mail), down : Seq(Mail)]]

\* Each one dials once, and is waiting, served or dropped from then on.
Waits ==
  /\ \A i, j \in DOMAIN backlog : backlog[i] = backlog[j] => i = j
  /\ \A i \in DOMAIN backlog :
       stage[backlog[i]] # "dialing" /\ backlog[i] # serving /\ backlog[i] \notin dropped
  /\ \A d \in Dialer : stage[d] = "dialing" =>
       /\ d # serving /\ d \notin dropped
       /\ wire[d].up = <<>> /\ wire[d].down = <<>>
  /\ listener = "closed" => backlog = <<>>
  /\ serving \in dropped => listener = "closed"

\* Who the host has let through a check has been checked.
HostOK ==
  /\ IF listener = "shaking"
     THEN Len(todo[Host]) \in 1 .. 5 /\ todo[Host] = Rest(Responder, At(Host))
     ELSE todo[Host] = <<>>
  /\ serving # Nobody =>
       /\ At(Host) >= 1 => serving \notin Silent
       /\ At(Host) >= 3 => (mode = "code" => word[serving] = word[Host])
       /\ At(Host) >= 4 => pin[Host] \in {Anyone, serving}
  /\ mode = "code" => pin = [e \in End |-> Anyone]
  /\ Host \in voice => Through

ScriptOK(d) ==
  IF Shaking(d) THEN Len(todo[d]) \in 1 .. 5 /\ todo[d] = Rest(Initiator, At(d))
  ELSE todo[d] = <<>>

\* The host has yet to hear what the dialer has said.
UpOK(d) ==
  d \notin dropped /\ ~(serving = d /\ Through) =>
    LET h == Up(HostAt(d)) IN
    /\ h + Len(wire[d].up) <= 2
    /\ \A i \in DOMAIN wire[d].up : wire[d].up[i].tag = UpTags[h + i]
    /\ Shaking(d) => h + Len(wire[d].up) = Up(At(d))

\* The dialer has yet to hear what the host has said, of which the last is
\* said by a host that is through with it.
DownOK(d) ==
  Shaking(d) =>
    LET n == Down(At(d)) IN
    /\ n + Len(wire[d].down) <= Len(DownTags)
    /\ \A i \in DOMAIN wire[d].down : wire[d].down[i].tag = DownTags[n + i]
    /\ ~(serving = d /\ Through) => n + Len(wire[d].down) < Len(DownTags)
    /\ d \notin dropped /\ ~(serving = d /\ Through) =>
         n + Len(wire[d].down) = Down(HostAt(d))

\* A host that is through has heard all that a dialer still at it will say.
HeardOut(d) ==
  Shaking(d) /\ serving = d /\ Through =>
    At(d) >= 3 /\ wire[d].up = <<>> /\ Host \notin voice

\* Every message is sealed with the word of its sender; the silent send none.
Sealed(d) ==
  /\ \A i \in DOMAIN wire[d].up : wire[d].up[i].word = word[d]
  /\ \A i \in DOMAIN wire[d].down : wire[d].down[i].word = word[Host]
  /\ d \in Silent => wire[d].up = <<>> /\ stage[d] # "up"

\* Whoever got past a check has made it.
Checked(d) ==
  /\ stage[d] = "up" \/ (Shaking(d) /\ At(d) >= 4) =>
       /\ mode = "code" => word[d] = word[Host]
       /\ pin[d] \in {Anyone, Host}
  /\ stage[d] = "up" => serving = d /\ Through

DialerOK(d) ==
  ScriptOK(d) /\ UpOK(d) /\ DownOK(d) /\ HeardOut(d) /\ Sealed(d) /\ Checked(d)

ChanTypes ==
  /\ voice \subseteq End /\ spoken \in [End -> 0 .. MaxFrames] /\ frames \in [End -> 0 .. FrameCap]
  /\ link \in {"up", "broken", "left"}

IInv == EstTypes /\ ChanTypes /\ Waits /\ HostOK /\ \A d \in Dialer : DialerOK(d)

-----------------------------------------------------------------------------
(* The tables agree with the scripts. *)

\* The next line of what is left of a script, and what is left then.
LEMMA RestFacts ==
  ASSUME NEW script \in Seq(Line), Len(script) = 5, NEW n \in 0 .. 4
  PROVE  /\ Rest(script, n) \in Seq(Line) /\ Rest(script, n) # <<>>
         /\ Len(Rest(script, n)) = 5 - n
         /\ Head(Rest(script, n)) = script[n + 1]
         /\ Tail(Rest(script, n)) = Rest(script, n + 1)
  <1>1. /\ Rest(script, n) \in Seq(Line) /\ Len(Rest(script, n)) = 5 - n
        /\ \A i \in 1 .. 5 - n : Rest(script, n)[i] = script[n + i]
    BY DEF Rest
  <1>2. /\ Rest(script, n + 1) \in Seq(Line) /\ Len(Rest(script, n + 1)) = 4 - n
        /\ \A i \in 1 .. 4 - n : Rest(script, n + 1)[i] = script[n + 1 + i]
    BY DEF Rest
  <1> DEFINE a == Rest(script, n)
             b == Rest(script, n + 1)
  <1>3. /\ a # <<>> /\ Head(a) = script[n + 1]
    <2> HIDE DEF a
    <2> QED
      BY <1>1 DEF a
  <1>4. Tail(a) = b
    <2>1. a \in Seq(Line) /\ b \in Seq(Line) /\ Len(a) = 5 - n /\ Len(b) = 4 - n
      BY <1>1, <1>2
    <2>2. \A i \in 1 .. 4 - n : a[i + 1] = script[n + 1 + i] /\ b[i] = script[n + 1 + i]
      BY <1>1, <1>2
    <2> HIDE DEF a, b
    <2>3. Tail(a) \in Seq(Line) /\ Len(Tail(a)) = 4 - n /\ \A i \in 1 .. 4 - n : Tail(a)[i] = a[i + 1]
      BY <2>1, <1>3 DEF a
    <2> QED
      BY <2>1, <2>2, <2>3
  <1> QED
    BY <1>1, <1>3, <1>4

\* The tail of a sequence.
LEMMA TailFacts ==
  ASSUME NEW S, NEW s \in Seq(S), s # <<>>
  PROVE  /\ Tail(s) \in Seq(S) /\ Len(Tail(s)) = Len(s) - 1
         /\ \A i \in 1 .. Len(s) - 1 : Tail(s)[i] = s[i + 1]
         /\ Len(s) = 1 => Tail(s) = <<>>
         /\ Len(s) \in Nat \ {0} /\ Head(s) = s[1]
  OBVIOUS

\* One more element.
LEMMA AppendFacts ==
  ASSUME NEW S, NEW s \in Seq(S), NEW x \in S
  PROVE  /\ \A i \in DOMAIN Append(s, x) : i \in DOMAIN s \/ (Append(s, x)[i] = x /\ i = Len(s) + 1)
         /\ \A i \in DOMAIN s : Append(s, x)[i] = s[i] /\ s[i] \in S
  OBVIOUS

\* One line less.
LEMMA ShorterBy ==
  ASSUME NEW s \in Seq(Line), NEW n \in 0 .. 4, Len(s) = 5 - n, s # <<>>
  PROVE  /\ Tail(s) \in Seq(Line) /\ Len(Tail(s)) = 4 - n
         /\ n = 4 => Tail(s) = <<>>
         /\ n # 4 => Len(Tail(s)) \in 1 .. 5
  <1>1. /\ Tail(s) \in Seq(Line) /\ Len(Tail(s)) = Len(s) - 1
        /\ Len(s) = 1 => Tail(s) = <<>>
    BY TailFacts, Zenon
  <1>2. Len(Tail(s)) = 4 - n
    BY <1>1
  <1>3. n = 4 => Tail(s) = <<>>
    BY <1>1
  <1>4. n # 4 => Len(Tail(s)) \in 1 .. 5
    <2>1. \A k \in 0 .. 4 : k # 4 => 4 - k \in 1 .. 5
      OBVIOUS
    <2> QED
      BY <1>2, <2>1, Zenon
  <1> QED
    BY <1>1, <1>2, <1>3, <1>4, Zenon

\* What is left at the start is all, and nothing after the last line.
LEMMA RestEnds ==
  ASSUME NEW script \in Seq(Line), Len(script) = 5
  PROVE  Rest(script, 0) = script /\ Rest(script, 5) = <<>>
  BY DEF Rest

\* The scripts are scripts, the tables as long as they.
LEMMA ScriptTypes ==
  ASSUME mode \in Mode
  PROVE  /\ Initiator \in Seq(Line) /\ Len(Initiator) = 5
         /\ Responder \in Seq(Line) /\ Len(Responder) = 5
         /\ Len(UpTags) = 2 /\ Len(DownTags) \in {2, 3}
  <1>1. \A t \in Tag : Sends(t) \in Line /\ Awaits(t) \in Line
    BY DEF Sends, Awaits, Line
  <1>2. ChecksPin \in Line
    BY DEF ChecksPin, Line, Tag
  <1>3. CodeInitiator \in Seq(Line) /\ Len(CodeInitiator) = 5
    <2>1. /\ Sends("pake") \in Line /\ Awaits("pake") \in Line /\ Sends("psk-e") \in Line
          /\ Awaits("e-ee") \in Line /\ Awaits("ratchet-key") \in Line
      BY <1>1 DEF Tag
    <2> QED
      BY <2>1 DEF CodeInitiator
  <1>4. CodeResponder \in Seq(Line) /\ Len(CodeResponder) = 5
    <2>1. /\ Awaits("pake") \in Line /\ Sends("pake") \in Line /\ Awaits("psk-e") \in Line
          /\ Sends("e-ee") \in Line /\ Sends("ratchet-key") \in Line
      BY <1>1 DEF Tag
    <2> QED
      BY <2>1 DEF CodeResponder
  <1>5. IdInitiator \in Seq(Line) /\ Len(IdInitiator) = 5
    <2>1. /\ Sends("e") \in Line /\ Awaits("e-ee-s-es") \in Line /\ Sends("s-se") \in Line
          /\ Awaits("ratchet-key") \in Line
      BY <1>1 DEF Tag
    <2> QED
      BY <1>2, <2>1 DEF IdInitiator
  <1>6. IdResponder \in Seq(Line) /\ Len(IdResponder) = 5
    <2>1. /\ Awaits("e") \in Line /\ Sends("e-ee-s-es") \in Line /\ Awaits("s-se") \in Line
          /\ Sends("ratchet-key") \in Line
      BY <1>1 DEF Tag
    <2> QED
      BY <1>2, <2>1 DEF IdResponder
  <1>7. Len(UpTags) = 2 /\ Len(DownTags) \in {2, 3}
    BY DEF UpTags, DownTags
  <1> QED
    BY <1>3, <1>4, <1>5, <1>6, <1>7 DEF Initiator, Responder

\* Each line of the host's script.
LEMMA ResponderLine ==
  ASSUME mode \in Mode, NEW n \in 0 .. 4
  PROVE  LET l == Responder[n + 1] IN
         /\ l.op = "send" =>
              /\ Up(n + 1) = Up(n) /\ Down(n + 1) = Down(n) + 1 /\ DownTags[Down(n + 1)] = l.tag
         /\ l.op = "await" => Up(n + 1) = Up(n) + 1 /\ Down(n + 1) = Down(n)
         /\ l.op = "check" => Up(n + 1) = Up(n) /\ Down(n + 1) = Down(n) /\ n = 3
         /\ l.op \in {"send", "await", "check"}
         /\ l = Sends("ratchet-key") <=> n = 4
         /\ n = 0 => l.op = "await"
         /\ n = 2 /\ mode = "code" => l.op = "await" /\ UpTags[Up(n) + 1] = "psk-e"
         /\ n = 3 /\ mode = "identity" => l.op = "check"
  <1>1. CASE mode = "code"
    <2>1. /\ Responder[1] = Awaits("pake") /\ Responder[2] = Sends("pake")
          /\ Responder[3] = Awaits("psk-e") /\ Responder[4] = Sends("e-ee")
          /\ Responder[5] = Sends("ratchet-key")
      BY <1>1 DEF Responder, CodeResponder
    <2>2. /\ Len(DownTags) = 3 /\ DownTags[1] = "pake" /\ DownTags[2] = "e-ee"
          /\ DownTags[3] = "ratchet-key" /\ UpTags[2] = "psk-e"
      BY <1>1 DEF DownTags, UpTags
    <2>3. CASE n = 0
      BY <2>1, <2>2, <2>3 DEF Up, Down, Sends, Awaits
    <2>4. CASE n = 1
      BY <2>1, <2>2, <2>4 DEF Up, Down, Sends, Awaits
    <2>5. CASE n = 2
      BY <2>1, <2>2, <2>5 DEF Up, Down, Sends, Awaits
    <2>6. CASE n = 3
      BY <2>1, <2>2, <2>6, <1>1 DEF Up, Down, Sends, Awaits
    <2>7. CASE n = 4
      BY <2>1, <2>2, <2>7 DEF Up, Down, Sends, Awaits
    <2> QED
      BY <2>3, <2>4, <2>5, <2>6, <2>7
  <1>2. CASE mode = "identity"
    <2>1. /\ Responder[1] = Awaits("e") /\ Responder[2] = Sends("e-ee-s-es")
          /\ Responder[3] = Awaits("s-se") /\ Responder[4] = ChecksPin
          /\ Responder[5] = Sends("ratchet-key")
      BY <1>2 DEF Responder, IdResponder
    <2>2. /\ Len(DownTags) = 2 /\ DownTags[1] = "e-ee-s-es" /\ DownTags[2] = "ratchet-key"
      BY <1>2 DEF DownTags
    <2>3. CASE n = 0
      BY <2>1, <2>2, <2>3 DEF Up, Down, Sends, Awaits
    <2>4. CASE n = 1
      BY <2>1, <2>2, <2>4 DEF Up, Down, Sends, Awaits
    <2>5. CASE n = 2
      BY <1>2, <2>1, <2>2, <2>5 DEF Up, Down, Sends, Awaits
    <2>6. CASE n = 3
      BY <2>1, <2>2, <2>6 DEF Up, Down, Sends, Awaits, ChecksPin
    <2>7. CASE n = 4
      BY <2>1, <2>2, <2>7 DEF Up, Down, Sends, Awaits
    <2> QED
      BY <2>3, <2>4, <2>5, <2>6, <2>7
  <1> QED
    BY <1>1, <1>2 DEF Mode

\* Each line of the dialer's.
LEMMA InitiatorLine ==
  ASSUME mode \in Mode, NEW n \in 0 .. 4
  PROVE  LET l == Initiator[n + 1] IN
         /\ l.op = "send" =>
              /\ Down(n + 1) = Down(n) /\ Up(n + 1) = Up(n) + 1 /\ UpTags[Up(n + 1)] = l.tag
              /\ n < 3
         /\ l.op = "await" => Down(n + 1) = Down(n) + 1 /\ Up(n + 1) = Up(n)
         /\ l.op = "check" => Down(n + 1) = Down(n) /\ Up(n + 1) = Up(n) /\ n = 3
         /\ l.op \in {"send", "await", "check"}
         /\ n = 3 /\ mode = "code" => l.op = "await" /\ DownTags[Down(n) + 1] = "e-ee"
         /\ n = 3 /\ mode = "identity" => l.op = "check"
         /\ n = 4 => l.op = "await" /\ Down(n) = Len(DownTags) - 1
         /\ Up(n) <= 2 /\ (Up(n) = 2 <=> n >= 3)
  <1>1. CASE mode = "code"
    <2>1. /\ Initiator[1] = Sends("pake") /\ Initiator[2] = Awaits("pake")
          /\ Initiator[3] = Sends("psk-e") /\ Initiator[4] = Awaits("e-ee")
          /\ Initiator[5] = Awaits("ratchet-key")
      BY <1>1 DEF Initiator, CodeInitiator
    <2>2. /\ Len(DownTags) = 3 /\ DownTags[2] = "e-ee"
          /\ UpTags[1] = "pake" /\ UpTags[2] = "psk-e"
      BY <1>1 DEF DownTags, UpTags
    <2>3. CASE n = 0
      BY <2>1, <2>2, <2>3 DEF Up, Down, Sends, Awaits
    <2>4. CASE n = 1
      BY <2>1, <2>2, <2>4 DEF Up, Down, Sends, Awaits
    <2>5. CASE n = 2
      BY <2>1, <2>2, <2>5 DEF Up, Down, Sends, Awaits
    <2>6. CASE n = 3
      BY <2>1, <2>2, <2>6, <1>1 DEF Up, Down, Sends, Awaits
    <2>7. CASE n = 4
      BY <2>1, <2>2, <2>7 DEF Up, Down, Sends, Awaits
    <2> QED
      BY <2>3, <2>4, <2>5, <2>6, <2>7
  <1>2. CASE mode = "identity"
    <2>1. /\ Initiator[1] = Sends("e") /\ Initiator[2] = Awaits("e-ee-s-es")
          /\ Initiator[3] = Sends("s-se") /\ Initiator[4] = ChecksPin
          /\ Initiator[5] = Awaits("ratchet-key")
      BY <1>2 DEF Initiator, IdInitiator
    <2>2. /\ Len(DownTags) = 2 /\ UpTags[1] = "e" /\ UpTags[2] = "s-se"
      BY <1>2 DEF DownTags, UpTags
    <2>3. CASE n = 0
      BY <2>1, <2>2, <2>3 DEF Up, Down, Sends, Awaits
    <2>4. CASE n = 1
      BY <2>1, <2>2, <2>4 DEF Up, Down, Sends, Awaits
    <2>5. CASE n = 2
      BY <2>1, <2>2, <2>5 DEF Up, Down, Sends, Awaits
    <2>6. CASE n = 3
      BY <1>2, <2>1, <2>2, <2>6 DEF Up, Down, Sends, Awaits, ChecksPin
    <2>7. CASE n = 4
      BY <2>1, <2>2, <2>7 DEF Up, Down, Sends, Awaits
    <2> QED
      BY <2>3, <2>4, <2>5, <2>6, <2>7
  <1> QED
    BY <1>1, <1>2 DEF Mode

-----------------------------------------------------------------------------
(* What is on its way *)

Wires == [Dialer -> [up : Seq(Mail), down : Seq(Mail)]]

Says(e, tag) == wire' = [wire EXCEPT ![Conn(e)][From(e)] = Append(@, Message(e, tag))]
Takes(e) == wire' = [wire EXCEPT ![Conn(e)][To(e)] = Tail(@)]

\* What an end says, it says on its connection.
LEMMA Said ==
  ASSUME EstTypes, NEW e \in End, NEW tag \in Tag, NEW d \in Dialer, d = Conn(e), Says(e, tag)
  PROVE  /\ wire' \in Wires
         /\ IF e = Host
            THEN wire'[d].down = Append(wire[d].down, Message(e, tag)) /\ wire'[d].up = wire[d].up
            ELSE wire'[d].up = Append(wire[d].up, Message(e, tag)) /\ wire'[d].down = wire[d].down
         /\ \A c \in Dialer : c # d => wire'[c] = wire[c]
         /\ Message(e, tag) \in Mail
  <1>1. Message(e, tag) \in Mail
    BY DEF Message, Mail, EstTypes
  <1>2. wire \in Wires /\ wire[d].up \in Seq(Mail) /\ wire[d].down \in Seq(Mail)
    BY DEF EstTypes, Wires
  <1>3. /\ Append(wire[d].up, Message(e, tag)) \in Seq(Mail)
        /\ Append(wire[d].down, Message(e, tag)) \in Seq(Mail)
    BY <1>1, <1>2
  <1>4. CASE e = Host
    <2> DEFINE x == Append(wire[d].down, Message(e, tag))
    <2>1. wire' = [wire EXCEPT ![d]["down"] = x] /\ x \in Seq(Mail)
      BY <1>4, <1>2, <1>3 DEF Says, From, Wires
    <2> HIDE DEF x
    <2>2. /\ wire' \in Wires /\ wire'[d].down = x /\ wire'[d].up = wire[d].up
          /\ \A c \in Dialer : c # d => wire'[c] = wire[c]
      BY <2>1, <1>2 DEF Wires
    <2> QED
      BY <2>1, <2>2, <1>1, <1>4 DEF x
  <1>5. CASE e # Host
    <2> DEFINE x == Append(wire[d].up, Message(e, tag))
    <2>1. wire' = [wire EXCEPT ![d]["up"] = x] /\ x \in Seq(Mail)
      BY <1>5, <1>2, <1>3 DEF Says, From, Wires
    <2> HIDE DEF x
    <2>2. /\ wire' \in Wires /\ wire'[d].up = x /\ wire'[d].down = wire[d].down
          /\ \A c \in Dialer : c # d => wire'[c] = wire[c]
      BY <2>1, <1>2 DEF Wires
    <2> QED
      BY <2>1, <2>2, <1>1, <1>5 DEF x
  <1> QED
    BY <1>4, <1>5

\* What it hears, it takes off it.
LEMMA Taken ==
  ASSUME EstTypes, NEW e \in End, NEW d \in Dialer, d = Conn(e), wire[Conn(e)][To(e)] # <<>>,
         Takes(e)
  PROVE  /\ wire' \in Wires
         /\ IF e = Host
            THEN wire'[d].up = Tail(wire[d].up) /\ wire'[d].down = wire[d].down /\ wire[d].up # <<>>
            ELSE wire'[d].down = Tail(wire[d].down) /\ wire'[d].up = wire[d].up /\ wire[d].down # <<>>
         /\ \A c \in Dialer : c # d => wire'[c] = wire[c]
  <1>2. wire \in Wires /\ wire[d].up \in Seq(Mail) /\ wire[d].down \in Seq(Mail)
    BY DEF EstTypes, Wires
  <1>4. CASE e = Host
    <2> DEFINE x == Tail(wire[d].up)
    <2>1. wire' = [wire EXCEPT ![d]["up"] = x] /\ x \in Seq(Mail) /\ wire[d].up # <<>>
      BY <1>4, <1>2 DEF Takes, To, Wires
    <2> HIDE DEF x
    <2>2. /\ wire' \in Wires /\ wire'[d].up = x /\ wire'[d].down = wire[d].down
          /\ \A c \in Dialer : c # d => wire'[c] = wire[c]
      BY <2>1, <1>2 DEF Wires
    <2> QED
      BY <2>1, <2>2, <1>4 DEF x
  <1>5. CASE e # Host
    <2> DEFINE x == Tail(wire[d].down)
    <2>1. wire' = [wire EXCEPT ![d]["down"] = x] /\ x \in Seq(Mail) /\ wire[d].down # <<>>
      BY <1>5, <1>2 DEF Takes, To, Wires
    <2> HIDE DEF x
    <2>2. /\ wire' \in Wires /\ wire'[d].down = x /\ wire'[d].up = wire[d].up
          /\ \A c \in Dialer : c # d => wire'[c] = wire[c]
      BY <2>1, <1>2 DEF Wires
    <2> QED
      BY <2>1, <2>2, <1>5 DEF x
  <1> QED
    BY <1>4, <1>5

-----------------------------------------------------------------------------
(* Who is at a handshake, and where *)

\* A dialer at its handshake has a line to do.
LEMMA DialerAt ==
  ASSUME NEW d \in Dialer, ScriptOK(d), Shaking(d)
  PROVE  At(d) \in 0 .. 5 /\ At(d) \in 0 .. 4
  <1>1. \A n \in 1 .. 5 : 5 - n \in 0 .. 4 /\ 5 - n \in 0 .. 5
    OBVIOUS
  <1> QED
    BY <1>1, Zenon DEF ScriptOK, At

\* A host with lines to do shakes hands with a dialer it has not dropped.
LEMMA HostBusy ==
  ASSUME IInv, todo[Host] # <<>>
  PROVE  /\ listener = "shaking" /\ serving \in Dialer /\ serving # Nobody /\ ~Through
         /\ serving \notin dropped /\ Host \notin voice
         /\ At(Host) \in 0 .. 4 /\ Len(todo[Host]) = 5 - At(Host)
         /\ Head(todo[Host]) = Responder[At(Host) + 1]
         /\ Tail(todo[Host]) = Rest(Responder, At(Host) + 1)
         /\ HostAt(serving) = At(Host)
  <1>1. listener = "shaking" /\ Len(todo[Host]) \in 1 .. 5 /\ todo[Host] = Rest(Responder, At(Host))
    BY DEF IInv, HostOK
  <1>2. At(Host) \in 0 .. 4 /\ Len(todo[Host]) = 5 - At(Host)
    <2>1. \A n \in 1 .. 5 : 5 - n \in 0 .. 4 /\ n = 5 - (5 - n)
      OBVIOUS
    <2> QED
      BY <1>1, <2>1, Zenon DEF At
  <1>3. serving \in Dialer /\ serving # Nobody /\ serving \notin dropped /\ ~Through
    BY <1>1 DEF IInv, EstTypes, Waits, Through
  <1>4. Responder \in Seq(Line) /\ Len(Responder) = 5
    BY ScriptTypes DEF IInv, EstTypes
  <1>5. Host \notin voice
    BY <1>3 DEF IInv, HostOK
  <1>6. /\ Head(Rest(Responder, At(Host))) = Responder[At(Host) + 1]
        /\ Tail(Rest(Responder, At(Host))) = Rest(Responder, At(Host) + 1)
    BY <1>2, <1>4, RestFacts
  <1> QED
    BY <1>1, <1>2, <1>3, <1>5, <1>6 DEF HostAt

\* So does a dialer with lines to do.
LEMMA DialerBusy ==
  ASSUME IInv, NEW d \in Dialer, todo[d] # <<>>
  PROVE  /\ Shaking(d) /\ At(d) \in 0 .. 4 /\ Len(todo[d]) = 5 - At(d)
         /\ Head(todo[d]) = Initiator[At(d) + 1]
         /\ Tail(todo[d]) = Rest(Initiator, At(d) + 1)
  <1>1. Shaking(d) /\ Len(todo[d]) \in 1 .. 5 /\ todo[d] = Rest(Initiator, At(d))
    BY DEF IInv, DialerOK, ScriptOK
  <1>2. At(d) \in 0 .. 4 /\ Len(todo[d]) = 5 - At(d)
    <2>1. \A n \in 1 .. 5 : 5 - n \in 0 .. 4 /\ n = 5 - (5 - n)
      OBVIOUS
    <2> QED
      BY <1>1, <2>1, Zenon DEF At
  <1>4. Initiator \in Seq(Line) /\ Len(Initiator) = 5
    BY ScriptTypes DEF IInv, EstTypes
  <1>5. /\ Head(Rest(Initiator, At(d))) = Initiator[At(d) + 1]
        /\ Tail(Rest(Initiator, At(d))) = Rest(Initiator, At(d) + 1)
    BY <1>2, <1>4, RestFacts
  <1> QED
    BY <1>1, <1>2, <1>5

\* A dialer is not touched by what goes on elsewhere: while it makes no step,
\* nothing is written on its connection, and the host, if it is with it, stays
\* where it is in its handshake or drops the connection.
LEMMA Aside ==
  ASSUME NEW c \in Dialer, DialerOK(c), UNCHANGED creds,
         stage'[c] = stage[c], todo'[c] = todo[c], wire'[c] = wire[c],
         dropped \subseteq dropped',
         (serving = c /\ Through) <=> (serving = c /\ Through)',
         HostAt(c)' = HostAt(c) \/ c \in dropped',
         Host \in voice' => Host \in voice \/ ~(serving = c /\ Through /\ Shaking(c))
  PROVE  DialerOK(c)'
  <1>1. /\ Shaking(c)' <=> Shaking(c)
        /\ At(c)' = At(c) /\ UpTags' = UpTags /\ DownTags' = DownTags /\ Initiator' = Initiator
    BY DEF Shaking, At, UpTags, DownTags, Initiator, creds
  <1>2. ScriptOK(c)'
    BY <1>1 DEF DialerOK, ScriptOK
  <1>3. UpOK(c)'
    BY <1>1 DEF DialerOK, UpOK
  <1>4. DownOK(c)'
    <2>1. SUFFICES ASSUME Shaking(c)' PROVE DownOK(c)'
      BY DEF DownOK
    <2>2. Down(At(c))' = Down(At(c))
      BY <1>1 DEF Down
    <2>3. c \notin dropped' => Down(HostAt(c))' = Down(HostAt(c))
      BY <1>1 DEF Down
    <2> QED
      BY <1>1, <2>1, <2>2, <2>3 DEF DialerOK, DownOK
  <1>5. HeardOut(c)'
    BY <1>1 DEF DialerOK, HeardOut
  <1>6. Sealed(c)'
    BY DEF DialerOK, Sealed, creds
  <1>7. Checked(c)'
    BY <1>1 DEF DialerOK, Checked, creds
  <1> QED
    BY <1>2, <1>3, <1>4, <1>5, <1>6, <1>7 DEF DialerOK

-----------------------------------------------------------------------------
(* A line of the host's script *)

\* The host does one more line: nobody but the dialer it serves notices, and
\* the lines that check something have found it in order.
LEMMA HostAdvance ==
  ASSUME IInv, UNCHANGED chanVars, todo[Host] # <<>>, Advance(Host), wire' \in Wires,
         NEW d \in Dialer, d = serving, DialerOK(d)',
         \A c \in Dialer : c # serving => wire'[c] = wire[c],
         At(Host) = 0 => serving \notin Silent,
         At(Host) = 2 => (mode = "code" => word[serving] = word[Host]),
         At(Host) = 3 => pin[Host] \in {Anyone, serving}
  PROVE  IInv'
  <1>1. /\ listener = "shaking" /\ serving \in Dialer /\ serving # Nobody /\ ~Through
        /\ serving \notin dropped /\ Host \notin voice
        /\ At(Host) \in 0 .. 4 /\ Len(todo[Host]) = 5 - At(Host)
        /\ Tail(todo[Host]) = Rest(Responder, At(Host) + 1)
    BY HostBusy
  <1>2. /\ UNCHANGED <<creds, serving, backlog, stage, dials, dropped>>
        /\ todo' = [todo EXCEPT ![Host] = Tail(todo[Host])]
        /\ listener' = IF Len(todo[Host]) = 1 THEN "up" ELSE listener
    BY DEF Advance
  <1>3. todo \in [End -> Seq(Line)] /\ Host \in End /\ todo[Host] \in Seq(Line) /\ Dialer \subseteq End
    BY DEF IInv, EstTypes, End
  <1>4. /\ Tail(todo[Host]) \in Seq(Line) /\ Len(Tail(todo[Host])) = 4 - At(Host)
        /\ At(Host) = 4 => Tail(todo[Host]) = <<>>
        /\ At(Host) # 4 => Len(Tail(todo[Host])) \in 1 .. 5
    BY <1>1, <1>3, ShorterBy, Zenon
  <1>5. /\ todo' \in [End -> Seq(Line)] /\ todo'[Host] = Tail(todo[Host])
        /\ \A c \in Dialer : todo'[c] = todo[c]
    BY <1>2, <1>3, <1>4, EstablishAssumption
  <1>6. At(Host)' = At(Host) + 1
    <2>1. \A n \in 0 .. 4 : 5 - (4 - n) = n + 1
      OBVIOUS
    <2> QED
      BY <1>1, <1>4, <1>5, <2>1, Zenon DEF At
  <1>7. IF At(Host) = 4 THEN listener' = "up" ELSE listener' = "shaking"
    BY <1>1, <1>2
  <1>8. EstTypes'
    BY <1>1, <1>2, <1>5, <1>7 DEF IInv, EstTypes, creds, Wires
  <1>9. ChanTypes'
    BY DEF IInv, ChanTypes, chanVars
  <1>10. Waits'
    BY <1>1, <1>2, <1>7 DEF IInv, Waits
  <1>11. HostOK'
    <2>1. IF listener' = "shaking"
          THEN Len(todo'[Host]) \in 1 .. 5 /\ todo'[Host] = Rest(Responder, At(Host))'
          ELSE todo'[Host] = <<>>
      <3>1. Rest(Responder, At(Host))' = Rest(Responder, At(Host) + 1)
        BY <1>2, <1>6 DEF Rest, Responder, creds
      <3>2. CASE At(Host) = 4
        BY <1>4, <1>5, <1>7, <3>2, Zenon
      <3>3. CASE At(Host) # 4
        BY <1>1, <1>4, <1>5, <1>7, <3>1, <3>3, Zenon
      <3> QED
        BY <3>2, <3>3
    <2>2. serving' # Nobody =>
            /\ At(Host)' >= 1 => serving' \notin Silent
            /\ At(Host)' >= 3 => (mode' = "code" => word'[serving'] = word'[Host])
            /\ At(Host)' >= 4 => pin'[Host] \in {Anyone, serving'}
      <3>1. /\ At(Host) >= 1 => serving \notin Silent
            /\ At(Host) >= 3 => (mode = "code" => word[serving] = word[Host])
            /\ At(Host) >= 4 => pin[Host] \in {Anyone, serving}
        BY <1>1 DEF IInv, HostOK
      <3>2. UNCHANGED <<mode, word, pin, serving>>
        BY <1>2 DEF creds
      <3> QED
        BY <1>1, <1>6, <3>1, <3>2
    <2>3. mode' = "code" => pin' = [e \in End |-> Anyone]
      BY <1>2 DEF IInv, HostOK, creds
    <2>4. Host \notin voice'
      BY <1>1 DEF chanVars
    <2> QED
      BY <2>1, <2>2, <2>3, <2>4 DEF HostOK
  <1>12. ASSUME NEW c \in Dialer PROVE DialerOK(c)'
    <2>1. CASE c = serving
      <3>1. c = d
        BY <2>1
      <3> QED
        BY <3>1
    <2>2. CASE c # serving
      <3>1. DialerOK(c)
        BY DEF IInv
      <3>2. /\ ~(serving = c /\ Through) /\ ~(serving = c /\ Through)'
            /\ HostAt(c)' = HostAt(c)
        BY <1>2, <2>2 DEF HostAt
      <3>3. Host \notin voice'
        BY <1>1 DEF chanVars
      <3> QED
        BY <1>2, <1>5, <2>2, <3>1, <3>2, <3>3, Aside
    <2> QED
      BY <2>1, <2>2
  <1> QED
    BY <1>8, <1>9, <1>10, <1>11, <1>12 DEF IInv

\* What the tables range over.
LEMMA TableFacts ==
  ASSUME mode \in Mode, NEW n \in 0 .. 5
  PROVE  /\ Up(n) \in 0 .. 2 /\ Down(n) \in Nat /\ Len(DownTags) \in Nat
         /\ n # 5 => Down(n) < Len(DownTags)
         /\ n = 4 => Up(n) = 2
  <1>1. Len(DownTags) \in {2, 3}
    BY ScriptTypes
  <1>2. Up(n) \in 0 .. 2 /\ (n = 4 => Up(n) = 2)
    BY DEF Up
  <1>3. Down(n) \in Nat /\ (n # 5 => Down(n) < Len(DownTags))
    BY <1>1 DEF Down
  <1> QED
    BY <1>1, <1>2, <1>3

\* One line on.
LEMMA OneOn == \A n \in 0 .. 4 : n \in 0 .. 5 /\ n + 1 \in 0 .. 5 /\ (n # 4 => n + 1 # 5)
  OBVIOUS

\* The tables stay as they are.
LEMMA TablesStay ==
  ASSUME UNCHANGED creds
  PROVE  /\ UpTags' = UpTags /\ DownTags' = DownTags
         /\ Initiator' = Initiator /\ Responder' = Responder
         /\ mode' = mode /\ word' = word /\ pin' = pin
         /\ \A n \in 0 .. 5 : Down(n)' = Down(n)
  BY DEF creds, UpTags, DownTags, Initiator, Responder, Down

\* Where the host is then.
LEMMA HostMoves ==
  ASSUME IInv, todo[Host] # <<>>, Advance(Host), NEW d \in Dialer, d = serving
  PROVE  /\ UNCHANGED <<creds, serving, backlog, stage, dials, dropped>>
         /\ At(Host)' = At(Host) + 1 /\ HostAt(d)' = At(Host) + 1
         /\ Through' <=> At(Host) = 4
         /\ \A c \in Dialer : todo'[c] = todo[c]
  <1>1. /\ listener = "shaking" /\ serving \in Dialer
        /\ At(Host) \in 0 .. 4 /\ Len(todo[Host]) = 5 - At(Host)
    BY HostBusy
  <1>2. /\ UNCHANGED <<creds, serving, backlog, stage, dials, dropped>>
        /\ todo' = [todo EXCEPT ![Host] = Tail(todo[Host])]
        /\ listener' = IF Len(todo[Host]) = 1 THEN "up" ELSE listener
    BY DEF Advance
  <1>3. todo \in [End -> Seq(Line)] /\ Host \in End /\ todo[Host] \in Seq(Line) /\ Dialer \subseteq End
    BY DEF IInv, EstTypes, End
  <1>4. Len(Tail(todo[Host])) = 4 - At(Host)
    BY <1>1, <1>3, ShorterBy, Zenon
  <1>5. todo'[Host] = Tail(todo[Host]) /\ \A c \in Dialer : todo'[c] = todo[c]
    BY <1>2, <1>3, EstablishAssumption
  <1>6. At(Host)' = At(Host) + 1
    <2>1. \A n \in 0 .. 4 : 5 - (4 - n) = n + 1
      OBVIOUS
    <2> QED
      BY <1>1, <1>4, <1>5, <2>1, Zenon DEF At
  <1>7. Through' <=> At(Host) = 4
    BY <1>1, <1>2 DEF Through
  <1> QED
    BY <1>2, <1>5, <1>6, <1>7 DEF HostAt

\* A host that has only its ratchet key to send has heard all there is.
LEMMA HeardByThen ==
  ASSUME EstTypes, NEW d \in Dialer, UpOK(d), d \notin dropped, ~Through, HostAt(d) = 4, Shaking(d)
  PROVE  At(d) >= 3 /\ wire[d].up = <<>>
  <1>1. Up(4) + Len(wire[d].up) <= 2 /\ Up(4) + Len(wire[d].up) = Up(At(d))
    BY DEF UpOK
  <1>2. Up(4) = 2
    BY DEF Up
  <1>3. wire[d].up \in Seq(Mail)
    BY DEF EstTypes
  <1>4. Len(wire[d].up) = 0 /\ Up(At(d)) = 2
    BY <1>1, <1>2, <1>3
  <1> QED
    BY <1>3, <1>4 DEF Up, At

\* It sends a message.
LEMMA HostSends ==
  ASSUME IInv, UNCHANGED chanVars, AtLine(Host, "send"), Advance(Host),
         Says(Host, Head(todo[Host]).tag), NEW d \in Dialer, d = serving
  PROVE  IInv'
  <1> DEFINE n == At(Host)
             t == Head(todo[Host]).tag
  <1>1. todo[Host] # <<>> /\ Head(todo[Host]).op = "send"
    BY DEF AtLine
  <1>2. /\ listener = "shaking" /\ d \in Dialer /\ d # Nobody /\ ~Through
        /\ d \notin dropped /\ Host \notin voice /\ n \in 0 .. 4
        /\ Head(todo[Host]) = Responder[n + 1] /\ HostAt(d) = n
    BY <1>1, HostBusy
  <1>3. /\ UNCHANGED <<creds, serving, backlog, stage, dials, dropped>>
        /\ At(Host)' = n + 1 /\ HostAt(d)' = n + 1 /\ (Through' <=> n = 4)
        /\ \A c \in Dialer : todo'[c] = todo[c]
    BY <1>1, HostMoves
  <1>4. mode \in Mode
    BY DEF IInv, EstTypes
  <1>5. /\ Up(n + 1) = Up(n) /\ Down(n + 1) = Down(n) + 1 /\ DownTags[Down(n + 1)] = t
        /\ n # 0 /\ (n = 2 => mode # "code") /\ (n = 3 => mode # "identity")
    BY <1>1, <1>2, <1>4, ResponderLine
  <1>6. t \in Tag
    <2>1. Head(todo[Host]) \in Line
      BY <1>1 DEF IInv, EstTypes, End
    <2> QED
      BY <2>1 DEF Line
  <1>7. /\ wire' \in Wires
        /\ wire'[d].down = Append(wire[d].down, Message(Host, t)) /\ wire'[d].up = wire[d].up
        /\ \A c \in Dialer : c # d => wire'[c] = wire[c]
    <2>1. EstTypes /\ Host \in End /\ d = Conn(Host)
      BY DEF IInv, End, Conn
    <2> QED
      BY <1>2, <1>6, <2>1, Said
  <1>8. DialerOK(d)
    BY <1>2 DEF IInv
  <1>9. /\ UpTags' = UpTags /\ DownTags' = DownTags /\ Initiator' = Initiator
        /\ mode' = mode /\ word' = word /\ pin' = pin
    BY <1>3, TablesStay
  <1>10. /\ Shaking(d)' <=> Shaking(d)
         /\ At(d)' = At(d)
    BY <1>2, <1>3 DEF Shaking, At
  <1>11. wire[d].up \in Seq(Mail) /\ wire[d].down \in Seq(Mail)
    BY <1>2 DEF IInv, EstTypes
  <1> HIDE DEF n, t
  <1>12. DialerOK(d)'
    <2>1. ScriptOK(d)'
      BY <1>2, <1>3, <1>8, <1>9, <1>10 DEF DialerOK, ScriptOK, Rest
    <2>2. UpOK(d)'
      <3>1. CASE n = 4
        BY <1>3, <3>1 DEF UpOK
      <3>2. CASE n # 4
        <4>1. Up(HostAt(d))' = Up(HostAt(d)) /\ Up(At(d))' = Up(At(d))
          BY <1>2, <1>3, <1>5, <1>10 DEF Up
        <4>2. UpOK(d) /\ d \notin dropped /\ ~Through
          BY <1>2, <1>8 DEF DialerOK
        <4> QED
          BY <1>7, <1>9, <1>10, <4>1, <4>2 DEF UpOK
      <3> QED
        BY <3>1, <3>2
    <2>3. DownOK(d)'
      <3>1. SUFFICES ASSUME Shaking(d) PROVE DownOK(d)'
        BY <1>10 DEF DownOK
      <3> DEFINE m == Down(At(d))
                 k == Len(wire[d].down)
      <3>2. At(d) \in 0 .. 5
        BY <1>8, <3>1, DialerAt DEF DialerOK
      <3>3. /\ m \in Nat /\ Len(DownTags) \in Nat /\ Down(n) \in Nat
            /\ n # 4 => Down(n + 1) < Len(DownTags)
        <4>1. n \in 0 .. 5 /\ n + 1 \in 0 .. 5 /\ (n # 4 => n + 1 # 5)
          BY <1>2, OneOn, Zenon
        <4> QED
          BY <1>4, <3>2, <4>1, TableFacts, Zenon
      <3>4. /\ m + k < Len(DownTags) /\ m + k = Down(n)
            /\ \A i \in 1 .. k : wire[d].down[i].tag = DownTags[m + i]
        BY <1>2, <1>8, <1>11, <3>1 DEF DialerOK, DownOK
      <3>5. Down(At(d))' = m /\ Down(HostAt(d))' = Down(n + 1)
        BY <1>3, <1>9, <1>10, <1>2, <3>2 DEF Down
      <3>6. /\ Len(wire'[d].down) = k + 1 /\ k \in Nat /\ DOMAIN wire'[d].down = 1 .. k + 1
            /\ \A i \in 1 .. k : wire'[d].down[i] = wire[d].down[i]
            /\ wire'[d].down[k + 1].tag = t
        BY <1>7, <1>11 DEF Message
      <3> HIDE DEF m, k
      <3>7. \A i \in 1 .. k + 1 : wire'[d].down[i].tag = DownTags[m + i]
        <4>1. DownTags[m + (k + 1)] = t
          BY <1>5, <3>3, <3>4, <3>6
        <4>2. \A i \in 1 .. k + 1 : i \in 1 .. k \/ i = k + 1
          BY <3>6
        <4> QED
          BY <3>4, <3>6, <4>1, <4>2, Zenon
      <3>8. /\ m + (k + 1) <= Len(DownTags) /\ m + (k + 1) = Down(n + 1)
            /\ n # 4 => m + (k + 1) < Len(DownTags)
        BY <1>5, <3>3, <3>4, <3>6
      <3> QED
        BY <1>3, <1>9, <3>5, <3>6, <3>7, <3>8 DEF DownOK
    <2>4. HeardOut(d)'
      <3>1. Shaking(d) /\ n = 4 => At(d) >= 3 /\ wire[d].up = <<>>
        BY <1>2, <1>8, HeardByThen DEF DialerOK, IInv, EstTypes
      <3>2. Host \notin voice'
        BY <1>2 DEF chanVars
      <3> QED
        BY <1>3, <1>7, <1>10, <3>1, <3>2 DEF HeardOut
    <2>5. Sealed(d)'
      BY <1>2, <1>3, <1>7, <1>8, <1>9, <1>11 DEF DialerOK, Sealed, Message
    <2>6. Checked(d)'
      BY <1>2, <1>3, <1>8, <1>9, <1>10 DEF DialerOK, Checked
    <2> QED
      BY <2>1, <2>2, <2>3, <2>4, <2>5, <2>6 DEF DialerOK
  <1>13. n = 3 => pin[Host] \in {Anyone, serving}
    BY <1>4, <1>5 DEF Mode, IInv, HostOK, End
  <1>14. n = 2 => (mode = "code" => word[serving] = word[Host])
    BY <1>5
  <1> QED
    BY <1>1, <1>5, <1>7, <1>12, <1>13, <1>14, HostAdvance DEF n, t

\* It hears one that opens.
LEMMA HostHears ==
  ASSUME IInv, UNCHANGED chanVars, AtLine(Host, "await"), NEW d \in Dialer, d = serving,
         wire[Conn(Host)][To(Host)] # <<>>, Opens(Host, Head(wire[Conn(Host)][To(Host)])),
         Advance(Host), Takes(Host)
  PROVE  IInv'
  <1> DEFINE n == At(Host)
  <1>1. todo[Host] # <<>> /\ Head(todo[Host]).op = "await"
    BY DEF AtLine
  <1>2. /\ listener = "shaking" /\ d \in Dialer /\ d # Nobody /\ ~Through
        /\ d \notin dropped /\ Host \notin voice /\ n \in 0 .. 4
        /\ Head(todo[Host]) = Responder[n + 1] /\ HostAt(d) = n
    BY <1>1, HostBusy
  <1>3. /\ UNCHANGED <<creds, serving, backlog, stage, dials, dropped>>
        /\ At(Host)' = n + 1 /\ HostAt(d)' = n + 1 /\ (Through' <=> n = 4)
        /\ \A c \in Dialer : todo'[c] = todo[c]
    BY <1>1, HostMoves
  <1>4. mode \in Mode
    BY DEF IInv, EstTypes
  <1>5. /\ Up(n + 1) = Up(n) + 1 /\ Down(n + 1) = Down(n)
        /\ n # 4 /\ (n = 3 => mode # "identity")
        /\ n = 2 /\ mode = "code" => UpTags[Up(n) + 1] = "psk-e"
    <2>1. Sends("ratchet-key").op = "send"
      BY DEF Sends
    <2> QED
      BY <1>1, <1>2, <1>4, <2>1, ResponderLine
  <1>7. /\ wire' \in Wires
        /\ wire'[d].up = Tail(wire[d].up) /\ wire'[d].down = wire[d].down
        /\ wire[d].up # <<>>
        /\ \A c \in Dialer : c # d => wire'[c] = wire[c]
    <2>1. EstTypes /\ Host \in End /\ d = Conn(Host)
      BY DEF IInv, End, Conn
    <2> QED
      BY <1>2, <2>1, Taken
  <1>8. DialerOK(d)
    BY <1>2 DEF IInv
  <1>9. /\ UpTags' = UpTags /\ DownTags' = DownTags /\ Initiator' = Initiator
        /\ mode' = mode /\ word' = word /\ pin' = pin
    BY <1>3, TablesStay
  <1>10. /\ Shaking(d)' <=> Shaking(d)
         /\ At(d)' = At(d)
    BY <1>2, <1>3 DEF Shaking, At
  <1>11. wire[d].up \in Seq(Mail) /\ wire[d].down \in Seq(Mail)
    BY <1>2 DEF IInv, EstTypes
  <1>12. /\ Len(wire[d].up) \in Nat \ {0} /\ Len(wire'[d].up) = Len(wire[d].up) - 1
         /\ DOMAIN wire'[d].up = 1 .. Len(wire[d].up) - 1
         /\ \A i \in 1 .. Len(wire[d].up) - 1 : wire'[d].up[i] = wire[d].up[i + 1]
         /\ wire[d].up[1] = Head(wire[d].up)
    BY <1>7, <1>11
  <1> HIDE DEF n
  <1>13. DialerOK(d)'
    <2>1. ScriptOK(d)'
      BY <1>2, <1>3, <1>8, <1>9, <1>10 DEF DialerOK, ScriptOK, Rest
    <2>2. UpOK(d)'
      <3> DEFINE h == Up(n)
                 k == Len(wire[d].up)
      <3>1. h \in Nat
        BY <1>2, <1>4, OneOn, TableFacts
      <3>2. /\ h + k <= 2 /\ (Shaking(d) => h + k = Up(At(d)))
            /\ \A i \in 1 .. k : wire[d].up[i].tag = UpTags[h + i]
        BY <1>2, <1>8, <1>11 DEF DialerOK, UpOK
      <3>3. Up(HostAt(d))' = h + 1 /\ Up(At(d))' = Up(At(d))
        BY <1>2, <1>3, <1>5, <1>10 DEF Up
      <3> HIDE DEF h, k
      <3>4. /\ (h + 1) + (k - 1) <= 2 /\ (Shaking(d) => (h + 1) + (k - 1) = Up(At(d)))
            /\ \A i \in 1 .. k - 1 : i + 1 \in 1 .. k /\ (h + 1) + i = h + (i + 1)
        BY <1>12, <3>1, <3>2 DEF k
      <3>5. \A i \in 1 .. k - 1 : wire'[d].up[i].tag = UpTags[(h + 1) + i]
        BY <1>12, <3>2, <3>4 DEF k
      <3> QED
        BY <1>9, <1>10, <1>12, <3>3, <3>4, <3>5 DEF UpOK, k
    <2>3. DownOK(d)'
      <3>1. SUFFICES ASSUME Shaking(d) PROVE DownOK(d)'
        BY <1>10 DEF DownOK
      <3>2. At(d) \in 0 .. 5
        BY <1>8, <3>1, DialerAt DEF DialerOK
      <3>3. Down(At(d))' = Down(At(d)) /\ Down(HostAt(d))' = Down(HostAt(d))
        <4>1. Down(HostAt(d))' = Down(n + 1)
          BY <1>3, <1>9 DEF Down
        <4> QED
          BY <1>2, <1>5, <1>9, <1>10, <3>2, <4>1 DEF Down
      <3> QED
        BY <1>2, <1>3, <1>7, <1>8, <1>9, <3>1, <3>3 DEF DialerOK, DownOK
    <2>4. HeardOut(d)'
      BY <1>3, <1>5 DEF HeardOut
    <2>5. Sealed(d)'
      BY <1>2, <1>3, <1>7, <1>8, <1>9, <1>11, <1>12 DEF DialerOK, Sealed
    <2>6. Checked(d)'
      BY <1>2, <1>3, <1>8, <1>9, <1>10 DEF DialerOK, Checked
    <2> QED
      BY <2>1, <2>2, <2>3, <2>4, <2>5, <2>6 DEF DialerOK
  <1>14. n = 0 => serving \notin Silent
    BY <1>7, <1>8 DEF DialerOK, Sealed
  <1>15. n = 3 => pin[Host] \in {Anyone, serving}
    BY <1>4, <1>5 DEF Mode, IInv, HostOK, End
  <1>16. n = 2 => (mode = "code" => word[serving] = word[Host])
    <2>1. SUFFICES ASSUME n = 2, mode = "code" PROVE word[serving] = word[Host]
      OBVIOUS
    <2>2. wire[Conn(Host)][To(Host)] = wire[d].up
      BY <1>2 DEF Conn, To, IInv, EstTypes
    <2>3. /\ Head(wire[d].up).tag = UpTags[Up(n) + 1]
          /\ Head(wire[d].up).word = word[d]
      BY <1>2, <1>8, <1>12 DEF DialerOK, UpOK, Sealed
    <2> QED
      BY <1>5, <2>1, <2>2, <2>3 DEF Opens
  <1> QED
    BY <1>1, <1>7, <1>13, <1>14, <1>15, <1>16, HostAdvance DEF n

\* It makes the check that comes last in identity mode.
LEMMA HostChecks ==
  ASSUME IInv, UNCHANGED chanVars, AtLine(Host, "check"), NEW d \in Dialer, d = serving,
         PinHolds(Host), Advance(Host), UNCHANGED wire
  PROVE  IInv'
  <1>1. todo[Host] # <<>> /\ Head(todo[Host]).op = "check"
    BY DEF AtLine
  <1>2. /\ listener = "shaking" /\ d \in Dialer /\ d # Nobody /\ ~Through
        /\ d \notin dropped /\ Host \notin voice /\ At(Host) \in 0 .. 4
        /\ Head(todo[Host]) = Responder[At(Host) + 1] /\ HostAt(d) = At(Host)
    BY <1>1, HostBusy
  <1>3. /\ UNCHANGED <<creds, serving, backlog, stage, dials, dropped>>
        /\ At(Host)' = At(Host) + 1 /\ HostAt(d)' = At(Host) + 1 /\ (Through' <=> At(Host) = 4)
        /\ \A c \in Dialer : todo'[c] = todo[c]
    BY <1>1, HostMoves
  <1>4. mode \in Mode
    BY DEF IInv, EstTypes
  <1>5. At(Host) = 3 /\ Up(4) = Up(3) /\ Down(4) = Down(3)
    <2>1. /\ Up(At(Host) + 1) = Up(At(Host)) /\ Down(At(Host) + 1) = Down(At(Host))
          /\ At(Host) = 3
      BY <1>1, <1>2, <1>4, ResponderLine
    <2> QED
      BY <2>1
  <1>8. DialerOK(d)
    BY <1>2 DEF IInv
  <1>9. /\ UpTags' = UpTags /\ DownTags' = DownTags /\ Initiator' = Initiator
        /\ mode' = mode /\ word' = word /\ pin' = pin
    BY <1>3, TablesStay
  <1>10. /\ Shaking(d)' <=> Shaking(d)
         /\ At(d)' = At(d)
    BY <1>2, <1>3 DEF Shaking, At
  <1>13. DialerOK(d)'
    <2>1. ScriptOK(d)'
      BY <1>2, <1>3, <1>8, <1>9, <1>10 DEF DialerOK, ScriptOK, Rest
    <2>2. UpOK(d)'
      <3>1. Up(HostAt(d))' = Up(HostAt(d)) /\ Up(At(d))' = Up(At(d))
        BY <1>2, <1>3, <1>5, <1>10 DEF Up
      <3> QED
        BY <1>2, <1>3, <1>8, <1>9, <1>10, <3>1 DEF DialerOK, UpOK
    <2>3. DownOK(d)'
      <3>1. SUFFICES ASSUME Shaking(d) PROVE DownOK(d)'
        BY <1>10 DEF DownOK
      <3>2. At(d) \in 0 .. 5
        BY <1>8, <3>1, DialerAt DEF DialerOK
      <3>3. Down(At(d))' = Down(At(d)) /\ Down(HostAt(d))' = Down(HostAt(d))
        <4>1. Down(HostAt(d))' = Down(4)
          BY <1>3, <1>5, <1>9 DEF Down
        <4>2. Down(At(d))' = Down(At(d))
          BY <1>9, <1>10, <3>2 DEF Down
        <4> QED
          BY <1>2, <1>5, <4>1, <4>2
      <3> QED
        BY <1>2, <1>3, <1>8, <1>9, <3>1, <3>3 DEF DialerOK, DownOK
    <2>4. HeardOut(d)'
      BY <1>3, <1>5 DEF HeardOut
    <2>5. Sealed(d)'
      BY <1>2, <1>3, <1>8, <1>9 DEF DialerOK, Sealed
    <2>6. Checked(d)'
      BY <1>2, <1>3, <1>8, <1>9, <1>10 DEF DialerOK, Checked
    <2> QED
      BY <2>1, <2>2, <2>3, <2>4, <2>5, <2>6 DEF DialerOK
  <1>14. pin[Host] \in {Anyone, serving}
    BY DEF PinHolds, Peer
  <1>15. wire' \in Wires
    BY DEF IInv, EstTypes, Wires
  <1> QED
    BY <1>1, <1>5, <1>13, <1>14, <1>15, HostAdvance

-----------------------------------------------------------------------------
(* A line of a dialer's script *)

\* Where the dialer is after one more line.
LEMMA DialerMoves ==
  ASSUME IInv, NEW d \in Dialer, todo[d] # <<>>, Advance(d)
  PROVE  /\ UNCHANGED <<creds, listener, serving, backlog, dials, dropped>>
         /\ Shaking(d) /\ At(d) \in 0 .. 4 /\ d # Host
         /\ At(d)' = At(d) + 1 /\ (Shaking(d)' <=> At(d) # 4)
         /\ stage'[d] = IF At(d) = 4 THEN "up" ELSE "shaking"
         /\ todo' \in [End -> Seq(Line)]
         /\ stage' \in [Dialer -> {"dialing", "shaking", "up", "over"}]
         /\ ScriptOK(d)'
         /\ todo'[Host] = todo[Host] /\ At(Host)' = At(Host) /\ (Through' <=> Through)
         /\ \A c \in Dialer : c # d => todo'[c] = todo[c] /\ stage'[c] = stage[c]
         /\ \A c \in Dialer : HostAt(c)' = HostAt(c)
  <1>1. /\ Shaking(d) /\ At(d) \in 0 .. 4 /\ Len(todo[d]) = 5 - At(d)
        /\ Tail(todo[d]) = Rest(Initiator, At(d) + 1)
    BY DialerBusy
  <1>2. d # Host
    BY EstablishAssumption
  <1>3. /\ UNCHANGED <<creds, serving, backlog, dials, dropped>>
        /\ todo' = [todo EXCEPT ![d] = Tail(todo[d])]
        /\ listener' = listener
        /\ stage' = IF Len(todo[d]) = 1 THEN [stage EXCEPT ![d] = "up"] ELSE stage
    BY <1>2 DEF Advance
  <1>4. /\ todo \in [End -> Seq(Line)] /\ d \in End /\ Host \in End /\ Dialer \subseteq End
        /\ todo[d] \in Seq(Line) /\ stage \in [Dialer -> {"dialing", "shaking", "up", "over"}]
    BY DEF IInv, EstTypes, End
  <1>5. /\ Tail(todo[d]) \in Seq(Line) /\ Len(Tail(todo[d])) = 4 - At(d)
        /\ At(d) = 4 => Tail(todo[d]) = <<>>
        /\ At(d) # 4 => Len(Tail(todo[d])) \in 1 .. 5
    BY <1>1, <1>4, ShorterBy, Zenon
  <1>6. /\ todo' \in [End -> Seq(Line)] /\ todo'[d] = Tail(todo[d])
        /\ todo'[Host] = todo[Host]
        /\ \A c \in Dialer : c # d => todo'[c] = todo[c]
    BY <1>2, <1>3, <1>4, <1>5
  <1>7. At(d)' = At(d) + 1
    <2>1. \A n \in 0 .. 4 : 5 - (4 - n) = n + 1
      OBVIOUS
    <2> QED
      BY <1>1, <1>5, <1>6, <2>1, Zenon DEF At
  <1>8. Len(todo[d]) = 1 <=> At(d) = 4
    BY <1>1
  <1>9. stage[d] = "shaking" /\ d \notin Silent
    BY <1>1 DEF Shaking
  <1>10. /\ stage' \in [Dialer -> {"dialing", "shaking", "up", "over"}]
         /\ stage'[d] = IF At(d) = 4 THEN "up" ELSE "shaking"
         /\ \A c \in Dialer : c # d => stage'[c] = stage[c]
    BY <1>3, <1>4, <1>8, <1>9
  <1>11. Shaking(d)' <=> At(d) # 4
    BY <1>9, <1>10 DEF Shaking
  <1>12. ScriptOK(d)'
    <2>1. Rest(Initiator, At(d))' = Rest(Initiator, At(d) + 1)
      BY <1>3, <1>7 DEF Rest, Initiator, creds
    <2>2. CASE At(d) = 4
      BY <1>5, <1>6, <1>11, <2>2 DEF ScriptOK
    <2>3. CASE At(d) # 4
      BY <1>1, <1>5, <1>6, <1>11, <2>1, <2>3, Zenon DEF ScriptOK
    <2> QED
      BY <2>2, <2>3
  <1>13. /\ At(Host)' = At(Host) /\ (Through' <=> Through)
         /\ \A c \in Dialer : HostAt(c)' = HostAt(c)
    <2>1. At(Host)' = At(Host)
      BY <1>6 DEF At
    <2>2. Through' <=> Through
      BY <1>3 DEF Through
    <2> QED
      BY <1>3, <2>1, <2>2 DEF HostAt
  <1>14. UNCHANGED <<creds, listener, serving, backlog, dials, dropped>>
    BY <1>3
  <1> QED
    BY <1>1, <1>2, <1>14, <1>6, <1>7, <1>10, <1>11, <1>12, <1>13, Zenon

\* Nobody else notices.
LEMMA DialerAdvance ==
  ASSUME IInv, UNCHANGED chanVars, NEW d \in Dialer, todo[d] # <<>>, Advance(d), wire' \in Wires,
         \A c \in Dialer : c # d => wire'[c] = wire[c],
         DialerOK(d)'
  PROVE  IInv'
  <1>1. /\ UNCHANGED <<creds, listener, serving, backlog, dials, dropped>>
        /\ Shaking(d)
        /\ stage'[d] = IF At(d) = 4 THEN "up" ELSE "shaking"
        /\ todo' \in [End -> Seq(Line)]
        /\ stage' \in [Dialer -> {"dialing", "shaking", "up", "over"}]
        /\ todo'[Host] = todo[Host] /\ At(Host)' = At(Host) /\ (Through' <=> Through)
        /\ \A c \in Dialer : c # d => todo'[c] = todo[c] /\ stage'[c] = stage[c]
        /\ \A c \in Dialer : HostAt(c)' = HostAt(c)
    BY DialerMoves
  <1>2. EstTypes'
    BY <1>1 DEF IInv, EstTypes, creds, Wires
  <1>3. ChanTypes'
    BY DEF IInv, ChanTypes, chanVars
  <1>4. Waits'
    <2>1. \A c \in Dialer : stage'[c] = "dialing" => stage[c] = "dialing" /\ wire'[c] = wire[c]
      BY <1>1
    <2>2. \A c \in Dialer : stage[c] # "dialing" => stage'[c] # "dialing"
      BY <1>1
    <2>3. \A i \in DOMAIN backlog : backlog[i] \in Dialer
      BY DEF IInv, EstTypes
    <2>4. UNCHANGED <<listener, serving, backlog, dropped>>
      BY <1>1
    <2> QED
      BY <2>1, <2>2, <2>3, <2>4 DEF IInv, Waits
  <1>5. HostOK'
    <2>1. /\ UNCHANGED <<listener, serving, mode, word, pin, voice>>
          /\ At(Host)' = At(Host) /\ (Through' <=> Through)
          /\ todo'[Host] = todo[Host] /\ Responder' = Responder
      BY <1>1, TablesStay DEF chanVars
    <2> QED
      BY <2>1 DEF IInv, HostOK, Rest
  <1>6. ASSUME NEW c \in Dialer, c # d PROVE DialerOK(c)'
    <2>1. /\ UNCHANGED <<creds, serving, dropped, voice>> /\ (Through' <=> Through)
          /\ stage'[c] = stage[c] /\ todo'[c] = todo[c] /\ wire'[c] = wire[c]
          /\ HostAt(c)' = HostAt(c) /\ DialerOK(c)
      BY <1>1, <1>6 DEF IInv, chanVars
    <2> QED
      BY <2>1, Aside
  <1> QED
    BY <1>2, <1>3, <1>4, <1>5, <1>6 DEF IInv

\* The dialer sends a message.
LEMMA DialerSends ==
  ASSUME IInv, UNCHANGED chanVars, NEW d \in Dialer, AtLine(d, "send"), Advance(d),
         Says(d, Head(todo[d]).tag)
  PROVE  IInv'
  <1> DEFINE n == At(d)
             t == Head(todo[d]).tag
  <1>1. todo[d] # <<>> /\ Head(todo[d]).op = "send"
    BY DEF AtLine
  <1>2. /\ Shaking(d) /\ n \in 0 .. 4 /\ d # Host /\ Head(todo[d]) = Initiator[n + 1]
    BY <1>1, DialerBusy, DialerMoves
  <1>3. /\ UNCHANGED <<creds, listener, serving, backlog, dials, dropped>>
        /\ At(d)' = n + 1 /\ (Shaking(d)' <=> n # 4) /\ (Through' <=> Through)
        /\ stage'[d] = IF n = 4 THEN "up" ELSE "shaking"
        /\ ScriptOK(d)' /\ HostAt(d)' = HostAt(d)
    BY <1>1, DialerMoves
  <1>4. mode \in Mode
    BY DEF IInv, EstTypes
  <1>5. /\ Up(n + 1) = Up(n) + 1 /\ Down(n + 1) = Down(n) /\ UpTags[Up(n + 1)] = t /\ n < 3
    BY <1>1, <1>2, <1>4, InitiatorLine
  <1>6. t \in Tag
    <2>1. Head(todo[d]) \in Line
      BY <1>1 DEF IInv, EstTypes, End
    <2> QED
      BY <2>1 DEF Line
  <1>7. /\ wire' \in Wires
        /\ wire'[d].up = Append(wire[d].up, Message(d, t)) /\ wire'[d].down = wire[d].down
        /\ \A c \in Dialer : c # d => wire'[c] = wire[c]
    <2>1. EstTypes /\ d \in End /\ d = Conn(d)
      BY <1>2 DEF IInv, End, Conn
    <2> QED
      BY <1>2, <1>6, <2>1, Said
  <1>8. DialerOK(d)
    BY DEF IInv
  <1>9. /\ UpTags' = UpTags /\ DownTags' = DownTags
        /\ mode' = mode /\ word' = word /\ pin' = pin
    BY <1>3, TablesStay
  <1>10. UNCHANGED <<serving, dropped, voice>> /\ d \notin Silent
    BY <1>2, <1>3 DEF Shaking, chanVars
  <1>11. wire[d].up \in Seq(Mail) /\ wire[d].down \in Seq(Mail)
    BY DEF IInv, EstTypes
  <1> HIDE DEF n, t
  <1>13. DialerOK(d)'
    <2>2. UpOK(d)'
      <3>1. SUFFICES ASSUME d \notin dropped, ~(serving = d /\ Through) PROVE UpOK(d)'
        BY <1>3, <1>10 DEF UpOK
      <3> DEFINE h == Up(HostAt(d))
                 k == Len(wire[d].up)
      <3>2. Up(n) \in 0 .. 2 /\ Up(n + 1) \in 0 .. 2
        BY <1>2, <1>4, OneOn, TableFacts, Zenon
      <3>3. h + k = Up(n) /\ \A i \in 1 .. k : wire[d].up[i].tag = UpTags[h + i]
        BY <1>2, <1>8, <1>11, <3>1 DEF DialerOK, UpOK, n
      <3>4. Up(HostAt(d))' = h /\ Up(At(d))' = Up(n + 1)
        BY <1>3 DEF Up
      <3>5. h \in 0 .. 2
        BY DEF Up
      <3>6. /\ Len(wire'[d].up) = k + 1 /\ k \in Nat /\ DOMAIN wire'[d].up = 1 .. k + 1
            /\ \A i \in 1 .. k : wire'[d].up[i] = wire[d].up[i]
            /\ wire'[d].up[k + 1].tag = t
        BY <1>7, <1>11 DEF Message
      <3> HIDE DEF h, k
      <3>7. \A i \in 1 .. k + 1 : wire'[d].up[i].tag = UpTags[h + i]
        <4>1. UpTags[h + (k + 1)] = t
          BY <1>5, <3>2, <3>3, <3>5, <3>6
        <4>2. \A i \in 1 .. k + 1 : i \in 1 .. k \/ i = k + 1
          BY <3>6
        <4> QED
          BY <3>3, <3>6, <4>1, <4>2, Zenon
      <3>8. h + (k + 1) <= 2 /\ h + (k + 1) = Up(n + 1)
        BY <1>5, <3>2, <3>3, <3>5, <3>6
      <3> QED
        BY <1>9, <3>4, <3>6, <3>7, <3>8 DEF UpOK
    <2>3. DownOK(d)'
      <3>1. Down(At(d))' = Down(At(d))
        BY <1>2, <1>3, <1>5, <1>9 DEF Down, n
      <3>2. Down(HostAt(d))' = Down(HostAt(d))
        BY <1>3, <1>9 DEF Down
      <3> QED
        BY <1>2, <1>3, <1>7, <1>8, <1>9, <1>10, <3>1, <3>2 DEF DialerOK, DownOK
    <2>4. HeardOut(d)'
      <3>1. ~(serving = d /\ Through)
        BY <1>2, <1>5, <1>8 DEF DialerOK, HeardOut, n
      <3> QED
        BY <1>3, <1>10, <3>1 DEF HeardOut
    <2>5. Sealed(d)'
      BY <1>2, <1>3, <1>5, <1>7, <1>8, <1>9, <1>10, <1>11 DEF DialerOK, Sealed, Message
    <2>6. Checked(d)'
      BY <1>2, <1>3, <1>5 DEF Checked
    <2> QED
      BY <1>3, <2>2, <2>3, <2>4, <2>5, <2>6 DEF DialerOK
  <1> QED
    BY <1>1, <1>7, <1>13, DialerAdvance

\* It hears one that opens.
LEMMA DialerHears ==
  ASSUME IInv, UNCHANGED chanVars, NEW d \in Dialer, AtLine(d, "await"),
         wire[Conn(d)][To(d)] # <<>>, Opens(d, Head(wire[Conn(d)][To(d)])),
         Advance(d), Takes(d)
  PROVE  IInv'
  <1> DEFINE n == At(d)
  <1>1. todo[d] # <<>> /\ Head(todo[d]).op = "await"
    BY DEF AtLine
  <1>2. /\ Shaking(d) /\ n \in 0 .. 4 /\ d # Host /\ Head(todo[d]) = Initiator[n + 1]
    BY <1>1, DialerBusy, DialerMoves
  <1>3. /\ UNCHANGED <<creds, listener, serving, backlog, dials, dropped>>
        /\ At(d)' = n + 1 /\ (Shaking(d)' <=> n # 4) /\ (Through' <=> Through)
        /\ stage'[d] = IF n = 4 THEN "up" ELSE "shaking"
        /\ ScriptOK(d)' /\ HostAt(d)' = HostAt(d)
    BY <1>1, DialerMoves
  <1>4. mode \in Mode
    BY DEF IInv, EstTypes
  <1>5. /\ Down(n + 1) = Down(n) + 1 /\ Up(n + 1) = Up(n)
        /\ n = 3 => mode = "code" /\ DownTags[Down(n) + 1] = "e-ee"
        /\ n = 4 => Down(n) = Len(DownTags) - 1
    BY <1>1, <1>2, <1>4, InitiatorLine DEF Mode
  <1>7. /\ wire' \in Wires
        /\ wire'[d].down = Tail(wire[d].down) /\ wire'[d].up = wire[d].up
        /\ wire[d].down # <<>>
        /\ \A c \in Dialer : c # d => wire'[c] = wire[c]
    <2>1. EstTypes /\ d \in End /\ d = Conn(d)
      BY <1>2 DEF IInv, End, Conn
    <2> QED
      BY <1>2, <2>1, Taken
  <1>8. DialerOK(d)
    BY DEF IInv
  <1>9. /\ UpTags' = UpTags /\ DownTags' = DownTags
        /\ mode' = mode /\ word' = word /\ pin' = pin
    BY <1>3, TablesStay
  <1>10. UNCHANGED <<serving, dropped, voice>> /\ d \notin Silent
    BY <1>2, <1>3 DEF Shaking, chanVars
  <1>11. wire[d].up \in Seq(Mail) /\ wire[d].down \in Seq(Mail)
    BY DEF IInv, EstTypes
  <1>12. /\ Len(wire[d].down) \in Nat \ {0} /\ Len(wire'[d].down) = Len(wire[d].down) - 1
         /\ DOMAIN wire'[d].down = 1 .. Len(wire[d].down) - 1
         /\ \A i \in 1 .. Len(wire[d].down) - 1 : wire'[d].down[i] = wire[d].down[i + 1]
         /\ wire[d].down[1] = Head(wire[d].down)
    BY <1>7, <1>11
  <1>14. Down(n) \in Nat /\ Len(DownTags) \in Nat
    BY <1>2, <1>4, OneOn, TableFacts, Zenon
  <1>15. /\ Down(n) + Len(wire[d].down) <= Len(DownTags)
         /\ \A i \in 1 .. Len(wire[d].down) : wire[d].down[i].tag = DownTags[Down(n) + i]
         /\ ~(serving = d /\ Through) => Down(n) + Len(wire[d].down) < Len(DownTags)
         /\ d \notin dropped /\ ~(serving = d /\ Through) =>
              Down(n) + Len(wire[d].down) = Down(HostAt(d))
    BY <1>2, <1>8, <1>11 DEF DialerOK, DownOK
  <1> HIDE DEF n
  <1>13. DialerOK(d)'
    <2>2. UpOK(d)'
      <3>1. Up(HostAt(d))' = Up(HostAt(d)) /\ Up(At(d))' = Up(At(d))
        BY <1>2, <1>3, <1>5 DEF Up, n
      <3> QED
        BY <1>2, <1>3, <1>7, <1>8, <1>9, <1>10, <3>1 DEF DialerOK, UpOK
    <2>3. DownOK(d)'
      <3> DEFINE m == Down(n)
                 k == Len(wire[d].down)
      <3>1. Down(At(d))' = m + 1
        <4>1. Down(At(d))' = Down(n + 1)
          BY <1>3, <1>9 DEF Down
        <4> QED
          BY <1>5, <4>1
      <3>2. Down(HostAt(d))' = Down(HostAt(d))
        BY <1>3, <1>9 DEF Down
      <3> HIDE DEF m, k
      <3>3. /\ (m + 1) + (k - 1) = m + k
            /\ \A i \in 1 .. k - 1 : i + 1 \in 1 .. k /\ (m + 1) + i = m + (i + 1)
        <4>1. m \in Nat /\ k \in Nat \ {0}
          BY <1>12, <1>14 DEF m, k
        <4> QED
          BY <4>1
      <3>4. \A i \in 1 .. k - 1 : wire'[d].down[i].tag = DownTags[(m + 1) + i]
        BY <1>12, <1>15, <3>3 DEF m, k
      <3>5. /\ Len(wire'[d].down) = k - 1 /\ DOMAIN wire'[d].down = 1 .. k - 1
            /\ (m + 1) + (k - 1) <= Len(DownTags)
            /\ ~(serving = d /\ Through) => (m + 1) + (k - 1) < Len(DownTags)
            /\ d \notin dropped /\ ~(serving = d /\ Through) =>
                 (m + 1) + (k - 1) = Down(HostAt(d))
        BY <1>12, <1>15, <3>3 DEF m, k
      <3> QED
        BY <1>3, <1>9, <1>10, <3>1, <3>2, <3>4, <3>5 DEF DownOK
    <2>4. HeardOut(d)'
      BY <1>2, <1>3, <1>7, <1>8, <1>10 DEF DialerOK, HeardOut, n
    <2>5. Sealed(d)'
      BY <1>2, <1>3, <1>7, <1>8, <1>9, <1>10, <1>11, <1>12 DEF DialerOK, Sealed
    <2>6. Checked(d)'
      <3>1. n = 4 => serving = d /\ Through
        BY <1>5, <1>12, <1>14, <1>15
      <3>2. n = 4 => (mode = "code" => word[d] = word[Host]) /\ pin[d] \in {Anyone, Host}
        BY <1>2, <1>8 DEF DialerOK, Checked, n
      <3>3. n = 3 => (mode = "code" => word[d] = word[Host]) /\ pin[d] \in {Anyone, Host}
        <4>1. SUFFICES ASSUME n = 3 PROVE word[d] = word[Host] /\ pin[d] = Anyone
          OBVIOUS
        <4>2. wire[Conn(d)][To(d)] = wire[d].down
          BY <1>2 DEF Conn, To, IInv, EstTypes
        <4>3. /\ Head(wire[d].down).tag = "e-ee"
              /\ Head(wire[d].down).word = word[Host]
          BY <1>5, <1>8, <1>11, <1>12, <1>15, <4>1 DEF DialerOK, Sealed
        <4>4. word[d] = word[Host]
          BY <4>2, <4>3 DEF Opens
        <4> QED
          BY <1>5, <4>1, <4>4 DEF IInv, HostOK, End
      <3> QED
        BY <1>2, <1>3, <1>9, <1>10, <3>1, <3>2, <3>3 DEF Checked
    <2> QED
      BY <1>3, <2>2, <2>3, <2>4, <2>5, <2>6 DEF DialerOK
  <1> QED
    BY <1>1, <1>7, <1>13, DialerAdvance

\* It makes the check that comes last in identity mode.
LEMMA DialerChecks ==
  ASSUME IInv, UNCHANGED chanVars, NEW d \in Dialer, AtLine(d, "check"),
         PinHolds(d), Advance(d), UNCHANGED wire
  PROVE  IInv'
  <1> DEFINE n == At(d)
  <1>1. todo[d] # <<>> /\ Head(todo[d]).op = "check"
    BY DEF AtLine
  <1>2. /\ Shaking(d) /\ n \in 0 .. 4 /\ d # Host /\ Head(todo[d]) = Initiator[n + 1]
    BY <1>1, DialerBusy, DialerMoves
  <1>3. /\ UNCHANGED <<creds, listener, serving, backlog, dials, dropped>>
        /\ At(d)' = n + 1 /\ (Shaking(d)' <=> n # 4) /\ (Through' <=> Through)
        /\ stage'[d] = IF n = 4 THEN "up" ELSE "shaking"
        /\ ScriptOK(d)' /\ HostAt(d)' = HostAt(d)
    BY <1>1, DialerMoves
  <1>4. mode \in Mode
    BY DEF IInv, EstTypes
  <1>5. /\ Down(n + 1) = Down(n) /\ Up(n + 1) = Up(n) /\ n = 3 /\ mode # "code"
    <2>1. (n = 3 /\ mode = "code") => Initiator[n + 1].op = "await"
      BY <1>2, <1>4, InitiatorLine
    <2> QED
      BY <1>1, <1>2, <1>4, <2>1, InitiatorLine
  <1>8. DialerOK(d)
    BY DEF IInv
  <1>9. /\ UpTags' = UpTags /\ DownTags' = DownTags
        /\ mode' = mode /\ word' = word /\ pin' = pin
    BY <1>3, TablesStay
  <1>10. UNCHANGED <<serving, dropped, voice>> /\ d \notin Silent
    BY <1>2, <1>3 DEF Shaking, chanVars
  <1>11. wire[d].up \in Seq(Mail) /\ wire[d].down \in Seq(Mail)
    BY DEF IInv, EstTypes
  <1> HIDE DEF n
  <1>13. DialerOK(d)'
    <2>2. UpOK(d)'
      <3>1. Up(HostAt(d))' = Up(HostAt(d)) /\ Up(At(d))' = Up(At(d))
        BY <1>2, <1>3, <1>5 DEF Up, n
      <3> QED
        BY <1>2, <1>3, <1>8, <1>9, <1>10, <3>1 DEF DialerOK, UpOK
    <2>3. DownOK(d)'
      <3>1. Down(At(d))' = Down(At(d))
        BY <1>2, <1>3, <1>5, <1>9 DEF Down, n
      <3>2. Down(HostAt(d))' = Down(HostAt(d))
        BY <1>3, <1>9 DEF Down
      <3> QED
        BY <1>2, <1>3, <1>8, <1>9, <1>10, <3>1, <3>2 DEF DialerOK, DownOK
    <2>4. HeardOut(d)'
      BY <1>2, <1>3, <1>8, <1>10 DEF DialerOK, HeardOut, n
    <2>5. Sealed(d)'
      BY <1>2, <1>3, <1>8, <1>9, <1>10 DEF DialerOK, Sealed
    <2>6. Checked(d)'
      <3>1. pin[d] \in {Anyone, Host}
        BY <1>2 DEF PinHolds, Peer
      <3> QED
        BY <1>3, <1>5, <1>9, <3>1 DEF Checked
    <2> QED
      BY <1>3, <2>2, <2>3, <2>4, <2>5, <2>6 DEF DialerOK
  <1>14. wire' \in Wires
    BY DEF IInv, EstTypes, Wires
  <1> QED
    BY <1>1, <1>13, <1>14, DialerAdvance

-----------------------------------------------------------------------------
(* Giving up *)

\* The host drops a dialer in the middle of the handshake.
LEMMA HostDrops ==
  ASSUME IInv, UNCHANGED chanVars, todo[Host] # <<>>, HostGivesUp,
         Head(todo[Host]) # Sends("ratchet-key")
  PROVE  IInv'
  <1>1. /\ listener = "shaking" /\ serving \in Dialer /\ serving # Nobody /\ ~Through
        /\ Host \notin voice
    BY HostBusy
  <1>2. /\ UNCHANGED <<creds, backlog, stage, dials, wire>>
        /\ todo' = [todo EXCEPT ![Host] = <<>>]
        /\ listener' = "accepting" /\ dropped' = dropped \cup {serving} /\ serving' = Nobody
    BY DEF HostGivesUp, dialing
  <1>3. /\ todo \in [End -> Seq(Line)] /\ Host \in End /\ Dialer \subseteq End
        /\ backlog \in Seq(Dialer) /\ dropped \subseteq Dialer
    BY DEF IInv, EstTypes, End
  <1>4. /\ todo' \in [End -> Seq(Line)] /\ todo'[Host] = <<>>
        /\ \A c \in Dialer : todo'[c] = todo[c]
    BY <1>2, <1>3, EstablishAssumption
  <1>5. Nobody \notin Dialer
    BY EstablishAssumption
  <1>6. EstTypes'
    BY <1>1, <1>2, <1>3, <1>4 DEF IInv, EstTypes, creds
  <1>7. ChanTypes'
    BY DEF IInv, ChanTypes, chanVars
  <1>8. Waits'
    BY <1>1, <1>2, <1>3, <1>5 DEF IInv, Waits
  <1>9. HostOK'
    BY <1>1, <1>2, <1>4 DEF IInv, HostOK, creds, chanVars
  <1>10. ASSUME NEW c \in Dialer PROVE DialerOK(c)'
    <2>1. ~(serving = c /\ Through) /\ ~(serving = c /\ Through)'
      BY <1>1, <1>2, <1>5
    <2>2. HostAt(c)' = HostAt(c) \/ c \in dropped'
      BY <1>2, <1>5 DEF HostAt
    <2>3. DialerOK(c)
      BY DEF IInv
    <2>4. Host \notin voice'
      BY <1>1 DEF chanVars
    <2>5. /\ UNCHANGED creds /\ stage'[c] = stage[c] /\ todo'[c] = todo[c] /\ wire'[c] = wire[c]
          /\ dropped \subseteq dropped'
      BY <1>2, <1>4
    <2> QED
      BY <2>1, <2>2, <2>3, <2>4, <2>5, Aside
  <1> QED
    BY <1>6, <1>7, <1>8, <1>9, <1>10 DEF IInv

\* It fails once the handshake is over, and the session with it.
LEMMA HostFails ==
  ASSUME IInv, UNCHANGED chanVars, todo[Host] # <<>>, HostGivesUp,
         Head(todo[Host]) = Sends("ratchet-key"), NEW d \in Dialer, d = serving
  PROVE  IInv'
  <1>1. /\ listener = "shaking" /\ serving # Nobody /\ ~Through /\ d \notin dropped
        /\ Host \notin voice /\ At(Host) \in 0 .. 4 /\ HostAt(d) = At(Host)
        /\ Head(todo[Host]) = Responder[At(Host) + 1]
    BY HostBusy
  <1>2. /\ UNCHANGED <<creds, serving, stage, dials, wire>>
        /\ todo' = [todo EXCEPT ![Host] = <<>>]
        /\ listener' = "closed" /\ backlog' = <<>>
        /\ dropped' = dropped \cup {serving} \cup Range(backlog)
    BY DEF HostGivesUp, CloseListener, dialing
  <1>3. /\ todo \in [End -> Seq(Line)] /\ Host \in End /\ Dialer \subseteq End
        /\ backlog \in Seq(Dialer) /\ dropped \subseteq Dialer /\ mode \in Mode
    BY DEF IInv, EstTypes, End
  <1>4. /\ todo' \in [End -> Seq(Line)] /\ todo'[Host] = <<>>
        /\ \A c \in Dialer : todo'[c] = todo[c]
    BY <1>2, <1>3, EstablishAssumption
  <1>5. At(Host) = 4
    BY <1>1, <1>3, ResponderLine
  <1>6. /\ dropped' \subseteq Dialer
        /\ \A c \in Dialer : c \in dropped' =>
             c \in dropped \/ c = serving \/ \E i \in DOMAIN backlog : backlog[i] = c
    BY <1>2, <1>3 DEF Range
  <1>7. At(Host)' = 5
    BY <1>4 DEF At
  <1>8. EstTypes'
    BY <1>1, <1>2, <1>3, <1>4, <1>6 DEF IInv, EstTypes, creds
  <1>9. ChanTypes'
    BY DEF IInv, ChanTypes, chanVars
  <1>10. Waits'
    <2>1. \A c \in Dialer : stage[c] = "dialing" => c \notin dropped'
      BY <1>6 DEF IInv, Waits
    <2> QED
      BY <1>2, <2>1 DEF IInv, Waits
  <1>11. HostOK'
    <2>1. /\ serving \notin Silent
          /\ mode = "code" => word[serving] = word[Host]
          /\ pin[Host] \in {Anyone, serving}
      BY <1>1, <1>5 DEF IInv, HostOK
    <2>2. UNCHANGED <<mode, word, pin, serving, voice>>
      BY <1>2 DEF creds, chanVars
    <2> QED
      BY <1>1, <1>2, <1>4, <2>1, <2>2 DEF IInv, HostOK
  <1>12. ASSUME NEW c \in Dialer PROVE DialerOK(c)'
    <2>1. DialerOK(c)
      BY DEF IInv
    <2>2. Host \notin voice'
      BY <1>1 DEF chanVars
    <2>3. CASE c # d
      <3>1. ~(serving = c /\ Through) /\ ~(serving = c /\ Through)' /\ HostAt(c)' = HostAt(c)
        BY <1>2, <2>3 DEF HostAt
      <3>2. /\ UNCHANGED creds /\ stage'[c] = stage[c] /\ todo'[c] = todo[c] /\ wire'[c] = wire[c]
            /\ dropped \subseteq dropped'
        BY <1>2, <1>4
      <3> QED
        BY <2>1, <2>2, <3>1, <3>2, Aside
    <2>4. CASE c = d
      <3>1. /\ Through' /\ serving' = d /\ d \in dropped'
            /\ stage'[d] = stage[d] /\ todo'[d] = todo[d] /\ wire'[d] = wire[d]
        BY <1>2, <1>4 DEF Through
      <3>2. /\ Shaking(d)' <=> Shaking(d)
            /\ At(d)' = At(d)
        BY <3>1 DEF Shaking, At
      <3>3. /\ UpTags' = UpTags /\ DownTags' = DownTags /\ Initiator' = Initiator
            /\ mode' = mode /\ word' = word /\ pin' = pin
        BY <1>2, TablesStay
      <3>4. DialerOK(d)
        BY <2>1, <2>4
      <3>5. ScriptOK(d)' /\ UpOK(d)' /\ Sealed(d)'
        BY <3>1, <3>2, <3>3, <3>4 DEF DialerOK, ScriptOK, UpOK, Sealed, Rest
      <3>6. DownOK(d)'
        <4>1. Down(At(d))' = Down(At(d))
          BY <3>2, <3>3 DEF Down
        <4> QED
          BY <3>1, <3>2, <3>3, <3>4, <4>1 DEF DialerOK, DownOK
      <3>7. HeardOut(d)'
        <4>1. Shaking(d) => At(d) >= 3 /\ wire[d].up = <<>>
          BY <1>1, <1>5, <3>4, HeardByThen DEF DialerOK, IInv, EstTypes
        <4> QED
          BY <2>2, <3>1, <3>2, <4>1 DEF HeardOut
      <3>8. Checked(d)'
        BY <3>1, <3>2, <3>3, <3>4 DEF DialerOK, Checked
      <3> QED
        BY <2>4, <3>5, <3>6, <3>7, <3>8 DEF DialerOK
    <2> QED
      BY <2>3, <2>4
  <1> QED
    BY <1>8, <1>9, <1>10, <1>11, <1>12 DEF IInv

\* A dialer reports that it failed.
LEMMA DialerFails ==
  ASSUME IInv, UNCHANGED chanVars, NEW d \in Dialer, todo[d] # <<>>, DialerGivesUp(d)
  PROVE  IInv'
  <1>1. Shaking(d) /\ stage[d] = "shaking"
    BY DialerBusy DEF Shaking
  <1>2. /\ UNCHANGED <<creds, listener, serving, backlog, dials, wire, dropped, voice>>
        /\ stage' = [stage EXCEPT ![d] = "over"] /\ todo' = [todo EXCEPT ![d] = <<>>]
    BY DEF DialerGivesUp, chanVars
  <1>3. /\ todo \in [End -> Seq(Line)] /\ d \in End /\ Host \in End /\ Dialer \subseteq End /\ d # Host
        /\ stage \in [Dialer -> {"dialing", "shaking", "up", "over"}]
    BY EstablishAssumption DEF IInv, EstTypes, End
  <1>4. /\ todo' \in [End -> Seq(Line)] /\ todo'[d] = <<>> /\ todo'[Host] = todo[Host]
        /\ stage' \in [Dialer -> {"dialing", "shaking", "up", "over"}] /\ stage'[d] = "over"
        /\ \A c \in Dialer : c # d => todo'[c] = todo[c] /\ stage'[c] = stage[c]
    BY <1>2, <1>3
  <1>5. /\ At(Host)' = At(Host) /\ (Through' <=> Through)
        /\ \A c \in Dialer : HostAt(c)' = HostAt(c)
    <2>1. At(Host)' = At(Host)
      BY <1>4 DEF At
    <2>2. Through' <=> Through
      BY <1>2 DEF Through
    <2> QED
      BY <1>2, <2>1, <2>2 DEF HostAt
  <1>6. EstTypes'
    BY <1>2, <1>4 DEF IInv, EstTypes, creds
  <1>7. ChanTypes'
    BY DEF IInv, ChanTypes, chanVars
  <1>8. Waits'
    <2>1. \A c \in Dialer : (stage'[c] = "dialing") <=> (stage[c] = "dialing")
      BY <1>1, <1>4
    <2>2. \A i \in DOMAIN backlog : backlog[i] \in Dialer
      BY DEF IInv, EstTypes
    <2>3. UNCHANGED <<listener, serving, backlog, dropped, wire>>
      BY <1>2
    <2> QED
      BY <2>1, <2>2, <2>3 DEF IInv, Waits
  <1>9. HostOK'
    <2>1. /\ UNCHANGED <<listener, serving, mode, word, pin, voice>> /\ Responder' = Responder
      BY <1>2, TablesStay
    <2> QED
      BY <1>4, <1>5, <2>1 DEF IInv, HostOK, Rest
  <1>10. ASSUME NEW c \in Dialer PROVE DialerOK(c)'
    <2>1. DialerOK(c)
      BY DEF IInv
    <2>2. CASE c # d
      <3>1. /\ UNCHANGED <<creds, serving, dropped, voice, wire>> /\ (Through' <=> Through)
            /\ stage'[c] = stage[c] /\ todo'[c] = todo[c] /\ HostAt(c)' = HostAt(c)
        BY <1>2, <1>4, <1>5, <2>2
      <3> QED
        BY <2>1, <3>1, Aside
    <2>3. CASE c = d
      <3>1. /\ ~Shaking(d)' /\ stage'[d] = "over" /\ todo'[d] = <<>>
            /\ UNCHANGED <<serving, dropped, wire>> /\ (Through' <=> Through)
            /\ HostAt(d)' = HostAt(d)
        BY <1>2, <1>4, <1>5 DEF Shaking
      <3>2. /\ UpTags' = UpTags /\ DownTags' = DownTags
            /\ mode' = mode /\ word' = word /\ pin' = pin
        BY <1>2, TablesStay
      <3>3. DialerOK(d)
        BY <2>1, <2>3
      <3>4. UpOK(d)'
        BY <3>1, <3>2, <3>3 DEF DialerOK, UpOK
      <3>5. ScriptOK(d)' /\ DownOK(d)' /\ HeardOut(d)' /\ Checked(d)'
        BY <3>1 DEF ScriptOK, DownOK, HeardOut, Checked
      <3>6. Sealed(d)'
        BY <3>1, <3>2, <3>3 DEF DialerOK, Sealed
      <3> QED
        BY <2>3, <3>4, <3>5, <3>6 DEF DialerOK
    <2> QED
      BY <2>2, <2>3
  <1> QED
    BY <1>6, <1>7, <1>8, <1>9, <1>10 DEF IInv

-----------------------------------------------------------------------------
(* Before and after the handshakes *)

\* The listener opens: nobody was there to be served.
LEMMA BindKeeps ==
  ASSUME IInv, UNCHANGED chanVars, Bind
  PROVE  IInv'
  <1>1. /\ UNCHANGED <<creds, serving, backlog, stage, dials, todo, wire, dropped, voice>>
        /\ listener = "unbound" /\ listener' = "accepting"
    BY DEF Bind, dialing, chanVars
  <1>2. serving = Nobody /\ Nobody \notin Dialer
    BY <1>1, EstablishAssumption DEF IInv, EstTypes
  <1>3. EstTypes'
    BY <1>1 DEF IInv, EstTypes, creds
  <1>4. ChanTypes'
    BY DEF IInv, ChanTypes, chanVars
  <1>5. Waits'
    BY <1>1 DEF IInv, Waits
  <1>6. HostOK'
    BY <1>1, <1>2 DEF IInv, HostOK, creds, Through
  <1>7. ASSUME NEW c \in Dialer PROVE DialerOK(c)'
    <2>1. /\ UNCHANGED <<creds, voice>> /\ stage'[c] = stage[c] /\ todo'[c] = todo[c]
          /\ wire'[c] = wire[c] /\ dropped \subseteq dropped' /\ DialerOK(c)
      BY <1>1 DEF IInv
    <2>2. ~(serving = c /\ Through) /\ ~(serving = c /\ Through)' /\ HostAt(c)' = HostAt(c)
      BY <1>1, <1>2 DEF HostAt
    <2> QED
      BY <2>1, <2>2, Aside
  <1> QED
    BY <1>3, <1>4, <1>5, <1>6, <1>7 DEF IInv

\* The host takes the next connection up, from the first line of the script.
LEMMA AcceptKeeps ==
  ASSUME IInv, UNCHANGED chanVars, Accept
  PROVE  IInv'
  <1>1. /\ UNCHANGED <<creds, stage, dials, wire, dropped, voice>>
        /\ listener = "accepting" /\ listener' = "shaking" /\ backlog # <<>>
        /\ serving' = Head(backlog) /\ backlog' = Tail(backlog)
        /\ todo' = [todo EXCEPT ![Host] = Responder]
    BY DEF Accept, dialing, chanVars
  <1>2. serving = Nobody /\ Nobody \notin Dialer
    BY <1>1, EstablishAssumption DEF IInv, EstTypes
  <1>3. /\ todo \in [End -> Seq(Line)] /\ Host \in End /\ Dialer \subseteq End
        /\ backlog \in Seq(Dialer) /\ Responder \in Seq(Line) /\ Len(Responder) = 5
    BY ScriptTypes DEF IInv, EstTypes, End
  <1>4. /\ todo' \in [End -> Seq(Line)] /\ todo'[Host] = Responder
        /\ \A c \in Dialer : todo'[c] = todo[c]
    BY <1>1, <1>3, EstablishAssumption
  <1>5. /\ Tail(backlog) \in Seq(Dialer) /\ Head(backlog) \in Dialer /\ Head(backlog) = backlog[1]
        /\ 1 \in DOMAIN backlog
        /\ \A i \in DOMAIN Tail(backlog) :
             Tail(backlog)[i] = backlog[i + 1] /\ i + 1 \in DOMAIN backlog /\ i + 1 # 1
        /\ DOMAIN Tail(backlog) \subseteq Nat
    BY <1>1, <1>3
  <1>6. EstTypes'
    BY <1>1, <1>2, <1>4, <1>5 DEF IInv, EstTypes, creds
  <1>7. ChanTypes'
    BY DEF IInv, ChanTypes, chanVars
  <1>8. Waits'
    <2>1. \A i, j \in DOMAIN Tail(backlog) : Tail(backlog)[i] = Tail(backlog)[j] => i = j
      <3>1. \A i, j \in DOMAIN Tail(backlog) : i + 1 = j + 1 => i = j
        BY <1>5
      <3> QED
        BY <1>5, <3>1 DEF IInv, Waits
    <2>2. \A i \in DOMAIN Tail(backlog) :
            stage[Tail(backlog)[i]] # "dialing" /\ Tail(backlog)[i] # Head(backlog)
            /\ Tail(backlog)[i] \notin dropped
      BY <1>5 DEF IInv, Waits
    <2>3. stage[Head(backlog)] # "dialing" /\ Head(backlog) \notin dropped
      BY <1>5 DEF IInv, Waits
    <2> QED
      BY <1>1, <2>1, <2>2, <2>3 DEF IInv, Waits
  <1>9. HostOK'
    <2>1. At(Host)' = 0
      BY <1>3, <1>4 DEF At
    <2>2. Responder' = Responder
      BY <1>1, TablesStay
    <2>3. Rest(Responder, At(Host))' = Responder
      BY <1>3, <2>1, <2>2, RestEnds DEF Rest
    <2>4. Host \notin voice
      BY <1>1 DEF IInv, HostOK, Through
    <2> QED
      BY <1>1, <1>3, <1>4, <2>1, <2>3, <2>4 DEF IInv, HostOK, creds
  <1>10. ASSUME NEW c \in Dialer PROVE DialerOK(c)'
    <2>1. /\ UNCHANGED <<creds, voice>> /\ stage'[c] = stage[c] /\ todo'[c] = todo[c]
          /\ wire'[c] = wire[c] /\ dropped \subseteq dropped' /\ DialerOK(c)
      BY <1>1, <1>4 DEF IInv
    <2>2. ~(serving = c /\ Through) /\ ~(serving = c /\ Through)'
      BY <1>1, <1>2 DEF Through
    <2>3. HostAt(c)' = HostAt(c)
      <3>1. At(Host)' = 0
        BY <1>3, <1>4 DEF At
      <3> QED
        BY <1>2, <3>1 DEF HostAt
    <2> QED
      BY <2>1, <2>2, <2>3, Aside
  <1> QED
    BY <1>6, <1>7, <1>8, <1>9, <1>10 DEF IInv

\* A dialer gets through, finds nobody, or finds nobody for the last time.
LEMMA DialKeeps ==
  ASSUME IInv, UNCHANGED chanVars, NEW d \in Dialer, Dial(d)
  PROVE  IInv'
  <1>1. /\ UNCHANGED <<creds, listener, serving, wire, dropped, voice>>
        /\ stage[d] = "dialing"
    BY DEF Dial, chanVars
  <1>2. /\ todo \in [End -> Seq(Line)] /\ Host \in End /\ Dialer \subseteq End /\ d # Host
        /\ stage \in [Dialer -> {"dialing", "shaking", "up", "over"}]
        /\ dials \in [Dialer -> 0 .. MaxDials - 1] /\ MaxDials \in Nat \ {0}
        /\ backlog \in Seq(Dialer) /\ Initiator \in Seq(Line) /\ Len(Initiator) = 5
    BY EstablishAssumption, ScriptTypes DEF IInv, EstTypes, End
  <1>3. /\ d # serving /\ d \notin dropped /\ wire[d].up = <<>> /\ wire[d].down = <<>>
        /\ \A i \in DOMAIN backlog : backlog[i] # d
    BY <1>1 DEF IInv, Waits
  <1>4. /\ dials' \in [Dialer -> 0 .. MaxDials - 1]
        /\ todo' \in [End -> Seq(Line)] /\ backlog' \in Seq(Dialer)
        /\ stage' \in [Dialer -> {"dialing", "shaking", "up", "over"}]
        /\ todo'[Host] = todo[Host]
        /\ \A c \in Dialer : c # d => todo'[c] = todo[c] /\ stage'[c] = stage[c]
        /\ \/ /\ backlog' = backlog /\ todo'[d] = todo[d] /\ stage'[d] \in {"dialing", "over"}
           \/ /\ backlog' = Append(backlog, d) /\ stage'[d] = "shaking"
              /\ todo'[d] = IF d \in Silent THEN <<>> ELSE Initiator
              /\ listener \notin {"unbound", "closed"}
    <2>1. CASE listener \in {"unbound", "closed"}
      <3>1. /\ dials' = [dials EXCEPT ![d] = (dials[d] + 1) % MaxDials]
            /\ stage' = [stage EXCEPT ![d] = IF dials'[d] = 0 THEN "over" ELSE stage[d]]
            /\ UNCHANGED <<backlog, todo>>
        BY <2>1 DEF Dial
      <3>2. (dials[d] + 1) % MaxDials \in 0 .. MaxDials - 1
        BY <1>2
      <3>3. dials' \in [Dialer -> 0 .. MaxDials - 1]
        BY <1>2, <3>1, <3>2
      <3>4. /\ stage' \in [Dialer -> {"dialing", "shaking", "up", "over"}]
            /\ stage'[d] \in {"dialing", "over"}
            /\ \A c \in Dialer : c # d => stage'[c] = stage[c]
        BY <1>1, <1>2, <3>1
      <3> QED
        BY <1>2, <3>1, <3>3, <3>4
    <2>2. CASE listener \notin {"unbound", "closed"}
      <3>1. /\ dials' = [dials EXCEPT ![d] = 0]
            /\ stage' = [stage EXCEPT ![d] = "shaking"]
            /\ backlog' = Append(backlog, d)
            /\ todo' = [todo EXCEPT ![d] = IF d \in Silent THEN <<>> ELSE Initiator]
        BY <2>2 DEF Dial
      <3>2. dials' \in [Dialer -> 0 .. MaxDials - 1]
        BY <1>2, <3>1
      <3>3. /\ stage' \in [Dialer -> {"dialing", "shaking", "up", "over"}] /\ stage'[d] = "shaking"
            /\ \A c \in Dialer : c # d => stage'[c] = stage[c]
        BY <1>2, <3>1
      <3>4. /\ todo' \in [End -> Seq(Line)] /\ todo'[Host] = todo[Host]
            /\ todo'[d] = IF d \in Silent THEN <<>> ELSE Initiator
            /\ \A c \in Dialer : c # d => todo'[c] = todo[c]
        BY <1>2, <3>1
      <3> QED
        BY <1>2, <2>2, <3>1, <3>2, <3>3, <3>4
    <2> QED
      BY <2>1, <2>2
  <1>5. /\ At(Host)' = At(Host) /\ (Through' <=> Through)
        /\ \A c \in Dialer : HostAt(c)' = HostAt(c)
    <2>1. At(Host)' = At(Host)
      BY <1>4 DEF At
    <2>2. Through' <=> Through
      BY <1>1 DEF Through
    <2> QED
      BY <1>1, <2>1, <2>2 DEF HostAt
  <1>6. EstTypes'
    BY <1>1, <1>4 DEF IInv, EstTypes, creds
  <1>7. ChanTypes'
    BY DEF IInv, ChanTypes, chanVars
  <1>8. Waits'
    <2>1. \A c \in Dialer : stage'[c] = "dialing" => stage[c] = "dialing"
      BY <1>1, <1>4
    <2>2. CASE backlog' = backlog
      <3>1. \A i \in DOMAIN backlog : stage'[backlog[i]] = stage[backlog[i]]
        BY <1>2, <1>3, <1>4
      <3> QED
        BY <1>1, <2>1, <2>2, <3>1 DEF IInv, Waits
    <2>3. CASE backlog' = Append(backlog, d) /\ stage'[d] = "shaking" /\ listener # "closed"
      <3>1. /\ \A i \in DOMAIN backlog' : i \in DOMAIN backlog \/ (backlog'[i] = d /\ i = Len(backlog) + 1)
            /\ \A i \in DOMAIN backlog : backlog'[i] = backlog[i] /\ backlog[i] \in Dialer
        <4> DEFINE b == Append(backlog, d)
        <4>1. /\ \A i \in DOMAIN b : i \in DOMAIN backlog \/ (b[i] = d /\ i = Len(backlog) + 1)
              /\ \A i \in DOMAIN backlog : b[i] = backlog[i] /\ backlog[i] \in Dialer
          BY <1>2, AppendFacts
        <4>2. backlog' = b
          BY <2>3
        <4> HIDE DEF b
        <4> QED
          BY <4>1, <4>2
      <3>2. \A i \in DOMAIN backlog : stage'[backlog[i]] = stage[backlog[i]]
        BY <1>3, <1>4, <3>1
      <3>3. \A i, j \in DOMAIN backlog' : backlog'[i] = backlog'[j] => i = j
        BY <1>3, <3>1 DEF IInv, Waits
      <3>4. \A i \in DOMAIN backlog' :
              stage'[backlog'[i]] # "dialing" /\ backlog'[i] # serving /\ backlog'[i] \notin dropped
        BY <1>3, <2>3, <3>1, <3>2 DEF IInv, Waits
      <3> QED
        BY <1>1, <2>1, <2>3, <3>3, <3>4 DEF IInv, Waits
    <2> QED
      BY <1>4, <2>2, <2>3
  <1>9. HostOK'
    <2>1. /\ UNCHANGED <<listener, serving, mode, word, pin, voice>> /\ Responder' = Responder
      BY <1>1, TablesStay
    <2> QED
      BY <1>4, <1>5, <2>1 DEF IInv, HostOK, Rest
  <1>10. ASSUME NEW c \in Dialer PROVE DialerOK(c)'
    <2>1. DialerOK(c)
      BY DEF IInv
    <2>2. CASE c # d
      <3>1. /\ UNCHANGED <<creds, serving, dropped, voice, wire>> /\ (Through' <=> Through)
            /\ stage'[c] = stage[c] /\ todo'[c] = todo[c] /\ HostAt(c)' = HostAt(c)
        BY <1>1, <1>4, <1>5, <2>2
      <3> QED
        BY <2>1, <3>1, Aside
    <2>3. CASE c = d
      <3>1. /\ UNCHANGED <<serving, dropped, wire>> /\ (Through' <=> Through)
            /\ HostAt(d)' = 0 /\ stage'[d] # "up"
        BY <1>1, <1>3, <1>4, <1>5 DEF HostAt
      <3>2. /\ UpTags' = UpTags /\ DownTags' = DownTags /\ Initiator' = Initiator
            /\ mode' = mode /\ word' = word /\ pin' = pin
        BY <1>1, TablesStay
      <3>3. todo[d] = <<>>
        BY <1>1, <2>1, <2>3 DEF DialerOK, ScriptOK, Shaking
      <3>4. CASE ~Shaking(d)'
        <4>1. todo'[d] = <<>>
          BY <1>4, <3>3, <3>4 DEF Shaking
        <4>2. Up(0) = 0
          BY DEF Up
        <4>3. UpOK(d)'
          BY <1>3, <3>1, <3>4, <4>2 DEF UpOK
        <4> QED
          BY <1>3, <2>3, <3>1, <3>4, <4>1, <4>3 DEF DialerOK, ScriptOK, DownOK, HeardOut, Sealed, Checked
      <3>5. CASE Shaking(d)'
        <4>1. todo'[d] = Initiator
          BY <1>4, <3>5 DEF Shaking
        <4>2. At(d)' = 0
          BY <1>2, <4>1 DEF At
        <4>3. Up(0) = 0 /\ Down(0) = 0 /\ Len(DownTags) \in {2, 3}
          BY ScriptTypes DEF Up, Down, IInv, EstTypes
        <4>4. ScriptOK(d)'
          <5>1. Rest(Initiator, At(d))' = Initiator
            BY <1>2, <3>2, <4>2, RestEnds DEF Rest
          <5> QED
            BY <1>2, <3>5, <4>1, <5>1 DEF ScriptOK
        <4>5. UpOK(d)'
          BY <1>3, <3>1, <4>2, <4>3 DEF UpOK
        <4>6. DownOK(d)'
          <5>1. Down(At(d))' = 0 /\ Down(HostAt(d))' = 0
            BY <3>1, <4>2 DEF Down
          <5>2. Len(wire'[d].down) = 0 /\ DOMAIN wire'[d].down = {}
            BY <1>3, <3>1
          <5>3. Len(DownTags)' > 0 /\ Len(DownTags)' \in Nat
            BY <3>2, <4>3
          <5> QED
            BY <4>3, <5>1, <5>2, <5>3 DEF DownOK
        <4> QED
          BY <1>3, <2>3, <3>1, <4>2, <4>4, <4>5, <4>6 DEF DialerOK, HeardOut, Sealed, Checked
      <3> QED
        BY <3>4, <3>5
    <2> QED
      BY <2>2, <2>3
  <1> QED
    BY <1>6, <1>7, <1>8, <1>9, <1>10 DEF IInv

\* An end that has something left to do in its handshake gives up.
LEMMA GivingUpKeeps ==
  ASSUME IInv, UNCHANGED chanVars, NEW e \in End, todo[e] # <<>>, GivesUp(e)
  PROVE  IInv'
  <1>1. CASE e = Host
    <2>1. HostGivesUp /\ todo[Host] # <<>>
      BY <1>1 DEF GivesUp
    <2>2. serving \in Dialer
      BY <2>1, HostBusy
    <2>3. CASE Head(todo[Host]) = Sends("ratchet-key")
      BY <2>1, <2>2, <2>3, HostFails
    <2>4. CASE Head(todo[Host]) # Sends("ratchet-key")
      BY <2>1, <2>4, HostDrops
    <2> QED
      BY <2>3, <2>4
  <1>2. CASE e # Host
    <2>1. e \in Dialer /\ DialerGivesUp(e)
      BY <1>2 DEF GivesUp, End
    <2> QED
      BY <2>1, DialerFails
  <1> QED
    BY <1>1, <1>2

\* A step of an end that shakes hands.
LEMMA HandshakeKeeps ==
  ASSUME IInv, UNCHANGED chanVars, NEW e \in End, EstStep(e)
  PROVE  IInv'
  <1>1. todo[e] # <<>>
    BY DEF EstStep, Speak, Hear, CheckPin, StopWaiting, AtLine
  <1>2. CASE GivesUp(e)
    BY <1>1, <1>2, GivingUpKeeps
  <1>3. CASE ~GivesUp(e)
    <2>1. e = Host => serving \in Dialer
      BY <1>1, HostBusy
    <2>2. e # Host => e \in Dialer
      BY DEF End
    <2>3. CASE Speak(e)
      <3>1. AtLine(e, "send") /\ Advance(e) /\ Says(e, Head(todo[e]).tag)
        BY <1>3, <2>3 DEF Speak, Says
      <3> QED
        BY <2>1, <2>2, <3>1, HostSends, DialerSends
    <2>4. CASE Hear(e)
      <3>1. /\ AtLine(e, "await") /\ wire[Conn(e)][To(e)] # <<>>
            /\ Opens(e, Head(wire[Conn(e)][To(e)])) /\ Advance(e) /\ Takes(e)
        BY <1>3, <2>4 DEF Hear, Takes
      <3> QED
        BY <2>1, <2>2, <3>1, HostHears, DialerHears
    <2>5. CASE CheckPin(e)
      <3>1. AtLine(e, "check") /\ PinHolds(e) /\ Advance(e) /\ UNCHANGED wire
        BY <1>3, <2>5 DEF CheckPin
      <3> QED
        BY <2>1, <2>2, <3>1, HostChecks, DialerChecks
    <2>6. CASE StopWaiting(e)
      BY <1>3, <2>6 DEF StopWaiting
    <2> QED
      BY <2>3, <2>4, <2>5, <2>6 DEF EstStep
  <1> QED
    BY <1>2, <1>3

\* A step before the channel is there.
LEMMA EstablishingKeeps ==
  ASSUME IInv, Establishing(EstNext)
  PROVE  IInv'
  <1>1. UNCHANGED chanVars
    BY DEF Establishing
  <1>2. CASE Bind
    BY <1>1, <1>2, BindKeeps
  <1>3. CASE Accept
    BY <1>1, <1>3, AcceptKeeps
  <1>4. ASSUME NEW d \in Dialer, Dial(d) PROVE IInv'
    BY <1>1, <1>4, DialKeeps
  <1>5. ASSUME NEW e \in End, EstStep(e) PROVE IInv'
    BY <1>1, <1>5, HandshakeKeeps
  <1> QED
    BY <1>2, <1>3, <1>4, <1>5 DEF Establishing, EstNext

-----------------------------------------------------------------------------
(* The life of the channel *)

\* An end on a channel is on the one there is.
LEMMA OnTheChannel ==
  ASSUME IInv, NEW e \in End, (e = Host /\ listener = "up") \/ (e # Host /\ stage[e] = "up")
  PROVE  /\ serving \in Dialer /\ Through /\ Conn(e) = serving
         /\ e # Host => e = serving /\ e \in Dialer
  <1>1. CASE e = Host
    BY <1>1 DEF IInv, EstTypes, Through, Conn
  <1>2. CASE e # Host
    <2>1. e \in Dialer /\ DialerOK(e)
      BY <1>2 DEF End, IInv
    <2> QED
      BY <1>2, <2>1 DEF DialerOK, Checked, Conn
  <1> QED
    BY <1>1, <1>2

\* What happens to a session leaves everybody else alone; of its two ends, one
\* may be gone, and one still at its handshake finds what it is to be told.
LEMMA SessionStep ==
  ASSUME IInv, NEW d \in Dialer, d = serving, Through,
         UNCHANGED <<creds, serving, dials, todo>>, ChanTypes',
         UNCHANGED <<listener, backlog, dropped>> \/ CloseListener,
         stage' = stage \/ (stage[d] = "up" /\ stage' = [stage EXCEPT ![d] = "over"]),
         wire' \in Wires, \A c \in Dialer : c # d => wire'[c] = wire[c],
         Host \in voice' => Host \in voice \/ ~Shaking(d),
         Sealed(d)',
         Shaking(d) =>
           /\ wire[d].up = <<>> => wire'[d].up = <<>>
           /\ Len(wire'[d].down) <= Len(wire[d].down)
           /\ \A i \in DOMAIN wire'[d].down :
                i \in DOMAIN wire[d].down /\ wire'[d].down[i] = wire[d].down[i]
  PROVE  IInv'
  <1>1. /\ listener \in {"up", "closed"} /\ listener' \in {"up", "closed"} /\ Through'
        /\ serving # Nobody
    BY EstablishAssumption DEF Through, CloseListener
  <1>2. /\ stage \in [Dialer -> {"dialing", "shaking", "up", "over"}]
        /\ backlog \in Seq(Dialer) /\ dropped \subseteq Dialer
    BY DEF IInv, EstTypes
  <1>3. /\ stage' \in [Dialer -> {"dialing", "shaking", "up", "over"}]
        /\ \A c \in Dialer : c # d => stage'[c] = stage[c]
        /\ stage'[d] = stage[d] \/ (stage[d] = "up" /\ stage'[d] = "over")
    BY <1>2
  <1>4. /\ dropped' \subseteq Dialer /\ dropped \subseteq dropped'
        /\ \A c \in Dialer : c \in dropped' =>
             c \in dropped \/ c = d \/ \E i \in DOMAIN backlog : backlog[i] = c
        /\ d \in dropped' => d \in dropped \/ listener' = "closed"
        /\ \/ backlog' = backlog /\ dropped' = dropped /\ listener' = listener
           \/ backlog' = <<>> /\ listener' = "closed"
    <2>1. CASE UNCHANGED <<listener, backlog, dropped>>
      BY <1>2, <2>1
    <2>2. CASE CloseListener
      BY <1>2, <2>2 DEF CloseListener, Range
    <2> QED
      BY <2>1, <2>2
  <1>5. EstTypes'
    <2>1. backlog' \in Seq(Dialer)
      <3>1. <<>> \in Seq(Dialer)
        OBVIOUS
      <3> QED
        BY <1>2, <1>4, <3>1, Zenon
    <2> QED
      BY <1>1, <1>3, <1>4, <2>1 DEF IInv, EstTypes, creds, Wires
  <1>6. Waits'
    <2>1. \A c \in Dialer : (stage'[c] = "dialing") <=> (stage[c] = "dialing")
      BY <1>3
    <2>2. \A c \in Dialer : stage'[c] = "dialing" =>
             c # serving' /\ c \notin dropped' /\ wire'[c].up = <<>> /\ wire'[c].down = <<>>
      BY <1>4, <2>1 DEF IInv, Waits
    <2>3. CASE backlog' = backlog /\ dropped' = dropped /\ listener' = listener
      <3>1. \A i \in DOMAIN backlog : backlog[i] \in Dialer
        BY <1>2
      <3> QED
        BY <2>1, <2>2, <2>3, <3>1 DEF IInv, Waits
    <2>4. CASE backlog' = <<>> /\ listener' = "closed"
      BY <2>2, <2>4 DEF Waits
    <2> QED
      BY <1>4, <2>3, <2>4
  <1>7. HostOK'
    <2>1. UNCHANGED <<serving, mode, word, pin, todo>> /\ At(Host)' = At(Host)
      BY DEF creds, At
    <2>2. listener # "shaking" /\ listener' # "shaking"
      BY <1>1
    <2> QED
      BY <1>1, <2>1, <2>2 DEF IInv, HostOK
  <1>8. ASSUME NEW c \in Dialer PROVE DialerOK(c)'
    <2>1. DialerOK(c)
      BY DEF IInv
    <2>2. CASE c # d
      <3>1. /\ UNCHANGED creds /\ dropped \subseteq dropped' /\ stage'[c] = stage[c]
            /\ todo'[c] = todo[c] /\ wire'[c] = wire[c]
        BY <1>3, <1>4, <2>2
      <3>2. ~(serving = c /\ Through) /\ ~(serving = c /\ Through)' /\ HostAt(c)' = HostAt(c)
        BY <2>2 DEF HostAt
      <3> QED
        BY <2>1, <3>1, <3>2, Aside
    <2>3. CASE c = d
      <3>1. DialerOK(d)
        BY <2>1, <2>3
      <3>2. /\ UpTags' = UpTags /\ DownTags' = DownTags /\ Initiator' = Initiator
            /\ mode' = mode /\ word' = word /\ pin' = pin
        BY TablesStay
      <3>3. /\ Shaking(d)' <=> Shaking(d)
            /\ At(d)' = At(d) /\ todo'[d] = todo[d]
            /\ stage'[d] = "up" => stage[d] = "up"
        BY <1>3 DEF Shaking, At
      <3>4. ScriptOK(d)'
        BY <3>1, <3>2, <3>3 DEF DialerOK, ScriptOK, Rest
      <3>5. UpOK(d)'
        BY <1>1 DEF UpOK
      <3>6. DownOK(d)'
        <4>1. SUFFICES ASSUME Shaking(d) PROVE DownOK(d)'
          BY <3>3 DEF DownOK
        <4>2. Down(At(d))' = Down(At(d))
          BY <3>2, <3>3 DEF Down
        <4>3. At(d) \in 0 .. 5
          BY <3>1, <4>1, DialerAt DEF DialerOK
        <4>4. Down(At(d)) \in Nat /\ Len(DownTags) \in Nat
          BY <4>3, TableFacts DEF IInv, EstTypes
        <4>5. wire[d].down \in Seq(Mail) /\ wire'[d].down \in Seq(Mail)
          BY DEF IInv, EstTypes, Wires
        <4>6. /\ Down(At(d)) + Len(wire[d].down) <= Len(DownTags)
              /\ \A i \in DOMAIN wire[d].down : wire[d].down[i].tag = DownTags[Down(At(d)) + i]
          BY <3>1, <4>1 DEF DialerOK, DownOK
        <4>7. Down(At(d)) + Len(wire'[d].down) <= Len(DownTags)
          BY <4>1, <4>4, <4>5, <4>6
        <4>8. \A i \in DOMAIN wire'[d].down : wire'[d].down[i].tag = DownTags[Down(At(d)) + i]
          BY <4>1, <4>6
        <4>9. serving' = d /\ Through'
          BY <1>1
        <4> QED
          BY <3>2, <4>2, <4>7, <4>8, <4>9 DEF DownOK
      <3>7. HeardOut(d)'
        BY <1>1, <3>1, <3>3 DEF DialerOK, HeardOut
      <3>8. Checked(d)'
        BY <1>1, <3>1, <3>2, <3>3 DEF DialerOK, Checked
      <3> QED
        BY <2>3, <3>4, <3>5, <3>6, <3>7, <3>8 DEF DialerOK
    <2> QED
      BY <2>2, <2>3
  <1> QED
    BY <1>5, <1>6, <1>7, <1>8 DEF IInv

\* All are sealed with the same word, one more or one less.
LEMMA AlikeAfter ==
  ASSUME NEW s \in Seq(Mail), NEW w, \A i \in DOMAIN s : s[i].word = w
  PROVE  /\ \A x \in Mail : x.word = w =>
              \A i \in DOMAIN Append(s, x) : Append(s, x)[i].word = w
         /\ s # <<>> => \A i \in DOMAIN Tail(s) : Tail(s)[i].word = w
  <1>1. ASSUME NEW x \in Mail, x.word = w, NEW i \in DOMAIN Append(s, x)
        PROVE  Append(s, x)[i].word = w
    BY <1>1, AppendFacts
  <1>2. ASSUME s # <<>>, NEW i \in DOMAIN Tail(s) PROVE Tail(s)[i].word = w
    BY <1>2
  <1> QED
    BY <1>1, <1>2

\* A message sent over the channel.
LEMMA SaidOver ==
  ASSUME IInv, NEW e \in End, NEW d \in Dialer, d = serving, Conn(e) = d, NEW tag \in Tag,
         Says(e, tag), UNCHANGED creds, UNCHANGED stage, e # Host => e = d /\ stage[d] = "up"
  PROVE  /\ wire' \in Wires /\ \A c \in Dialer : c # d => wire'[c] = wire[c]
         /\ Sealed(d)'
  <1>1. /\ wire' \in Wires
        /\ IF e = Host
           THEN wire'[d].down = Append(wire[d].down, Message(e, tag)) /\ wire'[d].up = wire[d].up
           ELSE wire'[d].up = Append(wire[d].up, Message(e, tag)) /\ wire'[d].down = wire[d].down
        /\ \A c \in Dialer : c # d => wire'[c] = wire[c]
        /\ Message(e, tag) \in Mail
    <2>1. EstTypes /\ d = Conn(e)
      BY DEF IInv
    <2> QED
      BY <2>1, Said
  <1>2. wire[d].up \in Seq(Mail) /\ wire[d].down \in Seq(Mail) /\ Sealed(d)
    BY DEF IInv, EstTypes, DialerOK
  <1>3. Message(e, tag).word = word[e] /\ word' = word
    BY DEF Message, creds
  <1>4. CASE e = Host
    <2>1. \A i \in DOMAIN wire'[d].down : wire'[d].down[i].word = word[Host]
      <3>1. \A i \in DOMAIN wire[d].down : wire[d].down[i].word = word[Host]
        BY <1>2 DEF Sealed
      <3> QED
        <4>1. \A i \in DOMAIN Append(wire[d].down, Message(e, tag)) :
                Append(wire[d].down, Message(e, tag))[i].word = word[Host]
          BY <1>1, <1>2, <1>3, <1>4, <3>1, AlikeAfter
        <4> QED
          BY <1>1, <1>4, <4>1
    <2> QED
      BY <1>1, <1>2, <1>3, <1>4, <2>1 DEF Sealed
  <1>5. CASE e # Host
    <2>1. d \notin Silent
      BY <1>2, <1>5 DEF Sealed
    <2>2. \A i \in DOMAIN wire'[d].up : wire'[d].up[i].word = word[d]
      <3>1. \A i \in DOMAIN wire[d].up : wire[d].up[i].word = word[d]
        BY <1>2 DEF Sealed
      <3> QED
        <4>1. \A i \in DOMAIN Append(wire[d].up, Message(e, tag)) :
                Append(wire[d].up, Message(e, tag))[i].word = word[d]
          BY <1>1, <1>2, <1>3, <1>5, <3>1, AlikeAfter
        <4> QED
          BY <1>1, <1>5, <4>1
    <2> QED
      BY <1>1, <1>2, <1>3, <1>5, <2>1, <2>2 DEF Sealed
  <1> QED
    BY <1>1, <1>4, <1>5

\* The initiator's first message over the channel.
LEMMA SyncKeeps ==
  ASSUME IInv, NEW d \in Dialer, Sync(d)
  PROVE  IInv'
  <1>1. /\ UNCHANGED <<creds, listener, serving, backlog, stage, dials, todo, dropped, spoken, frames, link>>
        /\ stage[d] = "up" /\ voice' = voice \cup {d}
    BY DEF Sync, dialing
  <1>2. d # Host /\ d \in End
    BY EstablishAssumption DEF End
  <1>3. d = serving /\ Through /\ Conn(d) = d
    BY <1>1, <1>2, OnTheChannel
  <1>4. ChanTypes'
    BY <1>1, <1>2 DEF IInv, ChanTypes
  <1>5. /\ wire' \in Wires /\ \A c \in Dialer : c # d => wire'[c] = wire[c]
        /\ Sealed(d)'
    <2>1. CASE link = "up"
      <3>1. Says(d, "sync")
        <4>1. wire' = [wire EXCEPT ![d].up = Append(wire[d].up, Message(d, "sync"))]
          BY <2>1 DEF Sync
        <4> QED
          BY <1>2, <1>3, <4>1 DEF Says, From
      <3>2. "sync" \in Tag
        BY DEF Tag
      <3> QED
        BY <1>1, <1>2, <1>3, <3>1, <3>2, SaidOver
    <2>2. CASE link # "up"
      <3>1. wire' = wire
        BY <2>2 DEF Sync
      <3> QED
        BY <1>1, <3>1 DEF IInv, DialerOK, Sealed, EstTypes, Wires, creds
    <2> QED
      BY <2>1, <2>2
  <1>6. ~Shaking(d)
    BY <1>1 DEF Shaking
  <1>7. Host \in voice' => Host \in voice
    BY <1>1, <1>2
  <1> QED
    BY <1>1, <1>3, <1>4, <1>5, <1>6, <1>7, SessionStep

\* A frame: the host has a voice only for a dialer that is through as well.
LEMMA SendKeeps ==
  ASSUME IInv, NEW e \in End, Send(e)
  PROVE  IInv'
  <1>1. /\ UNCHANGED <<creds, listener, serving, backlog, stage, dials, todo, dropped, voice, frames, link>>
        /\ Live(e) /\ e \in voice /\ spoken[e] < MaxFrames
        /\ spoken' = [spoken EXCEPT ![e] = spoken[e] + 1] /\ Says(e, "frame")
    BY DEF Send, dialing, Says
  <1>2. (e = Host /\ listener = "up") \/ (e # Host /\ stage[e] = "up")
    BY <1>1 DEF Live
  <1>3. /\ serving \in Dialer /\ Through /\ Conn(e) = serving
        /\ e # Host => e = serving /\ e \in Dialer
    BY <1>2, OnTheChannel
  <1>4. PICK d \in Dialer : d = serving
    BY <1>3
  <1>5. ChanTypes'
    <2>1. spoken[e] \in Nat /\ spoken[e] + 1 \in 0 .. MaxFrames
      BY <1>1, ChannelAssumption DEF IInv, ChanTypes
    <2>2. spoken' \in [End -> 0 .. MaxFrames]
      BY <1>1, <2>1 DEF IInv, ChanTypes
    <2> QED
      BY <1>1, <2>2 DEF IInv, ChanTypes
  <1>6. "frame" \in Tag
    BY DEF Tag
  <1>7. /\ wire' \in Wires /\ \A c \in Dialer : c # d => wire'[c] = wire[c]
        /\ Sealed(d)'
    <2>1. UNCHANGED creds /\ UNCHANGED stage
      BY <1>1
    <2> QED
      BY <1>1, <1>2, <1>3, <1>4, <1>6, <2>1, SaidOver
  <1>8. ~Shaking(d)
    <2>1. CASE e = Host
      BY <1>1, <1>3, <1>4, <2>1 DEF IInv, DialerOK, HeardOut
    <2>2. CASE e # Host
      BY <1>2, <1>3, <1>4, <2>2 DEF Shaking
    <2> QED
      BY <2>1, <2>2
  <1> QED
    BY <1>1, <1>3, <1>4, <1>5, <1>7, <1>8, SessionStep

\* Hearing one: what a dialer at its handshake has said is heard out by now.
LEMMA UnsealKeeps ==
  ASSUME IInv, NEW e \in End, Unseal(e)
  PROVE  IInv'
  <1>1. /\ UNCHANGED <<creds, listener, serving, backlog, stage, dials, todo, dropped, spoken, link>>
        /\ Live(e) /\ wire[Conn(e)][To(e)] # <<>> /\ frames[e] < FrameCap
        /\ voice' = voice \cup {e} /\ Takes(e)
        /\ frames' = frames \/ frames' = [frames EXCEPT ![e] = frames[e] + 1]
    BY DEF Unseal, dialing, Takes
  <1>2. (e = Host /\ listener = "up") \/ (e # Host /\ stage[e] = "up")
    BY <1>1 DEF Live
  <1>3. /\ serving \in Dialer /\ Through /\ Conn(e) = serving
        /\ e # Host => e = serving /\ e \in Dialer
    BY <1>2, OnTheChannel
  <1>4. PICK d \in Dialer : d = serving
    BY <1>3
  <1>5. ChanTypes'
    <2>1. frames[e] \in Nat /\ frames[e] + 1 \in 0 .. FrameCap
      BY <1>1, ChannelAssumption DEF IInv, ChanTypes
    <2>2. frames' \in [End -> 0 .. FrameCap]
      BY <1>1, <2>1 DEF IInv, ChanTypes
    <2> QED
      BY <1>1, <2>2 DEF IInv, ChanTypes
  <1>6. /\ wire' \in Wires
        /\ IF e = Host
           THEN wire'[d].up = Tail(wire[d].up) /\ wire'[d].down = wire[d].down /\ wire[d].up # <<>>
           ELSE wire'[d].down = Tail(wire[d].down) /\ wire'[d].up = wire[d].up /\ wire[d].down # <<>>
        /\ \A c \in Dialer : c # d => wire'[c] = wire[c]
    <2>1. EstTypes /\ d = Conn(e)
      BY <1>3, <1>4 DEF IInv
    <2> QED
      BY <1>1, <2>1, Taken
  <1>7. wire[d].up \in Seq(Mail) /\ wire[d].down \in Seq(Mail) /\ DialerOK(d)
    BY DEF IInv, EstTypes
  <1>8. Sealed(d)'
    <2>1. word' = word /\ stage' = stage
      BY <1>1 DEF creds
    <2>2. /\ \A i \in DOMAIN wire[d].up : wire[d].up[i].word = word[d]
          /\ \A i \in DOMAIN wire[d].down : wire[d].down[i].word = word[Host]
          /\ d \in Silent => wire[d].up = <<>> /\ stage[d] # "up"
      BY <1>7 DEF DialerOK, Sealed
    <2>3. CASE e = Host
      <3>1. \A i \in DOMAIN wire'[d].up : wire'[d].up[i].word = word[d]
        <4>1. \A i \in DOMAIN Tail(wire[d].up) : Tail(wire[d].up)[i].word = word[d]
          BY <1>6, <1>7, <2>2, <2>3, AlikeAfter
        <4> QED
          BY <1>6, <2>3, <4>1
      <3> QED
        BY <1>6, <2>1, <2>2, <2>3, <3>1 DEF Sealed
    <2>4. CASE e # Host
      <3>1. \A i \in DOMAIN wire'[d].down : wire'[d].down[i].word = word[Host]
        <4>1. \A i \in DOMAIN Tail(wire[d].down) : Tail(wire[d].down)[i].word = word[Host]
          BY <1>6, <1>7, <2>2, <2>4, AlikeAfter
        <4> QED
          BY <1>6, <2>4, <4>1
      <3> QED
        BY <1>6, <2>1, <2>2, <2>4, <3>1 DEF Sealed
    <2> QED
      BY <2>3, <2>4
  <1>9. ~Shaking(d)
    <2>1. CASE e = Host
      BY <1>3, <1>4, <1>6, <1>7, <2>1 DEF DialerOK, HeardOut
    <2>2. CASE e # Host
      BY <1>2, <1>3, <1>4, <2>2 DEF Shaking
    <2> QED
      BY <2>1, <2>2
  <1> QED
    BY <1>1, <1>3, <1>4, <1>5, <1>6, <1>8, <1>9, SessionStep

\* The application takes a frame.
LEMMA RecvKeeps ==
  ASSUME IInv, NEW e \in End, Recv(e)
  PROVE  IInv'
  <1>1. /\ UNCHANGED <<creds, listener, serving, backlog, stage, dials, todo, wire, dropped, voice, spoken, link>>
        /\ Live(e) /\ frames[e] > 0 /\ frames' = [frames EXCEPT ![e] = frames[e] - 1]
    BY DEF Recv, dialing, estVars
  <1>2. (e = Host /\ listener = "up") \/ (e # Host /\ stage[e] = "up")
    BY <1>1 DEF Live
  <1>3. serving \in Dialer /\ Through
    BY <1>2, OnTheChannel
  <1>4. PICK d \in Dialer : d = serving
    BY <1>3
  <1>5. ChanTypes'
    <2>1. frames[e] \in Nat /\ frames[e] - 1 \in 0 .. FrameCap
      BY <1>1, ChannelAssumption DEF IInv, ChanTypes
    <2>2. frames' \in [End -> 0 .. FrameCap]
      BY <1>1, <2>1 DEF IInv, ChanTypes
    <2> QED
      BY <1>1, <2>2 DEF IInv, ChanTypes
  <1>6. wire' \in Wires /\ Sealed(d)'
    BY <1>1 DEF IInv, DialerOK, Sealed, EstTypes, Wires, creds
  <1> QED
    BY <1>1, <1>3, <1>4, <1>5, <1>6, SessionStep

\* When the link goes down, what was on its way is cut short.
LEMMA CutShort ==
  ASSUME IInv, NEW d \in Dialer, d = serving, NEW why, GoesDown(why), UNCHANGED creds,
         stage'[d] = "up" => stage[d] = "up"
  PROVE  /\ wire' \in Wires /\ \A c \in Dialer : c # d => wire'[c] = wire[c]
         /\ Sealed(d)'
         /\ wire[d].up = <<>> => wire'[d].up = <<>>
         /\ Len(wire'[d].down) <= Len(wire[d].down)
         /\ \A i \in DOMAIN wire'[d].down :
              i \in DOMAIN wire[d].down /\ wire'[d].down[i] = wire[d].down[i]
  <1>1. wire \in Wires /\ wire[d].up \in Seq(Mail) /\ wire[d].down \in Seq(Mail)
    BY DEF IInv, EstTypes, Wires
  <1>2. PICK i \in 0 .. Len(wire[d].up), j \in 0 .. Len(wire[d].down) :
          wire' = [wire EXCEPT ![d] = [up |-> SubSeq(wire[d].up, 1, i),
                                       down |-> SubSeq(wire[d].down, 1, j)]]
    BY DEF GoesDown
  <1> DEFINE u == SubSeq(wire[d].up, 1, i)
             v == SubSeq(wire[d].down, 1, j)
  <1>3. /\ u \in Seq(Mail) /\ Len(u) = i /\ \A k \in 1 .. i : u[k] = wire[d].up[k]
        /\ v \in Seq(Mail) /\ Len(v) = j /\ \A k \in 1 .. j : v[k] = wire[d].down[k]
    BY <1>1, SubSeqProperties
  <1>4. wire' = [wire EXCEPT ![d] = [up |-> u, down |-> v]]
    BY <1>2
  <1> HIDE DEF u, v
  <1>5. /\ wire' \in Wires /\ wire'[d].up = u /\ wire'[d].down = v
        /\ \A c \in Dialer : c # d => wire'[c] = wire[c]
    BY <1>1, <1>3, <1>4 DEF Wires
  <1>6. /\ \A k \in DOMAIN u : k \in DOMAIN wire[d].up /\ u[k] = wire[d].up[k]
        /\ \A k \in DOMAIN v : k \in DOMAIN wire[d].down /\ v[k] = wire[d].down[k]
        /\ wire[d].up = <<>> => u = <<>>
        /\ Len(v) <= Len(wire[d].down)
    BY <1>1, <1>3
  <1>7. Sealed(d)'
    <2>1. Sealed(d) /\ word' = word
      BY DEF IInv, DialerOK, creds
    <2> QED
      BY <1>5, <1>6, <2>1 DEF Sealed
  <1> QED
    BY <1>5, <1>6, <1>7

\* The link breaks, with a dialer that may still be at its handshake.
LEMMA BreakKeeps ==
  ASSUME IInv, Break
  PROVE  IInv'
  <1>1. /\ UNCHANGED <<creds, listener, serving, backlog, stage, dials, todo, dropped, voice, spoken, frames>>
        /\ listener = "up" /\ GoesDown("broken") /\ link' \in {link, "broken"}
    BY DEF Break, dialing, GoesDown
  <1>2. serving \in Dialer /\ Through
    BY <1>1 DEF IInv, EstTypes, Through
  <1>3. PICK d \in Dialer : d = serving
    BY <1>2
  <1>4. ChanTypes'
    BY <1>1 DEF IInv, ChanTypes
  <1>5. /\ wire' \in Wires /\ \A c \in Dialer : c # d => wire'[c] = wire[c]
        /\ Sealed(d)'
        /\ wire[d].up = <<>> => wire'[d].up = <<>>
        /\ Len(wire'[d].down) <= Len(wire[d].down)
        /\ \A i \in DOMAIN wire'[d].down :
             i \in DOMAIN wire[d].down /\ wire'[d].down[i] = wire[d].down[i]
    <2>1. UNCHANGED creds /\ (stage'[d] = "up" => stage[d] = "up")
      BY <1>1
    <2> QED
      BY <1>1, <1>3, <2>1, CutShort
  <1> QED
    BY <1>1, <1>2, <1>3, <1>4, <1>5, SessionStep

\* What the end of a session changes besides the link.
LEMMA EndsFacts ==
  ASSUME IInv, NEW e \in End, Live(e), Ends(e), NEW d \in Dialer, d = serving
  PROVE  /\ Through /\ UNCHANGED <<creds, serving, dials, todo, voice, spoken>>
         /\ UNCHANGED <<listener, backlog, dropped>> \/ CloseListener
         /\ stage' = stage \/ (stage[d] = "up" /\ stage' = [stage EXCEPT ![d] = "over"])
         /\ stage'[d] = "up" => stage[d] = "up"
         /\ frames' \in [End -> 0 .. FrameCap]
  <1>1. (e = Host /\ listener = "up") \/ (e # Host /\ stage[e] = "up")
    BY DEF Live
  <1>2. Through /\ (e # Host => e = d)
    BY <1>1, OnTheChannel
  <1>3. frames' \in [End -> 0 .. FrameCap]
    BY ChannelAssumption DEF Ends, IInv, ChanTypes
  <1>4. stage \in [Dialer -> {"dialing", "shaking", "up", "over"}]
    BY DEF IInv, EstTypes
  <1>5. CASE e = Host
    BY <1>2, <1>3, <1>5 DEF Ends, CloseListener
  <1>6. CASE e # Host
    BY <1>1, <1>2, <1>3, <1>4, <1>6 DEF Ends
  <1> QED
    BY <1>5, <1>6

\* An end signs off.
LEMMA LeaveKeeps ==
  ASSUME IInv, NEW e \in End, Leave(e)
  PROVE  IInv'
  <1>1. Live(e) /\ Ends(e) /\ GoesDown("left") /\ link' \in {link, "left"}
    BY DEF Leave, GoesDown
  <1>2. (e = Host /\ listener = "up") \/ (e # Host /\ stage[e] = "up")
    BY <1>1 DEF Live
  <1>3. serving \in Dialer
    BY <1>2, OnTheChannel
  <1>4. PICK d \in Dialer : d = serving
    BY <1>3
  <1>5. /\ Through /\ UNCHANGED <<creds, serving, dials, todo, voice, spoken>>
        /\ UNCHANGED <<listener, backlog, dropped>> \/ CloseListener
        /\ stage' = stage \/ (stage[d] = "up" /\ stage' = [stage EXCEPT ![d] = "over"])
        /\ stage'[d] = "up" => stage[d] = "up"
        /\ frames' \in [End -> 0 .. FrameCap]
    BY <1>1, <1>4, EndsFacts
  <1>6. ChanTypes'
    BY <1>1, <1>5 DEF IInv, ChanTypes
  <1>7. /\ wire' \in Wires /\ \A c \in Dialer : c # d => wire'[c] = wire[c]
        /\ Sealed(d)'
        /\ wire[d].up = <<>> => wire'[d].up = <<>>
        /\ Len(wire'[d].down) <= Len(wire[d].down)
        /\ \A i \in DOMAIN wire'[d].down :
             i \in DOMAIN wire[d].down /\ wire'[d].down[i] = wire[d].down[i]
    <2>1. UNCHANGED creds
      BY <1>5
    <2> QED
      BY <1>1, <1>4, <1>5, <2>1, CutShort
  <1> QED
    BY <1>4, <1>5, <1>6, <1>7, SessionStep

\* An end has found out that it is over.
LEMMA RecvNoneKeeps ==
  ASSUME IInv, NEW e \in End, RecvNone(e)
  PROVE  IInv'
  <1>1. Live(e) /\ Ends(e) /\ UNCHANGED <<wire, link>>
    BY DEF RecvNone
  <1>2. (e = Host /\ listener = "up") \/ (e # Host /\ stage[e] = "up")
    BY <1>1 DEF Live
  <1>3. serving \in Dialer
    BY <1>2, OnTheChannel
  <1>4. PICK d \in Dialer : d = serving
    BY <1>3
  <1>5. /\ Through /\ UNCHANGED <<creds, serving, dials, todo, voice, spoken>>
        /\ UNCHANGED <<listener, backlog, dropped>> \/ CloseListener
        /\ stage' = stage \/ (stage[d] = "up" /\ stage' = [stage EXCEPT ![d] = "over"])
        /\ stage'[d] = "up" => stage[d] = "up"
        /\ frames' \in [End -> 0 .. FrameCap]
    BY <1>1, <1>4, EndsFacts
  <1>6. ChanTypes'
    BY <1>1, <1>5 DEF IInv, ChanTypes
  <1>7. Sealed(d)' /\ wire' \in Wires /\ wire' = wire
    BY <1>1, <1>5 DEF IInv, DialerOK, Sealed, EstTypes, Wires, creds
  <1>8. Len(wire[d].down) <= Len(wire[d].down)
    BY DEF IInv, EstTypes
  <1> QED
    BY <1>4, <1>5, <1>6, <1>7, <1>8, SessionStep

-----------------------------------------------------------------------------
(* Theorems *)

\* Nobody has dialed yet.
LEMMA StartsWell ==
  ASSUME Init
  PROVE  IInv
  <1>1. /\ Dialer \subseteq End /\ Host \in End /\ Host \notin Dialer
        /\ MaxDials \in Nat \ {0} /\ FrameCap \in Nat \ {0} /\ MaxFrames \in Nat
        /\ Nobody \notin Dialer /\ Silent \subseteq Dialer
    BY EstablishAssumption, ChannelAssumption DEF End
  <1>2. /\ listener = "unbound" /\ serving = Nobody /\ backlog = <<>>
        /\ stage = [d \in Dialer |-> "dialing"] /\ dials = [d \in Dialer |-> 0]
        /\ todo = [e \in End |-> <<>>]
        /\ wire = [d \in Dialer |-> [up |-> <<>>, down |-> <<>>]] /\ dropped = {}
        /\ voice = {} /\ spoken = [e \in End |-> 0] /\ frames = [e \in End |-> 0] /\ link = "up"
        /\ Credentials
    BY DEF Init, EstInit
  <1>3. /\ mode \in Mode /\ word \in [End -> Word] /\ pin \in [End -> End \cup {Anyone}]
        /\ mode = "code" => pin = [e \in End |-> Anyone]
    <2>1. (CHOOSE w \in Word : TRUE) \in Word
      BY EstablishAssumption
    <2> QED
      BY <1>2, <2>1 DEF Credentials, Mode
  <1>4. EstTypes
    <2>1. 0 \in 0 .. MaxDials - 1
      BY <1>1
    <2>2. <<>> \in Seq(Line) /\ <<>> \in Seq(Mail) /\ <<>> \in Seq(Dialer)
      OBVIOUS
    <2> QED
      BY <1>1, <1>2, <1>3, <2>1, <2>2 DEF EstTypes
  <1>5. ChanTypes
    BY <1>1, <1>2 DEF ChanTypes
  <1>6. Waits
    BY <1>1, <1>2 DEF Waits
  <1>7. HostOK
    BY <1>1, <1>2, <1>3 DEF HostOK
  <1>8. ASSUME NEW d \in Dialer PROVE DialerOK(d)
    <2>1. /\ stage[d] = "dialing" /\ todo[d] = <<>> /\ wire[d].up = <<>> /\ wire[d].down = <<>>
          /\ serving # d
      BY <1>1, <1>2
    <2>2. HostAt(d) = 0 /\ Up(0) = 0
      BY <2>1 DEF HostAt, Up
    <2> QED
      BY <2>1, <2>2 DEF DialerOK, ScriptOK, UpOK, DownOK, HeardOut, Sealed, Checked, Shaking
  <1> QED
    BY <1>4, <1>5, <1>6, <1>7, <1>8 DEF IInv

\* No step breaks the invariant.
LEMMA ChannelStep ==
  ASSUME IInv, [Next]_vars
  PROVE  IInv'
  <1>1. CASE Establishing(EstNext)
    BY <1>1, EstablishingKeeps
  <1>2. CASE Break
    BY <1>2, BreakKeeps
  <1>3. ASSUME NEW d \in Dialer, Sync(d) PROVE IInv'
    BY <1>3, SyncKeeps
  <1>4. ASSUME NEW e \in End, Send(e) PROVE IInv'
    BY <1>4, SendKeeps
  <1>5. ASSUME NEW e \in End, Unseal(e) PROVE IInv'
    BY <1>5, UnsealKeeps
  <1>6. ASSUME NEW e \in End, Recv(e) PROVE IInv'
    BY <1>6, RecvKeeps
  <1>7. ASSUME NEW e \in End, Leave(e) PROVE IInv'
    BY <1>7, LeaveKeeps
  <1>8. ASSUME NEW e \in End, RecvNone(e) PROVE IInv'
    BY <1>8, RecvNoneKeeps
  <1>9. CASE UNCHANGED vars
    <2>1. UNCHANGED <<mode, word, pin, listener, serving, backlog, stage, dials, todo, wire, dropped,
                      voice, spoken, frames, link>>
      BY <1>9 DEF vars, estVars, chanVars, creds, dialing
    <2>2. EstTypes' /\ ChanTypes' /\ Waits'
      BY <2>1 DEF IInv, EstTypes, ChanTypes, Waits
    <2>3. UNCHANGED creds /\ Responder' = Responder /\ At(Host)' = At(Host) /\ (Through' <=> Through)
      BY <2>1 DEF creds, Responder, CodeResponder, IdResponder, At, Through
    <2>4. HostOK'
      BY <2>1, <2>3 DEF IInv, HostOK, Rest
    <2>5. ASSUME NEW c \in Dialer PROVE DialerOK(c)'
      <3>1. DialerOK(c) /\ HostAt(c)' = HostAt(c) /\ dropped \subseteq dropped'
        BY <2>1, <2>3 DEF IInv, HostAt
      <3> QED
        BY <2>1, <2>3, <3>1, Aside
    <2> QED
      BY <2>2, <2>4, <2>5 DEF IInv
  <1> QED
    BY <1>1, <1>2, <1>3, <1>4, <1>5, <1>6, <1>7, <1>8, <1>9 DEF Next

\* Wherever the handshakes are, who the host has on its hands is at the line of
\* the script that fits what is on its way between the two.
THEOREM ChannelInvariance == Spec => []IInv
  <1> QED
    BY StartsWell, ChannelStep, PTL DEF Spec

\* The types, with what they say of the backlog: nobody waits in it twice.
THEOREM ChannelTypes == Spec => []TypeOK
  <1>1. IInv => TypeOK
    BY DEF IInv, EstTypes, ChanTypes, Waits, TypeOK, EstTypeOK
  <1> QED
    BY <1>1, ChannelInvariance, PTL

\* Whoever is let in holds the code word or the key that was expected of it, at
\* either end, and the end that dialed is up only with a host that has finished
\* its part of the handshake with it, and with nobody else (authenticated,
\* session.rs).
THEOREM LetInIsAuthentic == Spec => []Authenticated
  <1>1. ASSUME IInv, listener = "up"
        PROVE  /\ serving \notin Silent
               /\ mode = "code" => word[serving] = word[Host]
               /\ pin[Host] \in {Anyone, serving}
    <2>1. serving # Nobody /\ todo[Host] = <<>>
      BY <1>1, EstablishAssumption DEF IInv, EstTypes, HostOK
    <2>2. At(Host) = 5
      BY <2>1 DEF At
    <2> QED
      BY <1>1, <2>1, <2>2 DEF IInv, HostOK
  <1>2. ASSUME IInv, NEW d \in Dialer, stage[d] = "up"
        PROVE  /\ listener \in {"up", "closed"} /\ serving = d
               /\ mode = "code" => word[d] = word[Host]
               /\ pin[d] \in {Anyone, Host}
    BY <1>2 DEF IInv, DialerOK, Checked, Through
  <1>3. IInv => Authenticated
    BY <1>1, <1>2 DEF Authenticated
  <1> QED
    BY <1>3, ChannelInvariance, PTL
=============================================================================
