------------------------------ MODULE Transport ------------------------------
(***************************************************************************)
(* A text on its way as bytes: from the page of user 111 over a websocket  *)
(* to its node n1, over the connection between nodes to n2, and over a     *)
(* websocket to the page of user 222, which shows it.                      *)
(*                                                                         *)
(* A websocket carries one message per frame.  The connection between      *)
(* nodes is a stream of bytes that arrives in pieces, which ProtoCodec     *)
(* puts together again.  On both nodes a task of the thread pool passes    *)
(* the message on.  Both users are logged in and n1 has just connected;    *)
(* who is logged in where is the subject of SessionRegistry, and which way *)
(* a message goes that of MessageRouting.                                  *)
(***************************************************************************)
EXTENDS Messages

CONSTANTS
  Texts,      \* what the user of the first page may type, each once
  MaxTexts,   \* so many of them
  MaxThreads, \* threads in the pool of a node
  Pieces,     \* sizes of the pieces the stream may arrive in
  MaxPieces,  \* at most so many pieces; then all that is there arrives
  HighWater   \* frames that fit into the buffer of a channel

ASSUME TransportAssumption ==
  /\ \A t \in Texts : t \in Seq(Unit)
  /\ MaxTexts \in Nat /\ MaxPieces \in Nat /\ Pieces \subseteq Nat \ {0}
  /\ MaxThreads \in Nat \ {0} /\ HighWater \in Nat \ {0}

VARIABLES
  threads,   \* how many threads the pools have: as many as the CPU has cores
  typed,     \* texts typed, in order
  up,        \* frames from the first page
  tasks,     \* tasks[n]: messages whose tasks are not done, as submitted
  stream,    \* bytes between the nodes that have not arrived
  pieces,    \* pieces that have arrived
  handler,   \* first handler of the connection at n2
  buffer,    \* bytes that have arrived and are not decoded
  sent,      \* messages n1 has written to the connection
  received,  \* messages n2 has decoded from it
  down,      \* frames to the second page
  shown,     \* texts it shows, in order
  dropped    \* messages its channel had no room for

vars == <<threads, typed, up, tasks, stream, pieces, handler, buffer, sent,
          received, down, shown, dropped>>

User111 == <<49, 49, 49>>
User222 == <<50, 50, 50>>

-----------------------------------------------------------------------------
(* What the pages and the nodes make.                                      *)

(* send() of the page.                                                     *)
DataMessage(t) ==
  LET body == Set(BundledBody, New(BundledBody), "Content", t)
      m == Set(BundledModel, New(BundledModel), "From", User111)
      n == Set(BundledModel, m, "To", User222)
      o == Set(BundledModel, n, "Content", Serialize(BundledBody, body))
  IN  Set(BundledModel, o, "Cmd", BundledCmdType.DATA)

(* ConnectResponseBuilder, with "1" for the time of day.                   *)
Title == <<26381, 21153, 31471>>
Greeting == <<23458, 25143, 31471, 36830, 25509, 25104, 21151, 12290, 12290, 12290>>

ConnectResponse ==
  LET a == Set(JavaBody, New(JavaBody), "Title", Title)
      b == Set(JavaBody, a, "Content", Greeting)
      c == Set(JavaBody, b, "Time", <<49>>)
      d == Set(JavaBody, c, "Type", 1)
  IN  Set(JavaModel, New(JavaModel), "Content", Serialize(JavaBody, d))

(* NotificationMsgBuilder, with "{}" for the notice and "1" for the time.  *)
Hello ==
  LET a == Set(JavaBody, New(JavaBody), "Content", <<123, 125>>)
      body == Set(JavaBody, Set(JavaBody, a, "Type", 0), "Time", <<49>>)
      m == Set(JavaModel, New(JavaModel), "Content", Serialize(JavaBody, body))
  IN  Set(JavaModel, m, "Cmd", JavaCmdType.NOTIFICATION)

(* onmessage of the page.                                                  *)
ContentOf(frame) ==
  LET m == Deserialize(BundledModel, frame)
  IN  Get(BundledBody, Deserialize(BundledBody, Get(BundledModel, m, "Content")), "Content")

(* ProtoCodec.encode                                                       *)
Magic == 134
Int4(n) == <<n \div 16777216, (n \div 65536) % 256, (n \div 256) % 256, n % 256>>

Encode(m) ==
  LET bytes == Serialize(JavaModel, m)
  IN  <<Magic>> \o Int4(Len(bytes)) \o bytes

(* ProtoCodec.decode has a message before it.  Mutant: it waits for a byte *)
(* more.                                                                   *)
Length(b) == ((b[2] * 256 + b[3]) * 256 + b[4]) * 256 + b[5]
CompleteLate(b) == Len(b) >= 5 /\ b[1] = Magic /\ Length(b) < Len(b) - 5
Complete(b) == Len(b) >= 5 /\ b[1] = Magic /\ Length(b) <= Len(b) - 5

-----------------------------------------------------------------------------

TypeOK ==
  /\ threads \in 1..MaxThreads
  /\ typed \in BoundedSeq(Texts, MaxTexts)
  /\ \A n \in {"n1", "n2"} : Len(tasks[n]) <= MaxTexts
  /\ \A frame \in ToSet(up) \cup ToSet(down) \cup {stream, buffer} :
       \A i \in DOMAIN frame : frame[i] \in Byte
  /\ pieces \in 0..MaxPieces
  /\ handler \in {"dispatcher", "codec", "http"}
  /\ Len(received) <= Len(sent) /\ Len(sent) <= MaxTexts + 1
  /\ Len(down) <= HighWater
  /\ \A i \in DOMAIN shown : \A j \in DOMAIN shown[i] : shown[i][j] \in Unit
  /\ dropped \in 0..MaxTexts

Init ==
  /\ threads \in 1..MaxThreads
  /\ typed = <<>>
  /\ up = <<>>
  /\ tasks = [n \in {"n1", "n2"} |-> <<>>]
  /\ stream = Encode(Hello) /\ sent = <<Hello>>
  /\ pieces = 0
  /\ handler = "dispatcher"
  /\ buffer = <<>>
  /\ received = <<>>
  /\ down = <<Serialize(JavaModel, ConnectResponse)>>
  /\ shown = <<>>
  /\ dropped = 0

(* The user types a text and presses the button.                           *)
Type(t) ==
  /\ Len(typed) < MaxTexts /\ t \notin ToSet(typed)
  /\ typed' = Append(typed, t)
  /\ up' = Append(up, Serialize(BundledModel, DataMessage(t)))
  /\ UNCHANGED <<threads, tasks, stream, pieces, handler, buffer, sent, received,
                 down, shown, dropped>>

(* BinaryHandler.channelRead: a task for a DATA message.                   *)
WithTask(n, m) ==
  IF Get(JavaModel, m, "Cmd") = JavaCmdType.DATA
  THEN [tasks EXCEPT ![n] = Append(@, m)] ELSE tasks

(* FrameCodec.decode and the decoder behind it unwrap a frame.             *)
ReadFrame ==
  /\ up # <<>>
  /\ tasks' = WithTask("n1", Deserialize(JavaModel, Head(up)))
  /\ up' = Tail(up)
  /\ UNCHANGED <<threads, typed, stream, pieces, handler, buffer, sent, received,
                 down, shown, dropped>>

(* The tasks in the hands of a thread, each of which may be done next.     *)
(* Mutant: as many threads as there are tasks.                             *)
AllTasks(n) == DOMAIN tasks[n]
InHand(n) == {i \in DOMAIN tasks[n] : i <= threads}

(* The task on n1 finds that the addressee is a user of n2.                *)
Forward(i) ==
  /\ i \in InHand("n1")
  /\ tasks' = [tasks EXCEPT !["n1"] = RemoveAt(@, i)]
  /\ LET m == tasks["n1"][i] IN
     IF Get(JavaModel, m, "To") = User222
     THEN stream' = stream \o Encode(m) /\ sent' = Append(sent, m)
     ELSE UNCHANGED <<stream, sent>>
  /\ UNCHANGED <<threads, typed, up, pieces, handler, buffer, received, down,
                 shown, dropped>>

(* Some of the bytes arrive; n2 has decoded what had.                      *)
Arrive(k) ==
  /\ k \in 1..Len(stream)
  /\ ~ Complete(buffer)
  /\ \/ k \in Pieces /\ pieces < MaxPieces /\ pieces' = pieces + 1
     \/ k = Len(stream) /\ pieces' = pieces
  /\ buffer' = buffer \o SubSeq(stream, 1, k)
  /\ stream' = SubSeq(stream, k + 1, Len(stream))
  /\ UNCHANGED <<threads, typed, up, tasks, handler, sent, received, down, shown,
                 dropped>>

(* ProtocolDispatcher looks at the first three bytes in its buffer, of     *)
(* which those that have not arrived are whatever was there before, hands  *)
(* the connection over and takes itself out.  "GET" means a browser.       *)
GET == <<71, 69, 84>>

Dispatch(stale) ==
  /\ handler = "dispatcher" /\ buffer # <<>>
  /\ handler' = IF SubSeq(buffer \o stale, 1, 3) = GET THEN "http" ELSE "codec"
  /\ UNCHANGED <<threads, typed, up, tasks, stream, pieces, buffer, sent, received,
                 down, shown, dropped>>

(* Mutant: what is behind the message goes with it.                        *)
DecodeAll ==
  /\ handler = "codec" /\ Complete(buffer)
  /\ LET m == Deserialize(JavaModel, SubSeq(buffer, 6, 5 + Length(buffer)))
     IN  /\ received' = Append(received, m)
         /\ tasks' = WithTask("n2", m)
  /\ buffer' = <<>>
  /\ UNCHANGED <<threads, typed, up, stream, pieces, handler, sent, down, shown,
                 dropped>>

(* ProtoCodec.decode.  What is behind the message stays in the buffer, and *)
(* so does a message that is not complete.                                 *)
Decode ==
  /\ handler = "codec" /\ Complete(buffer)
  /\ LET end == 5 + Length(buffer)
         m == Deserialize(JavaModel, SubSeq(buffer, 6, end))
     IN  /\ buffer' = SubSeq(buffer, end + 1, Len(buffer))
         /\ received' = Append(received, m)
         /\ tasks' = WithTask("n2", m)
  /\ UNCHANGED <<threads, typed, up, stream, pieces, handler, sent, down, shown,
                 dropped>>

(* The task on n2 writes to the page's channel: LocalSession.writeAndFlush *)
(* and FrameCodec.encode.  Mutant: it does not ask whether it can.         *)
DeliverAlways(i) ==
  /\ i \in InHand("n2")
  /\ tasks' = [tasks EXCEPT !["n2"] = RemoveAt(@, i)]
  /\ down' = Append(down, Serialize(JavaModel, tasks["n2"][i]))
  /\ UNCHANGED <<threads, typed, up, stream, pieces, handler, buffer, sent,
                 received, shown, dropped>>

Deliver(i) ==
  /\ i \in InHand("n2")
  /\ tasks' = [tasks EXCEPT !["n2"] = RemoveAt(@, i)]
  /\ IF Len(down) < HighWater
     THEN /\ down' = Append(down, Serialize(JavaModel, tasks["n2"][i]))
          /\ UNCHANGED dropped
     ELSE /\ dropped' = dropped + 1
          /\ UNCHANGED down
  /\ UNCHANGED <<threads, typed, up, stream, pieces, handler, buffer, sent,
                 received, shown>>

Show ==
  /\ down # <<>>
  /\ shown' = Append(shown, ContentOf(Head(down)))
  /\ down' = Tail(down)
  /\ UNCHANGED <<threads, typed, up, tasks, stream, pieces, handler, buffer, sent,
                 received, dropped>>

Dispatches == \E stale \in {<<0, 0>>, <<69, 84>>} : Dispatch(stale)
Forwards == \E i \in 1..MaxTexts : Forward(i)
Delivers == \E i \in 1..MaxTexts : Deliver(i)

Arrives == \E k \in Pieces \cup {Len(stream)} : Arrive(k)

Next ==
  \/ \E t \in Texts : Type(t)
  \/ ReadFrame \/ Forwards \/ Arrives \/ Dispatches \/ Decode \/ Delivers \/ Show

Spec == Init /\ [][Next]_vars

-----------------------------------------------------------------------------
(* Properties.                                                             *)

(* The encoder drops a high unit that is followed by no low one.           *)
Kept(u) ==
  FlattenSeq([i \in DOMAIN u |->
    IF IsHigh(u[i]) /\ i < Len(u) /\ ~ IsLow(u[i + 1]) THEN <<>> ELSE <<u[i]>>])

(* A text comes through the codecs: what the page writes for it is read by *)
(* Java as a message for user 222, which Java reads back from what it      *)
(* writes, and the page reads from that what was kept of the text.  A      *)
(* message is no longer than Java's int can say.                           *)
MaxInt == 2147483647
IsMessage(b) == b \in Seq(Byte) /\ Len(b) <= MaxInt

Upward(t) == Serialize(BundledModel, DataMessage(t))
Stored(t) == Deserialize(JavaModel, Upward(t))
Downward(t) == Serialize(JavaModel, Stored(t))

ComesThrough(t) ==
  /\ IsMessage(Upward(t)) /\ IsMessage(Downward(t))
  /\ Get(JavaModel, Stored(t), "Cmd") = JavaCmdType.DATA
  /\ Get(JavaModel, Stored(t), "To") = User222
  /\ Deserialize(JavaModel, Downward(t)) = Stored(t)
  /\ ContentOf(Downward(t)) = Kept(t) /\ Kept(t) \in Seq(Unit)

(* And so do the greeting and the first message between the nodes.         *)
NoticesComeThrough ==
  /\ IsMessage(Serialize(JavaModel, Hello))
  /\ Deserialize(JavaModel, Serialize(JavaModel, Hello)) = Hello
  /\ IsMessage(Serialize(JavaModel, ConnectResponse))
  /\ ContentOf(Serialize(JavaModel, ConnectResponse)) = Greeting

(* What is shown after the greeting are texts of these numbers.            *)
Numbers == [DOMAIN Tail(shown) -> DOMAIN typed]
Shows(n) == \A k \in DOMAIN n : Tail(shown)[k] = Kept(typed[n[k]])

(* The second page shows the greeting of its node and then what was typed  *)
(* on the first, whole, unmixed and each text once, whatever pieces the    *)
(* stream arrived in: writers and readers of three implementations agree   *)
(* (onmessage, ProtoCodec, FrameCodec).                                    *)
ShownIsTyped ==
  shown # <<>> =>
    Head(shown) = Greeting /\ \E n \in Numbers : Shows(n) /\ IsInjective(n)

(* With one thread in the pools, texts are shown in the order in which     *)
(* they were typed (BinaryHandler hands each message to the pool).         *)
OneThreadKeepsOrder ==
  threads = 1 /\ shown # <<>> =>
    \E n \in Numbers : Shows(n) /\ \A i, j \in DOMAIN n : i < j => n[i] < n[j]

(* What n2 decodes is what n1 wrote, in that order, and when the stream    *)
(* and the buffer are empty it is all of it (ProtoCodec.decode resets its  *)
(* reader when a message is not complete).                                 *)
StreamKeepsMessages ==
  /\ IsPrefix(received, sent)
  /\ stream = <<>> /\ buffer = <<>> => received = sent

(* A page writes what Java would: the body of a frame with a well-formed   *)
(* text, which Java's parsers would refuse if it were not UTF-8, is byte   *)
(* for byte what MessageBody.writeTo writes for it.                        *)
TextOf(i) == typed[Len(typed) - Len(up) + i]

PagesWriteLikeJava ==
  \A i \in DOMAIN up : WellFormed(TextOf(i)) =>
    Get(JavaModel, Deserialize(JavaModel, up[i]), "Content")
      = Serialize(JavaBody, Set(JavaBody, New(JavaBody), "Content", TextOf(i)))

(* Writers and readers of pages and nodes agree on the texts: whatever is  *)
(* typed comes through (writeString and readString of the bundle,          *)
(* Model.writeTo and the parser of MessageInfo.java).                      *)
CodecsAgree == NoticesComeThrough /\ \A i \in DOMAIN up : ComesThrough(TextOf(i))

(* proto/Message_pb.js and its copy in js/bundle.js agree on every frame   *)
(* that comes or goes: both write back what they read, give it the same    *)
(* object form, and give the bytes of its content back from base64.        *)
CopyKeeps(model, body, frame) ==
  LET m == Deserialize(model, frame)
      content == Get(model, m, "Content")
  IN  /\ Serialize(model, m) = frame
      /\ DecodeString(ToObject(model, m).content) = content
      /\ Serialize(body, Deserialize(body, content)) = content

CopiesAgree ==
  \A frame \in ToSet(up) \cup ToSet(down) :
    LET pb == Deserialize(PbModel, frame)
        bundled == Deserialize(BundledModel, frame)
    IN  /\ CopyKeeps(PbModel, PbBody, frame)
        /\ CopyKeeps(BundledModel, BundledBody, frame)
        /\ ToObject(PbModel, pb) = ToObject(BundledModel, bundled)
        /\ ToObject(PbBody, Deserialize(PbBody, Get(PbModel, pb, "Content")))
             = ToObject(BundledBody,
                 Deserialize(BundledBody, Get(BundledModel, bundled, "Content")))

(* When nothing is left to do, every text typed has been shown, or dropped *)
(* because the page's channel was not writable: no message waits in the    *)
(* buffer of ProtoCodec or of the dispatcher for bytes that do not come.   *)
Quiet ==
  /\ up = <<>> /\ down = <<>> /\ stream = <<>>
  /\ \A n \in DOMAIN tasks : tasks[n] = <<>>
  /\ ~ (handler = "codec" /\ Complete(buffer))
  /\ ~ (handler = "dispatcher" /\ buffer # <<>>)

NothingIsStuck == Quiet => Len(shown) + dropped = Len(typed) + 1

=============================================================================
