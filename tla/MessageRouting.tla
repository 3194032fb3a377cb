---------------------------- MODULE MessageRouting ----------------------------
(***************************************************************************)
(* A DATA message on its way to the sessions of the user it is addressed   *)
(* to: BinaryHandler, MsgProcesser, SessionManager.getSessionByUserId, the *)
(* writes of LocalSession and RemoteSession, and the connections between   *)
(* nodes with their CONNECT_FINISHED notice.                               *)
(*                                                                         *)
(* BinaryHandler does the same for a client's message and for one that a   *)
(* node forwards: it submits a task that looks the user up in the cache,   *)
(* and writes the message to every session listed there.  What the caches  *)
(* and session maps may hold is the subject of SessionRegistry; here a     *)
(* session is listed or not, and its channel is open or not.               *)
(***************************************************************************)
EXTENDS Naturals, Sequences, FiniteSets, Bags

CONSTANTS
  Node, User, Session, Message,
  HomeOf,   \* the node whose channel the session is
  UserOf,   \* the user logged in on it
  From,     \* the node whose client sends the message
  To,       \* the user the message is addressed to
  Linked,   \* <<n, m>>: n has a PeerSender for m
  GotCap    \* deliveries of one message to one session are counted up to this

ASSUME RoutingAssumption ==
  /\ IsFiniteSet(Session)
  /\ HomeOf \in [Session -> Node]
  /\ UserOf \in [Session -> User]
  /\ From \in [Message -> Node]
  /\ To \in [Message -> User]
  /\ Linked \subseteq {l \in Node \X Node : l[1] # l[2]}
  /\ "hello" \notin Message
  /\ GotCap \in Nat

VARIABLES
  listed,   \* sessions in the user cache of their user
  open,     \* sessions whose channel is open
  sent,     \* messages their clients have sent
  queued,   \* queued[n][m]: tasks for m that the pool of n has not begun
  running,  \* bag of tasks begun, with the sessions still to be written to
  link,     \* link[l]: the state of the PeerSender: "flagged" and "losing"
            \* are the moments when its flag is up and its channel is null
  pipe,     \* pipe[l]: what has been written to it and not been read
  serving,  \* links whose receiving end has its BinaryHandler
  got       \* got[s][m]: how often the channel s has been given m

vars == <<listed, open, sent, queued, running, link, pipe, serving, got>>

Task == [node : Node, msg : Message, todo : SUBSET Session]
Devices(u) == {s \in Session : UserOf[s] = u}

TypeOK ==
  /\ listed \subseteq Session /\ open \subseteq Session
  /\ sent \subseteq Message
  /\ queued \in [Node -> [Message -> Nat]]
  /\ IsABag(running) /\ BagToSet(running) \subseteq Task
  /\ link \in [Linked -> {"down", "flagged", "up", "losing", "lost"}]
  /\ pipe \in [Linked -> Seq(Message \cup {"hello"})]
  /\ serving \subseteq Linked
  /\ got \in [Session -> [Message -> 0..GotCap]]

Init ==
  /\ listed = Session /\ open = Session
  /\ sent = {}
  /\ queued = [n \in Node |-> [m \in Message |-> 0]]
  /\ running = EmptyBag
  /\ link = [l \in Linked |-> "down"]
  /\ pipe = [l \in Linked |-> <<>>]
  /\ serving = {}
  /\ got = [s \in Session |-> [m \in Message |-> 0]]

-----------------------------------------------------------------------------
(* BinaryHandler.channelRead                                               *)

(* A client that is logged in sends its message.                           *)
ClientSends(m) ==
  /\ m \notin sent
  /\ sent' = sent \cup {m}
  /\ queued' = [queued EXCEPT ![From[m]][m] = @ + 1]
  /\ UNCHANGED <<listed, open, running, link, pipe, serving, got>>

(* The task begins: getSessionByUserId.  Nobody listed, nothing to do.     *)
Lookup(n, m) ==
  /\ queued[n][m] > 0
  /\ queued' = [queued EXCEPT ![n][m] = @ - 1]
  /\ LET found == listed \cap Devices(To[m])
     IN  running' = IF found = {} THEN running
                    ELSE running (+) SetToBag({[node |-> n, msg |-> m, todo |-> found]})
  /\ UNCHANGED <<listed, open, sent, link, pipe, serving, got>>

(* RemoteSession.writeAndFlush: route finds no sender for the own node or  *)
(* a node it has no link to, and a sender without its flag drops the       *)
(* message.  With the flag up and the channel null the write throws.       *)
Behind(n, s, states) ==
  <<n, HomeOf[s]>> \in Linked /\ link[<<n, HomeOf[s]>>] \in states

Routed(n, s) == Behind(n, s, {"up"})
Throws(n, s) == Behind(n, s, {"flagged", "losing"})

(* The loop over the sessions goes on, or ends with the exception.         *)
AfterWrite(t, s) ==
  LET rest == IF Throws(t.node, s) THEN {} ELSE t.todo \ {s}
  IN  (running (-) SetToBag({t}))
        (+) (IF rest = {} THEN EmptyBag ELSE SetToBag({[t EXCEPT !.todo = rest]}))

(* Mutants: the session is forwarded for the message; a message that       *)
(* cannot be written is tried again.                                       *)
WriteSession(t, s) ==
  /\ BagIn(t, running) /\ s \in t.todo
  /\ running' = AfterWrite(t, s)
  /\ IF HomeOf[s] # t.node /\ Routed(t.node, s)
     THEN pipe' = [pipe EXCEPT ![<<t.node, HomeOf[s]>>] = Append(@, s)]
     ELSE UNCHANGED pipe
  /\ UNCHANGED <<listed, open, sent, queued, link, serving, got>>

WriteRetried(t, s) ==
  /\ BagIn(t, running) /\ s \in t.todo
  /\ running' = AfterWrite(t, s)
  /\ IF HomeOf[s] = t.node /\ s \notin open
     THEN queued' = [queued EXCEPT ![t.node][t.msg] = @ + 1]
     ELSE UNCHANGED queued
  /\ UNCHANGED <<listed, open, sent, link, pipe, serving, got>>

(* One session of the list is written to.  A channel that has closed is    *)
(* not writable; its session may still be listed.                          *)
Write(t, s) ==
  /\ BagIn(t, running) /\ s \in t.todo
  /\ running' = AfterWrite(t, s)
  /\ IF HomeOf[s] = t.node /\ s \in open
     THEN got' = [got EXCEPT ![s][t.msg] = IF @ < GotCap THEN @ + 1 ELSE @]
     ELSE UNCHANGED got
  /\ IF HomeOf[s] # t.node /\ Routed(t.node, s)
     THEN pipe' = [pipe EXCEPT ![<<t.node, HomeOf[s]>>] = Append(@, t.msg)]
     ELSE UNCHANGED pipe
  /\ UNCHANGED <<listed, open, sent, queued, link, serving>>

-----------------------------------------------------------------------------
(* A connection between nodes.                                             *)

(* connectedListener: the flag, then the channel and CONNECT_FINISHED.  The *)
(* listener runs on the event loop of the channel, so whoever writes to    *)
(* the channel it has stored is put behind its notice.                     *)
Connect(l) ==
  /\ \/ link[l] = "down" /\ link' = [link EXCEPT ![l] = "flagged"] /\ UNCHANGED pipe
     \/ /\ link[l] = "flagged"
        /\ link' = [link EXCEPT ![l] = "up"]
        /\ pipe' = [pipe EXCEPT ![l] = Append(@, "hello")]
  /\ UNCHANGED <<listed, open, sent, queued, running, serving, got>>

(* The connection is lost, and closeListener nulls the channel, then lowers *)
(* the flag.  Nothing reconnects a sender.                                 *)
Lose(l) ==
  /\ \/ link[l] = "up" /\ link' = [link EXCEPT ![l] = "losing"]
     \/ link[l] = "losing" /\ link' = [link EXCEPT ![l] = "lost"]
  /\ pipe' = [pipe EXCEPT ![l] = <<>>]
  /\ serving' = serving \ {l}
  /\ UNCHANGED <<listed, open, sent, queued, running, got>>

(* RemoteNotificationHandler adds the BinaryHandler.                       *)
ReceiveHello(l) ==
  /\ pipe[l] # <<>> /\ Head(pipe[l]) = "hello"
  /\ pipe' = [pipe EXCEPT ![l] = Tail(@)]
  /\ serving' = serving \cup {l}
  /\ UNCHANGED <<listed, open, sent, queued, running, link, got>>

(* Mutants: two handlers take the message; forwarded messages are ignored. *)
ReceiveTwice(l) ==
  /\ pipe[l] # <<>> /\ Head(pipe[l]) # "hello"
  /\ pipe' = [pipe EXCEPT ![l] = Tail(@)]
  /\ queued' = IF l \in serving
               THEN [queued EXCEPT ![l[2]][Head(pipe[l])] = @ + 2] ELSE queued
  /\ UNCHANGED <<listed, open, sent, running, link, serving, got>>

ReceiveIgnored(l) ==
  /\ pipe[l] # <<>> /\ Head(pipe[l]) # "hello"
  /\ pipe' = [pipe EXCEPT ![l] = Tail(@)]
  /\ UNCHANGED <<listed, open, sent, queued, running, link, serving, got>>

(* Without a BinaryHandler the message reaches the end of the pipeline and *)
(* is lost.                                                                *)
Receive(l) ==
  /\ pipe[l] # <<>> /\ Head(pipe[l]) # "hello"
  /\ pipe' = [pipe EXCEPT ![l] = Tail(@)]
  /\ queued' = IF l \in serving
               THEN [queued EXCEPT ![l[2]][Head(pipe[l])] = @ + 1] ELSE queued
  /\ UNCHANGED <<listed, open, sent, running, link, serving, got>>

-----------------------------------------------------------------------------
(* A logout, as SessionRegistry has it: the channel closes, and then the   *)
(* session leaves the cache, or stays there for good.                      *)

CloseChannel(s) ==
  /\ s \in open
  /\ open' = open \ {s}
  /\ UNCHANGED <<listed, sent, queued, running, link, pipe, serving, got>>

Unlist(s) ==
  /\ s \in listed \ open
  /\ listed' = listed \ {s}
  /\ UNCHANGED <<open, sent, queued, running, link, pipe, serving, got>>

-----------------------------------------------------------------------------

Writes(n, m) ==
  \E t \in BagToSet(running), s \in Session :
    t.node = n /\ t.msg = m /\ Write(t, s)

Next ==
  \/ \E m \in Message : ClientSends(m)
  \/ \E n \in Node, m \in Message : Lookup(n, m) \/ Writes(n, m)
  \/ \E l \in Linked : \/ Connect(l) \/ Lose(l)
                       \/ ReceiveHello(l) \/ Receive(l)
  \/ \E s \in Session : CloseChannel(s) \/ Unlist(s)

Spec == Init /\ [][Next]_vars

(* Pools run their tasks, and a connection delivers what it carries.       *)
Fairness ==
  /\ \A n \in Node, m \in Message : WF_vars(Lookup(n, m)) /\ WF_vars(Writes(n, m))
  /\ \A l \in Linked : WF_vars(ReceiveHello(l)) /\ WF_vars(Receive(l))

FairSpec == Spec /\ Fairness

-----------------------------------------------------------------------------
(* Properties.                                                             *)

(* A session on the sender's node gets a message at most once, a session   *)
(* elsewhere at most once for each device that the user has there: each of *)
(* them makes the sender's node forward a copy, and the receiving node     *)
(* writes each copy to all of them.  That holds unless a node that gets it *)
(* forwarded can pass it on to one that holds another device.              *)
StaysThere(m) ==
  \A s, t \in Devices(To[m]) :
    HomeOf[s] # From[m] => <<HomeOf[s], HomeOf[t]>> \notin Linked

Copies(m, s) ==
  IF s \notin Devices(To[m]) THEN 0
  ELSE IF HomeOf[s] = From[m] THEN 1
  ELSE Cardinality({t \in Devices(To[m]) : HomeOf[t] = HomeOf[s]})

CopiesBounded ==
  \A m \in Message : StaysThere(m) =>
    \A s \in Session : got[s][m] <= Copies(m, s)

(* A message whose task is submitted while the addressee's session is      *)
(* listed and open, and the way to it connected, arrives there, unless the *)
(* session or the connection goes, or a sender on the way to another       *)
(* device is caught without its channel, which ends the loop over them.    *)
(* That the connection is new, and its receiving end has not read the      *)
(* CONNECT_FINISHED notice yet, does no harm.                              *)
Reachable(m, s) ==
  /\ s \in Devices(To[m]) \cap listed \cap open
  /\ HomeOf[s] = From[m] \/ Routed(From[m], s)
  /\ \A n \in {From[m], HomeOf[s]}, d \in Devices(To[m]) : ~ Throws(n, d)

MessageArrives ==
  \A m \in Message, s \in Session :
    (queued[From[m]][m] > 0 /\ Reachable(m, s))
      ~> (got[s][m] > 0 \/ ~ Reachable(m, s))

(* A message that has been sent is some day no longer under way: nodes do  *)
(* not pass it on for ever, also when sessions are listed that are gone.   *)
UnderWay(m) ==
  \/ \E n \in Node : queued[n][m] > 0
  \/ \E t \in BagToSet(running) : t.msg = m
  \/ \E l \in Linked : \E i \in 1..Len(pipe[l]) : pipe[l][i] = m

MessageSettles == \A m \in Message : m \in sent ~> ~ UnderWay(m)

=============================================================================
