------------------------------ MODULE NodeRouter ------------------------------
(***************************************************************************)
(* The NodeRouter of one node: the ZooKeeper events that tell it of its    *)
(* peers, the pool threads that handle them, the map of PeerSenders they   *)
(* keep, and the notifications sent through that map.                      *)
(*                                                                         *)
(* PathChildrenCache hands every event to the thread pool.  Both handlers  *)
(* parse the event's payload into the one field wsNode of the singleton    *)
(* and then read that field again and again; a step is one access to the   *)
(* field, to a WsNode it refers to, to workerMap or to a sender's fields.  *)
(* How a sender's connection comes and goes is told by PeerLink.           *)
(***************************************************************************)
EXTENDS Naturals, Sequences, PeerLink

CONSTANTS
  Peer,      \* the nodes that join and leave, named by their ids
  Self,      \* this node
  Accepting, \* nodes whose server may accept a connection
  Thread,    \* threads of the pool: as many as the machine has CPUs
  Unset      \* no id, no object, no sender

Member == Peer \cup {Self}

(* A node registers and leaves once: a restarted one gets a new number.    *)
Event == [kind : {"added", "removed"}, node : Member]

ASSUME RouterAssumption ==
  /\ Self \notin Peer
  /\ Accepting \subseteq Member
  /\ Unset \notin Member /\ Unset \notin Event

(* WsNode objects and PeerSenders are named after the event whose handler  *)
(* makes them.  sender.node is the object the constructor got.             *)
Added(n) == [kind |-> "added", node |-> n]
Removed(n) == [kind |-> "removed", node |-> n]

VARIABLES
  registered,  \* the children of /nodes
  joined,      \* the nodes that have ever been registered
  queue,       \* events no thread has taken yet
  wsNode,      \* the field: the object parsed last
  id,          \* id[e]: the field id of the WsNode object parsed for e
  pc,          \* pc[t]: what thread t does next
  event,       \* event[t]: the event it handles
  node,        \* node[t]: the object passed to doAfterAdd or doAfterRemove
  peerSender,  \* peerSender[t]: the sender it has read from workerMap
  workerMap,   \* workerMap[i]: the sender stored under id i
  senderNode,  \* senderNode[e]: the object of the sender made for e
  open,        \* the senders made and not stopped
  link,        \* link[e]: the connection of the sender made for e
  notifier     \* a sendNotification: the keys it may and must still come to,
               \* the key and the sender read last, and as history the
               \* senders connected at its beginning and those written to

vars == <<registered, joined, queue, wsNode, id, pc, event, node, peerSender,
          workerMap, senderNode, open, link, notifier>>

zk == <<registered, joined>>
task == <<pc, event, node, peerSender>>
senders == <<workerMap, senderNode, open, link>>

Steps == {"idle", "parse", "setId", "isLocal", "get", "isKnown", "accept",
          "stopOld", "connect", "put", "acceptRemove", "getRemoved", "stop",
          "drop"}

TypeOK ==
  /\ registered \subseteq joined /\ joined \subseteq Member
  /\ queue \in Seq(Event)
  /\ wsNode \in Event \cup {Unset}
  /\ id \in [Event -> Member \cup {Unset}]
  /\ pc \in [Thread -> Steps]
  /\ event \in [Thread -> Event \cup {Unset}]
  /\ node \in [Thread -> Event \cup {Unset}]
  /\ peerSender \in [Thread -> Event \cup {Unset}]
  /\ workerMap \in [Member \cup {Unset} -> Event \cup {Unset}]
  /\ senderNode \in [Event -> Event \cup {Unset}]
  /\ open \subseteq Event
  /\ link \in [Event -> LinkStates]
  /\ notifier \in [step : {"idle", "next", "get", "check", "write", "done", "failed"},
                   key : Member \cup {Unset},
                   sender : Event \cup {Unset},
                   may : SUBSET (Member \cup {Unset}),
                   must : SUBSET (Member \cup {Unset}),
                   expected : SUBSET Event,
                   reached : SUBSET Event]

Init ==
  /\ registered = {} /\ joined = {}
  /\ queue = <<>>
  /\ wsNode = Unset
  /\ id = [e \in Event |-> Unset]
  /\ pc = [t \in Thread |-> "idle"]
  /\ event = [t \in Thread |-> Unset]
  /\ node = [t \in Thread |-> Unset]
  /\ peerSender = [t \in Thread |-> Unset]
  /\ workerMap = [i \in Member \cup {Unset} |-> Unset]
  /\ senderNode = [e \in Event |-> Unset]
  /\ open = {}
  /\ link = [e \in Event |-> "down"]
  /\ notifier = [step |-> "idle", key |-> Unset, sender |-> Unset, may |-> {},
                  must |-> {}, expected |-> {}, reached |-> {}]

-----------------------------------------------------------------------------
(* ZooKeeper and PathChildrenCache, which reports the children in order.   *)

Join(n) ==
  /\ n \in Member \ joined
  /\ joined' = joined \cup {n}
  /\ registered' = registered \cup {n}
  /\ queue' = Append(queue, Added(n))
  /\ UNCHANGED <<wsNode, id, task, senders, notifier>>

Leave(n) ==
  /\ n \in registered \cap Peer
  /\ registered' = registered \ {n}
  /\ queue' = Append(queue, Removed(n))
  /\ UNCHANGED <<joined, wsNode, id, task, senders, notifier>>

-----------------------------------------------------------------------------
(* processNodeAdd and processNodeRemove.                                   *)

Step(t, from, to) ==
  /\ pc[t] = from
  /\ pc' = [pc EXCEPT ![t] = to]

Take(t) ==
  /\ queue # <<>>
  /\ Step(t, "idle", "parse")
  /\ event' = [event EXCEPT ![t] = Head(queue)]
  /\ queue' = Tail(queue)
  /\ UNCHANGED <<zk, wsNode, id, node, peerSender, senders, notifier>>

(* The payload holds the id only once the peer has written its balance.    *)
Parse(t) ==
  /\ Step(t, "parse", "setId")
  /\ wsNode' = event[t]
  /\ \E i \in {Unset, event[t].node} : id' = [id EXCEPT ![event[t]] = i]
  /\ UNCHANGED <<zk, queue, event, node, peerSender, senders, notifier>>

(* Mutant: only processNodeAdd sets the id.                                *)
SetIdOfAdded(t) ==
  /\ Step(t, "setId", IF event[t].kind = "added" THEN "isLocal" ELSE "acceptRemove")
  /\ id' = IF event[t].kind = "added"
           THEN [id EXCEPT ![wsNode] = event[t].node] ELSE id
  /\ UNCHANGED <<zk, queue, wsNode, event, node, peerSender, senders, notifier>>

(* setId with the number in the path, on the object the field refers to.   *)
SetId(t) ==
  /\ Step(t, "setId", IF event[t].kind = "added" THEN "isLocal" ELSE "acceptRemove")
  /\ id' = [id EXCEPT ![wsNode] = event[t].node]
  /\ UNCHANGED <<zk, queue, wsNode, event, node, peerSender, senders, notifier>>

(* WsNode.equals compares ids and addresses.                               *)
Equal(d, e) == id[d] = id[e] /\ d.node = e.node

(* Mutant: the local node is not recognised.                               *)
IsLocalUntested(t) ==
  /\ Step(t, "isLocal", "get")
  /\ UNCHANGED <<zk, queue, wsNode, id, event, node, peerSender, senders, notifier>>

IsLocal(t) ==
  /\ Step(t, "isLocal",
          IF id[wsNode] = Self /\ wsNode.node = Self THEN "idle" ELSE "get")
  /\ UNCHANGED <<zk, queue, wsNode, id, event, node, peerSender, senders, notifier>>

GetSender(t) ==
  /\ Step(t, "get", "isKnown")
  /\ peerSender' = [peerSender EXCEPT ![t] = workerMap[id[wsNode]]]
  /\ UNCHANGED <<zk, queue, wsNode, id, event, node, senders, notifier>>

IsKnown(t) ==
  /\ Step(t, "isKnown",
          IF peerSender[t] # Unset /\ Equal(senderNode[peerSender[t]], wsNode)
          THEN "idle" ELSE "accept")
  /\ UNCHANGED <<zk, queue, wsNode, id, event, node, peerSender, senders, notifier>>

(* Mutant: the id is passed for the node.                                  *)
AcceptId(t) ==
  /\ Step(t, "accept", "stopOld")
  /\ node' = [node EXCEPT ![t] = id[wsNode]]
  /\ UNCHANGED <<zk, queue, wsNode, id, event, peerSender, senders, notifier>>

(* runAfterAdd.accept(this.wsNode, peerSender)                             *)
Accept(t) ==
  /\ Step(t, "accept", "stopOld")
  /\ node' = [node EXCEPT ![t] = wsNode]
  /\ UNCHANGED <<zk, queue, wsNode, id, event, peerSender, senders, notifier>>

(* runAfterRemove.accept(wsNode)                                           *)
AcceptRemove(t) ==
  /\ Step(t, "acceptRemove", "getRemoved")
  /\ node' = [node EXCEPT ![t] = wsNode]
  /\ UNCHANGED <<zk, queue, wsNode, id, event, peerSender, senders, notifier>>

-----------------------------------------------------------------------------
(* workerMap, a ConcurrentHashMap.  An iteration over its keys comes to    *)
(* every key that stays in it from the iteration's beginning to its end;   *)
(* it may or may not come to one that is put or removed meanwhile.         *)

Keys == {i \in DOMAIN workerMap : workerMap[i] # Unset}
Notifying == notifier.step \in {"next", "get", "check", "write"}

-----------------------------------------------------------------------------
(* doAfterAdd                                                              *)

(* stopConnecting                                                          *)
Stop(sender) ==
  /\ open' = open \ {sender}
  /\ link' = [e \in Event |-> IF e = sender THEN Stopped(link[e]) ELSE link[e]]

StopOld(t) ==
  /\ Step(t, "stopOld", "connect")
  /\ Stop(peerSender[t])
  /\ UNCHANGED <<zk, queue, wsNode, id, event, node, peerSender, workerMap,
                 senderNode, notifier>>

(* new PeerSender(node) and its doConnect                                  *)
Connect(t) ==
  /\ Step(t, "connect", "put")
  /\ senderNode' = [senderNode EXCEPT ![event[t]] = node[t]]
  /\ open' = open \cup {event[t]}
  /\ UNCHANGED <<zk, queue, wsNode, id, event, node, peerSender, workerMap,
                 link, notifier>>

(* An iteration that is under way may come to the new key.                 *)
PutSender(t) ==
  /\ Step(t, "put", "idle")
  /\ workerMap' = [workerMap EXCEPT ![id[node[t]]] = event[t]]
  /\ notifier' = IF Notifying
                 THEN [notifier EXCEPT !.may = @ \cup ({id[node[t]]} \ Keys)]
                 ELSE notifier
  /\ UNCHANGED <<zk, queue, wsNode, id, event, node, peerSender, senderNode,
                 open, link>>

-----------------------------------------------------------------------------
(* doAfterRemove                                                           *)

GetRemoved(t) ==
  /\ Step(t, "getRemoved",
          IF workerMap[id[node[t]]] = Unset THEN "idle" ELSE "stop")
  /\ peerSender' = [peerSender EXCEPT ![t] = workerMap[id[node[t]]]]
  /\ UNCHANGED <<zk, queue, wsNode, id, event, node, senders, notifier>>

StopRemoved(t) ==
  /\ Step(t, "stop", "drop")
  /\ Stop(peerSender[t])
  /\ UNCHANGED <<zk, queue, wsNode, id, event, node, peerSender, workerMap,
                 senderNode, notifier>>

(* Mutant: the stopped sender stays in the map.                            *)
DropSenderSkipped(t) ==
  /\ Step(t, "drop", "idle")
  /\ UNCHANGED <<zk, queue, wsNode, id, event, node, peerSender, senders, notifier>>

(* An iteration that is under way need not come to the key any more.       *)
DropSender(t) ==
  /\ Step(t, "drop", "idle")
  /\ workerMap' = [workerMap EXCEPT ![id[node[t]]] = Unset]
  /\ notifier' = [notifier EXCEPT !.must = @ \ {id[node[t]]}]
  /\ UNCHANGED <<zk, queue, wsNode, id, event, node, peerSender, senderNode,
                 open, link>>

-----------------------------------------------------------------------------
(* The connection of a sender: its peer, its event loop.  A connect that   *)
(* is refused leaves the sender "down".                                     *)
LinkMoves(e) ==
  /\ senderNode[e] # Unset /\ senderNode[e].node \in Accepting
  /\ \E state \in LinkStates :
       /\ <<link[e], state>> \in LinkSteps
       /\ link' = [link EXCEPT ![e] = state]
  /\ UNCHANGED <<zk, queue, wsNode, id, task, workerMap, senderNode, open, notifier>>

-----------------------------------------------------------------------------
(* sendNotification: for every key that is not this node's, get the sender *)
(* and write to it.                                                        *)

ConnectedSenders == {workerMap[i] : i \in {k \in Keys : link[workerMap[k]] = "up"}}

Notify ==
  /\ notifier.step = "idle"
  /\ notifier' = [notifier EXCEPT !.step = "next", !.may = Keys, !.must = Keys,
                                  !.expected = ConnectedSenders]
  /\ UNCHANGED <<zk, queue, wsNode, id, task, senders>>

NotifyNext ==
  /\ notifier.step = "next"
  /\ \/ \E i \in notifier.may :
          notifier' = [notifier EXCEPT !.may = @ \ {i}, !.must = @ \ {i}, !.key = i,
                                       !.step = IF i = Self THEN "next" ELSE "get"]
     \/ /\ notifier.must = {}
        /\ notifier' = [notifier EXCEPT !.step = "done", !.may = {}]
  /\ UNCHANGED <<zk, queue, wsNode, id, task, senders>>

NotifyGet ==
  /\ notifier.step = "get"
  /\ notifier' = [notifier EXCEPT !.step = "check", !.sender = workerMap[notifier.key]]
  /\ UNCHANGED <<zk, queue, wsNode, id, task, senders>>

(* Mutant: a missing sender ends the loop as if it were the last.          *)
NotifyCheckReturns ==
  /\ notifier.step = "check"
  /\ notifier' =
       IF notifier.sender = Unset THEN [notifier EXCEPT !.step = "done"]
       ELSE [notifier EXCEPT !.step =
               IF link[notifier.sender] \in Flagged THEN "write" ELSE "next"]
  /\ UNCHANGED <<zk, queue, wsNode, id, task, senders>>

(* The sender may be gone by now: a NullPointerException ends the loop.    *)
(* One whose flag is down drops the notification without a word, and the   *)
(* loop goes on.                                                           *)
NotifyCheck ==
  /\ notifier.step = "check"
  /\ notifier' = [notifier EXCEPT !.step =
                    IF notifier.sender = Unset THEN "failed"
                    ELSE IF link[notifier.sender] \in Flagged THEN "write" ELSE "next"]
  /\ UNCHANGED <<zk, queue, wsNode, id, task, senders>>

(* A channel that is null ends the loop too.                               *)
NotifyWrite ==
  /\ notifier.step = "write"
  /\ \E outcome \in WriteOutcomes(link[notifier.sender]) :
       notifier' = [notifier EXCEPT
         !.step = IF outcome = "npe" THEN "failed" ELSE "next",
         !.reached = IF outcome = "sent" THEN @ \cup {notifier.sender} ELSE @]
  /\ UNCHANGED <<zk, queue, wsNode, id, task, senders>>

-----------------------------------------------------------------------------

Handle(t) == Take(t) \/ Parse(t) \/ SetId(t) \/ IsLocal(t) \/ GetSender(t)
               \/ IsKnown(t) \/ Accept(t) \/ StopOld(t) \/ Connect(t)
               \/ PutSender(t) \/ AcceptRemove(t) \/ GetRemoved(t)
               \/ StopRemoved(t) \/ DropSender(t)

Next ==
  \/ \E n \in Member : Join(n) \/ Leave(n)
  \/ \E t \in Thread : Handle(t)
  \/ \E e \in Event : LinkMoves(e)
  \/ Notify \/ NotifyNext \/ NotifyGet \/ NotifyCheck \/ NotifyWrite

Spec == Init /\ [][Next]_vars

(* Pool threads run the tasks they are given; nothing is assumed of peers, *)
(* connections and notifications.                                          *)
FairSpec == Spec /\ \A t \in Thread : WF_vars(Handle(t))

-----------------------------------------------------------------------------
(* Properties.                                                             *)

Quiet == queue = <<>> /\ \A t \in Thread : pc[t] = "idle"

(* When every event has been handled the map has, under its id, one open   *)
(* sender for each registered peer and nothing else, and no other sender   *)
(* is left connected (processNodeAdd, processNodeRemove).                  *)
MapFollowsZk ==
  Quiet =>
    /\ Keys = registered \ {Self}
    /\ \A i \in Keys : senderNode[workerMap[i]].node = i
    /\ open = {workerMap[i] : i \in Keys}

(* The node never connects to itself: processNodeAdd returns for the event *)
(* of the local node.                                                      *)
NoSelfSender == \A e \in open : senderNode[e].node # Self

(* A peer that joins and stays gets its sender, one that leaves loses it:  *)
(* the router catches up with ZooKeeper whenever that stays still.         *)
RouterCatchesUp ==
  \A n \in Peer :
    /\ n \in joined ~> n \notin registered \/ workerMap[n] # Unset
    /\ n \in joined \ registered ~> workerMap[n] = Unset

(* A notification that runs to its end has been written to every peer      *)
(* whose sender was in the map and connected when it began, that is still  *)
(* registered and whose connection has stood all the while: no put or      *)
(* remove in the map under the loop, and no other peer's sender that is    *)
(* down or broken, makes it miss one (NodeRouter.sendNotification).        *)
Owed == {e \in notifier.expected :
           senderNode[e].node \in registered /\ link[e] = "up"}

NotifiedAll == notifier.step = "done" => Owed \subseteq notifier.reached

=============================================================================
