--------------------------- MODULE NodeRouterProofs ---------------------------
(***************************************************************************)
(* Proofs about NodeRouter: its types for any pool, and for a pool of one  *)
(* thread, with any number of peers, that the map follows ZooKeeper.  With *)
(* two threads it does not, which the run router_two_threads shows.        *)
(***************************************************************************)
EXTENDS NodeRouter, TLAPS

-----------------------------------------------------------------------------
(* Type correctness.                                                       *)

(* What has been assigned before a thread comes to where it reads it.      *)
Referred ==
  /\ \A t \in Thread : pc[t] # "idle" => event[t] # Unset
  /\ \A t \in Thread : pc[t] \notin {"idle", "parse"} => wsNode # Unset
  /\ \A t \in Thread :
       pc[t] \in {"stopOld", "connect", "put", "getRemoved", "stop", "drop"}
         => node[t] # Unset
  /\ \A t \in Thread : pc[t] = "put" => senderNode[event[t]] # Unset
  /\ \A i \in DOMAIN workerMap :
       workerMap[i] # Unset => senderNode[workerMap[i]] # Unset
  /\ notifier.step = "write" => notifier.sender # Unset

Typed == TypeOK /\ Referred

Notifier ==
  [step : {"idle", "next", "get", "check", "write", "done", "failed"},
   key : Member \cup {Unset},
   sender : Event \cup {Unset},
   may : SUBSET (Member \cup {Unset}),
   must : SUBSET (Member \cup {Unset}),
   expected : SUBSET Event,
   reached : SUBSET Event]

(* The steps that leave the handlers and what they read alone.             *)
Aside == \/ Notify \/ NotifyNext \/ NotifyGet \/ NotifyCheck \/ NotifyWrite
         \/ \E e \in Event : LinkMoves(e)

LEMMA NextCases ==
  ASSUME [Next]_vars
  PROVE  \/ \E n \in Member : Join(n) \/ Leave(n)
         \/ \E t \in Thread : Handle(t)
         \/ Aside
         \/ UNCHANGED vars
BY DEF Next, Aside

LEMMA AsideApart ==
  ASSUME Aside \/ UNCHANGED vars
  PROVE  /\ UNCHANGED <<queue, wsNode, id, workerMap, senderNode, open>>
         /\ UNCHANGED <<registered, joined, pc, event, node, peerSender>>
         /\ UNCHANGED <<zk, task>>
<1>1. CASE Notify \/ NotifyNext \/ NotifyGet
  BY <1>1 DEF Notify, NotifyNext, NotifyGet, zk, task, senders
<1>2. CASE NotifyCheck \/ NotifyWrite
  BY <1>2 DEF NotifyCheck, NotifyWrite, zk, task, senders
<1>3. CASE \E e \in Event : LinkMoves(e)
  BY <1>3 DEF LinkMoves, zk, task
<1>4. CASE UNCHANGED vars
  BY <1>4 DEF vars, zk, task
<1> QED
  BY <1>1, <1>2, <1>3, <1>4 DEF Aside

LEMMA Members ==
  /\ Unset \notin Event
  /\ \A n \in Member : Added(n) \in Event /\ Removed(n) \in Event
  /\ \A e \in Event : e.node \in Member /\ e.kind \in {"added", "removed"}
BY RouterAssumption DEF Event, Member, Added, Removed

LEMMA InitTyped == Init => Typed
BY Members DEF Init, Typed, TypeOK, Referred, Steps, LinkStates

LEMMA QueueTyped ==
  ASSUME TypeOK, queue # <<>>
  PROVE  Head(queue) \in Event /\ Tail(queue) \in Seq(Event)
BY DEF TypeOK

LEMMA NextTyped == Typed /\ [Next]_vars => Typed'
<1> SUFFICES ASSUME Typed, [Next]_vars PROVE Typed'
  OBVIOUS
<1> USE Members DEF Typed, TypeOK, Referred, Steps, Step, Notifier, zk, task, senders
<1>1. ASSUME NEW n \in Member, Join(n) \/ Leave(n)
      PROVE  Typed'
  <2>1. queue' \in Seq(Event)
    <3>1. \E e \in Event : queue' = Append(queue, e)
      BY <1>1 DEF Join, Leave
    <3> QED
      BY <3>1
  <2> QED
    BY <1>1, <2>1 DEF Join, Leave
<1>2. ASSUME NEW t \in Thread, Take(t)
      PROVE  Typed'
  <2>1. Head(queue) \in Event /\ Tail(queue) \in Seq(Event)
    BY <1>2, QueueTyped DEF Take
  <2> QED
    BY <1>2, <2>1 DEF Take
<1>3. ASSUME NEW t \in Thread, Parse(t)
      PROVE  Typed'
  BY <1>3 DEF Parse
<1>4. ASSUME NEW t \in Thread, SetId(t)
      PROVE  Typed'
  BY <1>4 DEF SetId
<1>5. ASSUME NEW t \in Thread, IsLocal(t) \/ IsKnown(t)
      PROVE  Typed'
  <2>1. CASE IsLocal(t)
    BY <2>1 DEF IsLocal
  <2>2. CASE IsKnown(t)
    BY <2>2 DEF IsKnown
  <2> QED
    BY <1>5, <2>1, <2>2
<1>6. ASSUME NEW t \in Thread, GetSender(t) \/ GetRemoved(t)
      PROVE  Typed'
  <2>1. PICK e \in Event : peerSender' = [peerSender EXCEPT ![t] = workerMap[id[e]]]
    BY <1>6 DEF GetSender, GetRemoved
  <2>2. id[e] \in Member \cup {Unset}
    BY <2>1
  <2>3. peerSender' \in [Thread -> Event \cup {Unset}]
    BY <2>1, <2>2
  <2>4. CASE GetSender(t)
    BY <2>3, <2>4 DEF GetSender
  <2>5. CASE GetRemoved(t)
    BY <2>3, <2>5 DEF GetRemoved
  <2> QED
    BY <1>6, <2>4, <2>5
<1>7. ASSUME NEW t \in Thread, Accept(t) \/ AcceptRemove(t)
      PROVE  Typed'
  <2>1. CASE Accept(t)
    BY <2>1 DEF Accept
  <2>2. CASE AcceptRemove(t)
    BY <2>2 DEF AcceptRemove
  <2> QED
    BY <1>7, <2>1, <2>2
<1>8. ASSUME NEW t \in Thread, StopOld(t) \/ StopRemoved(t)
      PROVE  Typed'
  <2>1. \A state : Stopped(state) \in LinkStates
    BY DEF Stopped, LinkStates
  <2>2. CASE StopOld(t)
    BY <2>1, <2>2 DEF StopOld, Stop
  <2>3. CASE StopRemoved(t)
    BY <2>1, <2>3 DEF StopRemoved, Stop
  <2> QED
    BY <1>8, <2>2, <2>3
<1>9. ASSUME NEW t \in Thread, Connect(t)
      PROVE  Typed'
  BY <1>9 DEF Connect
<1>10. ASSUME NEW t \in Thread, PutSender(t) \/ DropSender(t)
       PROVE  Typed'
  <2>1. id[node[t]] \in Member \cup {Unset}
    BY <1>10 DEF PutSender, DropSender
  <2>2. CASE PutSender(t)
    BY <2>1, <2>2 DEF PutSender
  <2>3. CASE DropSender(t)
    BY <2>1, <2>3 DEF DropSender
  <2> QED
    BY <1>10, <2>2, <2>3
<1>11. CASE Notify
  <2>1. Keys \subseteq Member \cup {Unset} /\ ConnectedSenders \subseteq Event
    BY DEF Keys, ConnectedSenders
  <2>2. notifier' \in Notifier /\ notifier'.step = "next"
    BY <1>11, <2>1 DEF Notify
  <2> QED
    BY <1>11, <2>2 DEF Notify
<1>12. CASE NotifyNext \/ NotifyGet
  <2>1. CASE NotifyNext
    <3>1. ASSUME NEW i \in notifier.may,
                 notifier' = [notifier EXCEPT !.may = @ \ {i}, !.must = @ \ {i}, !.key = i,
                                !.step = IF i = Self THEN "next" ELSE "get"]
          PROVE  notifier' \in Notifier
      <4>1. i \in Member \cup {Unset}
        BY <3>1
      <4> QED
        BY <3>1, <4>1
    <3>2. ASSUME notifier' = [notifier EXCEPT !.step = "done", !.may = {}]
          PROVE  notifier' \in Notifier
      BY <3>2
    <3>3. notifier' \in Notifier
      BY <2>1, <3>1, <3>2 DEF NotifyNext
    <3> QED
      BY <2>1, <3>3 DEF NotifyNext
  <2>2. CASE NotifyGet
    BY <2>2 DEF NotifyGet
  <2> QED
    BY <1>12, <2>1, <2>2
<1>13. CASE NotifyCheck \/ NotifyWrite
  <2>1. CASE NotifyCheck
    BY <2>1 DEF NotifyCheck
  <2>2. CASE NotifyWrite
    <3>1. notifier.sender \in Event /\ UNCHANGED <<zk, queue, wsNode, id, task, senders>>
      BY <2>2 DEF NotifyWrite
    <3>2. PICK outcome \in WriteOutcomes(link[notifier.sender]) :
            notifier' = [notifier EXCEPT
              !.step = IF outcome = "npe" THEN "failed" ELSE "next",
              !.reached = IF outcome = "sent" THEN @ \cup {notifier.sender} ELSE @]
      BY <2>2 DEF NotifyWrite
    <3>3. notifier' \in Notifier /\ notifier'.step # "write"
      BY <3>1, <3>2
    <3> QED
      BY <3>1, <3>3
  <2> QED
    BY <1>13, <2>1, <2>2
<1>14. ASSUME NEW e \in Event, LinkMoves(e)
       PROVE  Typed'
  BY <1>14 DEF LinkMoves
<1>15. CASE UNCHANGED vars
  BY <1>15 DEF vars
<1> QED
  BY <1>1, <1>2, <1>3, <1>4, <1>5, <1>6, <1>7, <1>8, <1>9, <1>10, <1>11,
     <1>12, <1>13, <1>14, <1>15, NextCases
  DEF Aside, Handle

(* Every state of a router is well typed: no thread ever reads a field, an *)
(* object or a sender that has not been assigned, however many there are.  *)
THEOREM RouterTyped == Spec => []TypeOK
<1>1. Typed => TypeOK
  BY DEF Typed
<1> QED
  BY <1>1, InitTyped, NextTyped, PTL DEF Spec

-----------------------------------------------------------------------------
(* One thread.  It handles the events in the order in which ZooKeeper made *)
(* them: one that a node has joined, and later one that it has left.       *)

InQueue(e) == \E i \in DOMAIN queue : queue[i] = e

QueueInv ==
  /\ \A i, j \in DOMAIN queue : queue[i] = queue[j] => i = j
  /\ \A n \in Member : \A i, j \in DOMAIN queue :
       queue[i] = Removed(n) /\ queue[j] = Added(n) => j < i
  /\ \A n \in Member : /\ InQueue(Added(n)) => n \in joined
                       /\ InQueue(Removed(n)) => n \in joined \ registered
  /\ \A n \in joined \ registered : /\ n \in Peer
                                    /\ InQueue(Added(n)) => InQueue(Removed(n))

(* The event the thread t handles.                                         *)
TakenInv(t) ==
  pc[t] # "idle" =>
    \A n \in Member :
      /\ event[t] = Added(n)
           => /\ n \in joined /\ ~ InQueue(Added(n))
              /\ n \in registered \/ InQueue(Removed(n))
      /\ event[t] = Removed(n)
           => /\ n \in joined \ registered
              /\ ~ InQueue(Added(n)) /\ ~ InQueue(Removed(n))

(* Nobody else assigns the field wsNode meanwhile, nor the id of the event *)
(* the thread handles, and nobody has stored a sender for a node that is   *)
(* only now being added.                                                   *)
HandlerInv(t) ==
  /\ pc[t] \in {"isLocal", "get", "isKnown", "accept", "stopOld", "connect", "put"}
       => event[t].kind = "added"
  /\ pc[t] \in {"acceptRemove", "getRemoved", "stop", "drop"}
       => event[t].kind = "removed"
  /\ pc[t] \notin {"idle", "parse"} => wsNode = event[t]
  /\ pc[t] \notin {"idle", "parse", "setId"} => id[event[t]] = event[t].node
  /\ pc[t] \in {"get", "isKnown", "accept", "stopOld", "connect", "put"}
       => event[t].node # Self
  /\ pc[t] \in {"isKnown", "accept", "stopOld"} => peerSender[t] = Unset
  /\ pc[t] \in {"stopOld", "connect", "put", "getRemoved", "stop", "drop"}
       => node[t] = event[t]
  /\ pc[t] \in {"stop", "drop"} => peerSender[t] = Added(event[t].node)

(* An event that has not been handled to its end, and the nodes that the   *)
(* events handled have left in the map.                                    *)
Due(t, e) == InQueue(e) \/ (pc[t] # "idle" /\ event[t] = e)

Mapped(t, n) ==
  /\ n \in Peer \cap joined /\ ~ Due(t, Added(n))
  /\ n \in registered \/ Due(t, Removed(n))

MapInv(t) ==
  \A i \in Member \cup {Unset} :
    workerMap[i] = IF Mapped(t, i) THEN Added(i) ELSE Unset

Connected(t, n) ==
  \/ Mapped(t, n) /\ ~ (pc[t] = "drop" /\ event[t] = Removed(n))
  \/ pc[t] = "put" /\ event[t] = Added(n)

SendersInv(t) ==
  /\ \A e \in Event : e \in open <=> \E n \in Peer : e = Added(n) /\ Connected(t, n)
  /\ \A n \in Peer : Mapped(t, n) \/ Connected(t, n) => senderNode[Added(n)] = Added(n)

RouterInv(t) ==
  QueueInv /\ TakenInv(t) /\ HandlerInv(t) /\ MapInv(t) /\ SendersInv(t)

(* A notification under way: it has written to each sender it owes that,   *)
(* or still has to come to it, or is just about it.                        *)
Pending(e) ==
  \/ e \in notifier.reached \/ e.node \in notifier.must
  \/ notifier.step = "get" /\ notifier.key = e.node
  \/ notifier.step \in {"check", "write"} /\ notifier.sender = e

NotifierInv ==
  /\ \A e \in notifier.expected :
       /\ e.node \in Peer \cap joined /\ e = Added(e.node)
       /\ senderNode[e] = e
       /\ link[e] \notin {"down", "flagged"}
  /\ \A e \in Owed : workerMap[e.node] = e
  /\ Notifying => \A e \in Owed : Pending(e)
  /\ notifier.step = "done" => Owed \subseteq notifier.reached

-----------------------------------------------------------------------------
(* The queue.                                                              *)

LEMMA Events ==
  /\ \A n, m \in Member : /\ Added(n) # Removed(m)
                          /\ Added(n) = Added(m) => n = m
                          /\ Removed(n) = Removed(m) => n = m
  /\ \A n \in Member : /\ Added(n).node = n /\ Added(n).kind = "added"
                       /\ Removed(n).node = n /\ Removed(n).kind = "removed"
  /\ \A e \in Event : \/ e.kind = "added" /\ e = Added(e.node)
                      \/ e.kind = "removed" /\ e = Removed(e.node)
BY DEF Event, Added, Removed

LEMMA Enqueued ==
  ASSUME TypeOK, NEW x \in Event, queue' = Append(queue, x)
  PROVE  /\ Len(queue) \in Nat /\ DOMAIN queue = 1..Len(queue)
         /\ DOMAIN queue' = 1..(Len(queue) + 1)
         /\ \A i \in 1..Len(queue) : queue'[i] = queue[i]
         /\ queue'[Len(queue) + 1] = x
         /\ \A e : InQueue(e)' <=> InQueue(e) \/ e = x
<1> USE DEF TypeOK
<1>1. /\ Len(queue) \in Nat /\ DOMAIN queue = 1..Len(queue)
      /\ DOMAIN queue' = 1..(Len(queue) + 1)
      /\ \A i \in 1..Len(queue) : queue'[i] = queue[i]
      /\ queue'[Len(queue) + 1] = x
  OBVIOUS
<1>2. ASSUME NEW e
      PROVE  InQueue(e)' <=> InQueue(e) \/ e = x
  BY <1>1 DEF InQueue
<1> QED
  BY <1>1, <1>2

LEMMA Dequeued ==
  ASSUME TypeOK, QueueInv, queue # <<>>, queue' = Tail(queue)
  PROVE  /\ Head(queue) \in Event /\ InQueue(Head(queue))
         /\ Len(queue) \in Nat /\ DOMAIN queue = 1..Len(queue)
         /\ DOMAIN queue' = 1..(Len(queue) - 1)
         /\ \A i \in 1..(Len(queue) - 1) : queue'[i] = queue[i + 1]
         /\ \A e : InQueue(e)' <=> InQueue(e) /\ e # Head(queue)
         /\ \A n \in Member : Head(queue) = Removed(n) => ~ InQueue(Added(n))
<1>1. /\ Head(queue) \in Event /\ Head(queue) = queue[1]
      /\ Len(queue) \in Nat \ {0} /\ DOMAIN queue = 1..Len(queue)
      /\ DOMAIN queue' = 1..(Len(queue) - 1)
      /\ \A i \in 1..(Len(queue) - 1) : queue'[i] = queue[i + 1]
  BY DEF TypeOK
<1>2. 1 \in DOMAIN queue
  BY <1>1
<1>3. ASSUME NEW e
      PROVE  InQueue(e)' <=> InQueue(e) /\ e # Head(queue)
  <2>1. ASSUME NEW i \in DOMAIN queue, queue[i] = e, e # Head(queue)
        PROVE  InQueue(e)'
    <3>1. i - 1 \in DOMAIN queue' /\ queue'[i - 1] = e
      BY <1>1, <2>1
    <3> QED
      BY <3>1 DEF InQueue
  <2>2. ASSUME NEW i \in DOMAIN queue', queue'[i] = e
        PROVE  InQueue(e) /\ e # Head(queue)
    <3>1. i + 1 \in DOMAIN queue /\ queue[i + 1] = e /\ i + 1 # 1
      BY <1>1, <2>2
    <3> QED
      BY <1>1, <1>2, <3>1 DEF InQueue, QueueInv
  <2> QED
    BY <2>1, <2>2 DEF InQueue
<1>4. ASSUME NEW n \in Member, Head(queue) = Removed(n), InQueue(Added(n))
      PROVE  FALSE
  <2>1. PICK j \in DOMAIN queue : queue[j] = Added(n)
    BY <1>4 DEF InQueue
  <2>2. j < 1
    BY <1>1, <1>2, <1>4, <2>1 DEF QueueInv
  <2> QED
    BY <1>1, <2>1, <2>2
<1> QED
  BY <1>1, <1>2, <1>3, <1>4 DEF InQueue

(* What the steps do to the queue, and to what ZooKeeper has registered.   *)
LEMMA ZkSteps ==
  ASSUME TypeOK, [Next]_vars
  PROVE  \/ UNCHANGED <<queue, zk>>
         \/ \E n \in Member : Join(n) \/ Leave(n)
         \/ \E t \in Thread : Take(t)
BY NextCases, AsideApart DEF Handle, Parse, SetId, IsLocal, GetSender, IsKnown,
   Accept, StopOld, Connect, PutSender, AcceptRemove, GetRemoved, StopRemoved,
   DropSender, zk

LEMMA QueueInvNext ==
  ASSUME TypeOK, QueueInv, [Next]_vars
  PROVE  QueueInv'
<1>1. CASE UNCHANGED <<queue, zk>>
  BY <1>1 DEF QueueInv, InQueue, zk
<1>2. ASSUME NEW n \in Member, Join(n)
      PROVE  QueueInv'
  <2>1. /\ queue' = Append(queue, Added(n)) /\ Added(n) \in Event
        /\ n \notin joined /\ joined' = joined \cup {n} /\ registered' = registered \cup {n}
    BY <1>2, Members DEF Join
  <2>2. ~ InQueue(Added(n)) /\ ~ InQueue(Removed(n))
    BY <2>1 DEF QueueInv
  <2>3. \A e : InQueue(e)' <=> InQueue(e) \/ e = Added(n)
    BY <2>1, Enqueued
  <2>4. \A i, j \in DOMAIN queue' : queue'[i] = queue'[j] => i = j
    BY <2>1, <2>2, Enqueued DEF QueueInv, InQueue
  <2>5. ASSUME NEW m \in Member, NEW i \in DOMAIN queue', NEW j \in DOMAIN queue',
               queue'[i] = Removed(m), queue'[j] = Added(m)
        PROVE  j < i
    <3>1. i \in DOMAIN queue /\ queue[i] = Removed(m)
      BY <2>1, <2>5, Enqueued, Events
    <3>2. m # n
      BY <2>2, <3>1 DEF InQueue
    <3>3. j \in DOMAIN queue /\ queue[j] = Added(m)
      BY <2>1, <2>5, <3>2, Enqueued, Events
    <3> QED
      BY <3>1, <3>3 DEF QueueInv
  <2>6. \A m \in Member : /\ InQueue(Added(m))' => m \in joined'
                          /\ InQueue(Removed(m))' => m \in joined' \ registered'
    BY <2>1, <2>2, <2>3, Events DEF QueueInv
  <2>7. \A m \in joined' \ registered' :
          m \in Peer /\ (InQueue(Added(m))' => InQueue(Removed(m))')
    BY <2>1, <2>3, Events DEF QueueInv, TypeOK
  <2> QED
    BY <2>4, <2>5, <2>6, <2>7 DEF QueueInv
<1>3. ASSUME NEW n \in Member, Leave(n)
      PROVE  QueueInv'
  <2>1. /\ queue' = Append(queue, Removed(n)) /\ Removed(n) \in Event
        /\ n \in registered \cap Peer /\ n \in joined
        /\ joined' = joined /\ registered' = registered \ {n}
    BY <1>3, Members DEF Leave, TypeOK
  <2>2. ~ InQueue(Removed(n))
    BY <2>1 DEF QueueInv
  <2>3. \A e : InQueue(e)' <=> InQueue(e) \/ e = Removed(n)
    BY <2>1, Enqueued
  <2>4. \A i, j \in DOMAIN queue' : queue'[i] = queue'[j] => i = j
    BY <2>1, <2>2, Enqueued DEF QueueInv, InQueue
  <2>5. ASSUME NEW m \in Member, NEW i \in DOMAIN queue', NEW j \in DOMAIN queue',
               queue'[i] = Removed(m), queue'[j] = Added(m)
        PROVE  j < i
    <3>1. j \in DOMAIN queue /\ queue[j] = Added(m)
      BY <2>1, <2>5, Enqueued, Events
    <3>2. CASE i \in DOMAIN queue
      BY <2>1, <2>5, <3>1, <3>2, Enqueued DEF QueueInv
    <3>3. CASE i \notin DOMAIN queue
      BY <2>1, <3>1, <3>3, Enqueued
    <3> QED
      BY <3>2, <3>3
  <2>6. \A m \in Member : /\ InQueue(Added(m))' => m \in joined'
                          /\ InQueue(Removed(m))' => m \in joined' \ registered'
    BY <2>1, <2>3, Events DEF QueueInv
  <2>7. \A m \in joined' \ registered' :
          m \in Peer /\ (InQueue(Added(m))' => InQueue(Removed(m))')
    BY <2>1, <2>3, Events DEF QueueInv, TypeOK
  <2> QED
    BY <2>4, <2>5, <2>6, <2>7 DEF QueueInv
<1>4. ASSUME NEW t \in Thread, Take(t)
      PROVE  QueueInv'
  <2>1. queue # <<>> /\ queue' = Tail(queue) /\ UNCHANGED zk
    BY <1>4 DEF Take
  <2>2. \A i \in DOMAIN queue' : i + 1 \in DOMAIN queue /\ queue'[i] = queue[i + 1]
    BY <2>1, Dequeued
  <2>3. \A i, j \in DOMAIN queue' : queue'[i] = queue'[j] => i = j
    BY <2>1, <2>2, Dequeued DEF QueueInv
  <2>4. ASSUME NEW m \in Member, NEW i \in DOMAIN queue', NEW j \in DOMAIN queue',
               queue'[i] = Removed(m), queue'[j] = Added(m)
        PROVE  j < i
    <3>1. j + 1 < i + 1
      BY <2>2, <2>4 DEF QueueInv
    <3> QED
      BY <2>1, <3>1, Dequeued
  <2>5. \A e : InQueue(e)' <=> InQueue(e) /\ e # Head(queue)
    BY <2>1, Dequeued
  <2>6. \A n \in Member : Head(queue) = Removed(n) => ~ InQueue(Added(n))
    BY <2>1, Dequeued
  <2>7. \A n \in joined \ registered : InQueue(Added(n))' => InQueue(Removed(n))'
    BY <2>5, <2>6 DEF QueueInv, TypeOK
  <2> QED
    BY <2>1, <2>3, <2>4, <2>5, <2>7 DEF QueueInv, zk
<1> QED
  BY <1>1, <1>2, <1>3, <1>4, ZkSteps

-----------------------------------------------------------------------------
(* The thread.                                                             *)

(* What a step of ZooKeeper does, as far as the thread is concerned.       *)
LEMMA ZkSeen ==
  ASSUME TypeOK, QueueInv, NEW n \in Member, Join(n) \/ Leave(n)
  PROVE  /\ UNCHANGED <<wsNode, id, task, senders, notifier>>
         /\ joined \subseteq joined' /\ registered' \subseteq registered \cup {n}
         /\ \A m \in joined : InQueue(Added(m))' <=> InQueue(Added(m))
         /\ \A m \in joined \ registered : /\ m \notin registered'
                                           /\ InQueue(Removed(m))' <=> InQueue(Removed(m))
         /\ \A m \in registered : m \notin registered' => InQueue(Removed(m))'
<1>1. CASE Join(n)
  <2>1. /\ n \notin joined /\ Added(n) \in Event /\ queue' = Append(queue, Added(n))
        /\ joined' = joined \cup {n} /\ registered' = registered \cup {n}
    BY <1>1, Members DEF Join
  <2>2. \A e : InQueue(e)' <=> InQueue(e) \/ e = Added(n)
    BY <2>1, Enqueued
  <2> QED
    BY <1>1, <2>1, <2>2, Events DEF Join, TypeOK
<1>2. CASE Leave(n)
  <2>1. /\ n \in registered /\ Removed(n) \in Event /\ queue' = Append(queue, Removed(n))
        /\ joined' = joined /\ registered' = registered \ {n}
    BY <1>2, Members DEF Leave
  <2>2. \A e : InQueue(e)' <=> InQueue(e) \/ e = Removed(n)
    BY <2>1, Enqueued
  <2> QED
    BY <1>2, <2>1, <2>2, Events DEF Leave, TypeOK
<1> QED
  BY <1>1, <1>2

LEMMA TakenInvNext ==
  ASSUME NEW t, Thread = {t}, Typed, QueueInv, TakenInv(t), [Next]_vars
  PROVE  TakenInv(t)'
<1> USE DEF Typed
<1>1. ASSUME NEW n \in Member, Join(n) \/ Leave(n)
      PROVE  TakenInv(t)'
  <2>1. /\ UNCHANGED <<pc, event>> /\ joined \subseteq joined'
        /\ \A m \in joined : InQueue(Added(m))' <=> InQueue(Added(m))
        /\ \A m \in joined \ registered : /\ m \notin registered'
                                          /\ InQueue(Removed(m))' <=> InQueue(Removed(m))
        /\ \A m \in registered : m \notin registered' => InQueue(Removed(m))'
    BY <1>1, ZkSeen DEF task
  <2>2. ASSUME NEW m \in Member, pc[t] # "idle", event[t] = Added(m)
        PROVE  /\ m \in joined' /\ ~ InQueue(Added(m))'
               /\ m \in registered' \/ InQueue(Removed(m))'
    BY <2>1, <2>2 DEF TakenInv
  <2>3. ASSUME NEW m \in Member, pc[t] # "idle", event[t] = Removed(m)
        PROVE  /\ m \in joined' \ registered'
               /\ ~ InQueue(Added(m))' /\ ~ InQueue(Removed(m))'
    BY <2>1, <2>3 DEF TakenInv
  <2> QED
    BY <2>1, <2>2, <2>3 DEF TakenInv
<1>2. CASE Take(t)
  <2>1. queue # <<>> /\ queue' = Tail(queue) /\ UNCHANGED zk
    BY <1>2 DEF Take
  <2>2. event'[t] = Head(queue)
    BY <1>2 DEF Take, TypeOK
  <2>3. \A e : InQueue(e)' <=> InQueue(e) /\ e # Head(queue)
    BY <2>1, Dequeued
  <2>4. \A n \in Member : Head(queue) = Removed(n) => ~ InQueue(Added(n))
    BY <2>1, Dequeued
  <2>5. Head(queue) \in Event /\ InQueue(Head(queue))
    BY <2>1, Dequeued
  <2>6. PICK n \in Member : Head(queue) = Added(n) \/ Head(queue) = Removed(n)
    BY <2>5, Events, Members
  <2>7. n \in joined /\ ~ InQueue(Added(n))'
    BY <2>3, <2>4, <2>5, <2>6 DEF QueueInv
  <2>8. CASE Head(queue) = Added(n)
    BY <2>1, <2>2, <2>3, <2>5, <2>7, <2>8, Events DEF QueueInv, TakenInv, zk
  <2>9. CASE Head(queue) = Removed(n)
    BY <2>1, <2>2, <2>3, <2>5, <2>7, <2>9, Events DEF QueueInv, TakenInv, zk
  <2> QED
    BY <2>6, <2>8, <2>9
<1>3. ASSUME UNCHANGED <<queue, zk, event>>, pc[t] = "idle" => pc'[t] = "idle"
      PROVE  TakenInv(t)'
  BY <1>3 DEF TakenInv, InQueue, zk
<1>4. ASSUME ~ Take(t), \A n \in Member : ~ (Join(n) \/ Leave(n))
      PROVE  UNCHANGED <<queue, zk, event>> /\ (pc[t] = "idle" => pc'[t] = "idle")
  BY <1>4, NextCases, AsideApart DEF Handle, Parse, SetId, IsLocal, GetSender, IsKnown,
     Accept, StopOld, Connect, PutSender, AcceptRemove, GetRemoved, StopRemoved,
     DropSender, Step, zk, TypeOK
<1> QED
  BY <1>1, <1>2, <1>3, <1>4

(* What the thread finds under the id of the node it handles.              *)
LEMMA Found ==
  ASSUME NEW t, MapInv(t), NEW n \in Member
  PROVE  /\ workerMap[n] \in {Added(n), Unset}
         /\ pc[t] # "idle" /\ event[t] = Added(n) => workerMap[n] = Unset
BY DEF MapInv, Mapped, Due

LEMMA HandlerInvNext ==
  ASSUME NEW t, Thread = {t}, Typed, HandlerInv(t), MapInv(t), [Next]_vars
  PROVE  HandlerInv(t)'
<1> USE DEF Typed, TypeOK, HandlerInv, Step
<1>1. ASSUME UNCHANGED <<wsNode, id, task>>
      PROVE  HandlerInv(t)'
  BY <1>1 DEF task
<1>2. CASE Take(t)
  BY <1>2 DEF Take
<1>3. CASE Parse(t)
  BY <1>3 DEF Parse
<1>4. CASE SetId(t)
  <2>1. event[t] \in Event /\ wsNode = event[t] /\ event[t].kind \in {"added", "removed"}
    BY <1>4, Members DEF SetId, Referred
  <2> QED
    BY <1>4, <2>1 DEF SetId
<1>5. CASE IsLocal(t)
  BY <1>5 DEF IsLocal
<1>6. CASE GetSender(t)
  <2>1. event[t] \in Event /\ event[t].kind = "added" /\ id[wsNode] = event[t].node
    BY <1>6 DEF GetSender, Referred
  <2>2. workerMap[id[wsNode]] = Unset
    BY <1>6, <2>1, Found, Events, Members DEF GetSender
  <2> QED
    BY <1>6, <2>2 DEF GetSender
<1>7. CASE IsKnown(t)
  BY <1>7 DEF IsKnown
<1>8. CASE Accept(t)
  BY <1>8 DEF Accept
<1>9. CASE AcceptRemove(t)
  BY <1>9 DEF AcceptRemove
<1>10. CASE StopOld(t) \/ Connect(t)
  <2>1. CASE StopOld(t)
    BY <2>1 DEF StopOld
  <2>2. CASE Connect(t)
    BY <2>2 DEF Connect
  <2> QED
    BY <1>10, <2>1, <2>2
<1>11. CASE PutSender(t) \/ DropSender(t)
  BY <1>11 DEF PutSender, DropSender
<1>12. CASE GetRemoved(t)
  <2>1. event[t].node \in Member /\ id[node[t]] = event[t].node
    BY <1>12, Members DEF GetRemoved, Referred
  <2>2. workerMap[id[node[t]]] \in {Added(event[t].node), Unset}
    BY <2>1, Found
  <2> QED
    BY <1>12, <2>2 DEF GetRemoved
<1>13. CASE StopRemoved(t)
  BY <1>13 DEF StopRemoved
<1>14. ASSUME NEW n \in Member, Join(n) \/ Leave(n)
       PROVE  UNCHANGED <<wsNode, id, task>>
  BY <1>14 DEF Join, Leave
<1> QED
  BY <1>1, <1>2, <1>3, <1>4, <1>5, <1>6, <1>7, <1>8, <1>9, <1>10, <1>11, <1>12,
     <1>13, <1>14, NextCases, AsideApart DEF Handle

-----------------------------------------------------------------------------
(* The map.                                                                *)

(* The handler always finds the sender of a node that has left, and never  *)
(* one for a node that is being added.                                     *)
LEMMA NoShortcut ==
  ASSUME NEW t, Thread = {t}, Typed, RouterInv(t), IsKnown(t) \/ GetRemoved(t)
  PROVE  pc'[t] # "idle"
<1> USE DEF Typed, TypeOK
<1>1. CASE IsKnown(t)
  BY <1>1 DEF IsKnown, Step, RouterInv, HandlerInv
<1>2. CASE GetRemoved(t)
  <2>1. PICK n \in Member : event[t] = Removed(n)
    BY <1>2, Events, Members DEF GetRemoved, Step, RouterInv, HandlerInv, Referred
  <2>2. pc[t] = "getRemoved" /\ id[node[t]] = n
    BY <1>2, <2>1, Events DEF GetRemoved, Step, RouterInv, HandlerInv
  <2>3. n \in joined \ registered /\ ~ InQueue(Added(n))
    BY <2>1, <2>2 DEF RouterInv, TakenInv
  <2>4. n \in Peer
    BY <2>3 DEF RouterInv, QueueInv
  <2>5. Mapped(t, n)
    BY <2>1, <2>2, <2>3, <2>4, Events DEF Mapped, Due
  <2>6. workerMap[n] = Added(n) /\ Added(n) # Unset
    BY <2>5, Members DEF RouterInv, MapInv
  <2> QED
    BY <1>2, <2>2, <2>6 DEF GetRemoved, Step
<1> QED
  BY <1>1, <1>2

LEMMA MappedKept ==
  ASSUME NEW t, Thread = {t}, Typed, RouterInv(t), [Next]_vars,
         ~ PutSender(t), ~ DropSender(t), NEW n \in Member
  PROVE  Mapped(t, n)' <=> Mapped(t, n)
<1> USE DEF Typed, TypeOK
<1>1. ASSUME NEW k \in Member, Join(k)
      PROVE  Mapped(t, n)' <=> Mapped(t, n)
  <2>1. /\ k \notin joined /\ Added(k) \in Event /\ queue' = Append(queue, Added(k))
        /\ joined' = joined \cup {k} /\ registered' = registered \cup {k}
        /\ pc' = pc /\ event' = event
    BY <1>1, Members DEF Join, task
  <2>2. \A e : InQueue(e)' <=> InQueue(e) \/ e = Added(k)
    BY <2>1, Enqueued
  <2> QED
    BY <2>1, <2>2, Events DEF Mapped, Due
<1>2. ASSUME NEW k \in Member, Leave(k)
      PROVE  Mapped(t, n)' <=> Mapped(t, n)
  <2>1. /\ k \in registered /\ Removed(k) \in Event /\ queue' = Append(queue, Removed(k))
        /\ joined' = joined /\ registered' = registered \ {k}
        /\ pc' = pc /\ event' = event
    BY <1>2, Members DEF Leave, task
  <2>2. \A e : InQueue(e)' <=> InQueue(e) \/ e = Removed(k)
    BY <2>1, Enqueued
  <2> QED
    BY <2>1, <2>2, Events DEF Mapped, Due
<1>3. CASE Take(t)
  <2>1. /\ queue # <<>> /\ queue' = Tail(queue) /\ UNCHANGED zk
        /\ pc[t] = "idle" /\ pc'[t] # "idle" /\ event'[t] = Head(queue)
    BY <1>3 DEF Take, Step
  <2>2. /\ \A e : InQueue(e)' <=> InQueue(e) /\ e # Head(queue)
        /\ InQueue(Head(queue))
    BY <2>1, Dequeued DEF RouterInv
  <2> QED
    BY <2>1, <2>2 DEF Mapped, Due, zk
<1>4. ASSUME UNCHANGED <<queue, zk, event>>, pc'[t] = "idle" <=> pc[t] = "idle"
      PROVE  Mapped(t, n)' <=> Mapped(t, n)
  BY <1>4 DEF Mapped, Due, InQueue, zk
<1>5. CASE IsLocal(t) /\ pc'[t] = "idle"
  <2>1. event[t] = Added(Self) /\ UNCHANGED <<queue, zk>>
    BY <1>5, Events, Members DEF IsLocal, Step, RouterInv, HandlerInv, Referred
  <2>2. n = Self => n \notin Peer
    BY RouterAssumption
  <2>3. n # Self => Added(n) # Added(Self) /\ Removed(n) # Added(Self)
    BY Events DEF Member
  <2>4. \A e : InQueue(e)' <=> InQueue(e)
    BY <2>1 DEF InQueue
  <2>5. ASSUME n # Self, NEW e \in {Added(n), Removed(n)}
        PROVE  Due(t, e)' <=> Due(t, e)
    BY <1>5, <2>1, <2>3, <2>4, <2>5 DEF Due
  <2> QED
    BY <2>1, <2>2, <2>5 DEF Mapped, zk
<1>6. ASSUME ~ (IsLocal(t) /\ pc'[t] = "idle"), ~ Take(t),
             \A k \in Member : ~ (Join(k) \/ Leave(k))
      PROVE  UNCHANGED <<queue, zk, event>> /\ (pc'[t] = "idle" <=> pc[t] = "idle")
  <2>1. CASE IsKnown(t) \/ GetRemoved(t)
    BY <2>1, NoShortcut DEF IsKnown, GetRemoved, Step, zk
  <2>2. CASE \/ Parse(t) \/ SetId(t) \/ IsLocal(t) \/ GetSender(t) \/ Accept(t)
             \/ StopOld(t) \/ Connect(t) \/ AcceptRemove(t) \/ StopRemoved(t)
    BY <1>6, <2>2 DEF Parse, SetId, IsLocal, GetSender, Accept, StopOld, Connect,
       AcceptRemove, StopRemoved, Step, zk
  <2> QED
    BY <1>6, <2>1, <2>2, NextCases, AsideApart DEF Handle
<1> QED
  BY <1>1, <1>2, <1>3, <1>4, <1>5, <1>6

(* What the last steps of the two handlers do.                             *)
LEMMA SenderPut ==
  ASSUME NEW t, Thread = {t}, Typed, RouterInv(t), PutSender(t)
  PROVE  \E n \in Peer :
           /\ event[t] = Added(n) /\ pc[t] = "put" /\ pc'[t] = "idle"
           /\ workerMap' = [workerMap EXCEPT ![n] = Added(n)]
           /\ Mapped(t, n)'
           /\ \A m \in Member \ {n} : Mapped(t, m)' <=> Mapped(t, m)
<1> USE DEF Typed, TypeOK
<1>1. PICK n \in Peer : event[t] = Added(n)
  <2>1. pc[t] = "put" /\ event[t] \in Event
    BY Members DEF PutSender, Step, Referred
  <2>2. event[t].kind = "added" /\ event[t].node # Self
    BY <2>1 DEF RouterInv, HandlerInv
  <2> QED
    BY <2>1, <2>2, Events, Members DEF Member
<1>2. /\ pc[t] = "put" /\ pc'[t] = "idle" /\ id[node[t]] = n /\ n \in Member
      /\ workerMap' = [workerMap EXCEPT ![n] = Added(n)]
      /\ UNCHANGED <<queue, zk, event>>
  <2>1. pc[t] = "put" /\ pc'[t] = "idle" /\ n \in Member
    BY DEF PutSender, Step, Member
  <2>2. node[t] = event[t] /\ id[event[t]] = event[t].node
    BY <2>1 DEF RouterInv, HandlerInv
  <2>3. id[node[t]] = n
    BY <1>1, <2>1, <2>2, Events
  <2> QED
    BY <1>1, <2>1, <2>3 DEF PutSender, zk
<1>3. Mapped(t, n)'
  BY <1>1, <1>2 DEF RouterInv, TakenInv, Mapped, Due, InQueue, zk
<1>4. ASSUME NEW m \in Member \ {n}
      PROVE  Mapped(t, m)' <=> Mapped(t, m)
  <2>1. Added(m) # Added(n) /\ Removed(m) # Added(n)
    BY <1>2, Events
  <2> QED
    BY <1>1, <1>2, <2>1 DEF Mapped, Due, InQueue, zk
<1> QED
  BY <1>1, <1>2, <1>3, <1>4

LEMMA SenderDropped ==
  ASSUME NEW t, Thread = {t}, Typed, RouterInv(t), DropSender(t)
  PROVE  \E n \in Peer :
           /\ event[t] = Removed(n) /\ pc[t] = "drop" /\ pc'[t] = "idle"
           /\ n \notin registered
           /\ workerMap' = [workerMap EXCEPT ![n] = Unset]
           /\ ~ Mapped(t, n)'
           /\ \A m \in Member \ {n} : Mapped(t, m)' <=> Mapped(t, m)
<1> USE DEF Typed, TypeOK
<1>1. PICK n \in Member : event[t] = Removed(n)
  BY Events, Members DEF DropSender, Step, RouterInv, HandlerInv, Referred
<1>2. /\ pc[t] = "drop" /\ pc'[t] = "idle" /\ id[node[t]] = n
      /\ workerMap' = [workerMap EXCEPT ![n] = Unset]
      /\ UNCHANGED <<queue, zk, event>>
  <2>1. pc[t] = "drop" /\ pc'[t] = "idle"
    BY DEF DropSender, Step
  <2>2. node[t] = event[t] /\ id[event[t]] = event[t].node
    BY <2>1 DEF RouterInv, HandlerInv
  <2>3. id[node[t]] = n
    BY <1>1, <2>2, Events
  <2> QED
    BY <1>1, <2>1, <2>3 DEF DropSender, zk
<1>3. n \in joined \ registered /\ ~ InQueue(Removed(n))
  BY <1>1, <1>2 DEF RouterInv, TakenInv
<1>4. n \in Peer
  BY <1>3 DEF RouterInv, QueueInv
<1>5. ~ Mapped(t, n)'
  BY <1>2, <1>3 DEF Mapped, Due, InQueue, zk
<1>6. ASSUME NEW m \in Member \ {n}
      PROVE  Mapped(t, m)' <=> Mapped(t, m)
  <2>1. Added(m) # Removed(n) /\ Removed(m) # Removed(n)
    BY Events
  <2> QED
    BY <1>1, <1>2, <2>1 DEF Mapped, Due, InQueue, zk
<1> QED
  BY <1>1, <1>2, <1>3, <1>4, <1>5, <1>6

LEMMA MapUntouched ==
  ASSUME [Next]_vars, \A t \in Thread : ~ PutSender(t) /\ ~ DropSender(t)
  PROVE  workerMap' = workerMap
BY NextCases, AsideApart DEF Handle, Take, Parse, SetId, IsLocal, GetSender, IsKnown,
   Accept, StopOld, Connect, AcceptRemove, GetRemoved, StopRemoved, Join, Leave, senders

LEMMA MapInvNext ==
  ASSUME NEW t, Thread = {t}, Typed, RouterInv(t), [Next]_vars
  PROVE  MapInv(t)'
<1> USE DEF Typed, TypeOK
<1>1. ~ Mapped(t, Unset) /\ ~ Mapped(t, Unset)'
  BY RouterAssumption DEF Mapped, Member
<1>2. CASE ~ PutSender(t) /\ ~ DropSender(t)
  <2>1. workerMap' = workerMap
    BY <1>2, MapUntouched
  <2>2. \A n \in Member : Mapped(t, n)' <=> Mapped(t, n)
    BY <1>2, MappedKept
  <2> QED
    BY <1>1, <2>1, <2>2 DEF RouterInv, MapInv
<1>3. CASE PutSender(t)
  <2>1. PICK n \in Peer :
          /\ workerMap' = [workerMap EXCEPT ![n] = Added(n)]
          /\ Mapped(t, n)'
          /\ \A m \in Member \ {n} : Mapped(t, m)' <=> Mapped(t, m)
    BY <1>3, SenderPut
  <2> QED
    BY <1>1, <2>1 DEF RouterInv, MapInv, Member
<1>4. CASE DropSender(t)
  <2>1. PICK n \in Peer :
          /\ workerMap' = [workerMap EXCEPT ![n] = Unset]
          /\ ~ Mapped(t, n)'
          /\ \A m \in Member \ {n} : Mapped(t, m)' <=> Mapped(t, m)
    BY <1>4, SenderDropped
  <2> QED
    BY <1>1, <2>1 DEF RouterInv, MapInv, Member
<1> QED
  BY <1>2, <1>3, <1>4

-----------------------------------------------------------------------------
(* The senders.                                                            *)

LEMMA ConnectedKept ==
  ASSUME NEW t, Thread = {t}, Typed, RouterInv(t), [Next]_vars,
         ~ Connect(t), ~ StopRemoved(t), NEW n \in Peer
  PROVE  Connected(t, n)' <=> Connected(t, n)
<1> n \in Member
  BY DEF Member
<1> USE DEF Typed, TypeOK
<1>1. CASE PutSender(t)
  <2>1. PICK m \in Peer : /\ event[t] = Added(m) /\ pc[t] = "put" /\ pc'[t] = "idle"
                          /\ Mapped(t, m)'
                          /\ \A k \in Member \ {m} : Mapped(t, k)' <=> Mapped(t, k)
    BY <1>1, SenderPut
  <2>2. Added(n) = Added(m) <=> n = m
    BY Events DEF Member
  <2> QED
    BY <2>1, <2>2 DEF Connected
<1>2. CASE DropSender(t)
  <2>1. PICK m \in Peer : /\ event[t] = Removed(m) /\ pc[t] = "drop" /\ pc'[t] = "idle"
                          /\ ~ Mapped(t, m)'
                          /\ \A k \in Member \ {m} : Mapped(t, k)' <=> Mapped(t, k)
    BY <1>2, SenderDropped
  <2>2. Removed(n) = Removed(m) <=> n = m
    BY Events DEF Member
  <2> QED
    BY <2>1, <2>2 DEF Connected
<1>3. CASE ~ PutSender(t) /\ ~ DropSender(t)
  <2>1. Mapped(t, n)' <=> Mapped(t, n)
    BY <1>3, MappedKept
  <2>2. \/ UNCHANGED <<pc, event>>
        \/ pc[t] \notin {"put", "drop"} /\ pc'[t] \notin {"put", "drop"}
    <3>1. CASE \E k \in Member : Join(k) \/ Leave(k)
      BY <3>1 DEF Join, Leave, task
    <3>2. CASE \/ Take(t) \/ Parse(t) \/ SetId(t) \/ IsLocal(t) \/ GetSender(t)
               \/ IsKnown(t) \/ Accept(t) \/ StopOld(t) \/ AcceptRemove(t)
               \/ GetRemoved(t)
      BY <3>2 DEF Take, Parse, SetId, IsLocal, GetSender, IsKnown, Accept, StopOld,
         AcceptRemove, GetRemoved, Step
    <3> QED
      BY <1>3, <3>1, <3>2, NextCases, AsideApart DEF Handle
  <2> QED
    BY <2>1, <2>2 DEF Connected
<1> QED
  BY <1>1, <1>2, <1>3

LEMMA SendersUntouched ==
  ASSUME [Next]_vars, \A t \in Thread : ~ Connect(t) /\ ~ StopRemoved(t) /\ ~ StopOld(t)
  PROVE  UNCHANGED <<open, senderNode>>
BY NextCases, AsideApart DEF Handle, Take, Parse, SetId, IsLocal, GetSender, IsKnown,
   Accept, PutSender, DropSender, AcceptRemove, GetRemoved, Join, Leave, senders

LEMMA SendersInvNext ==
  ASSUME NEW t, Thread = {t}, Typed, RouterInv(t), [Next]_vars
  PROVE  SendersInv(t)'
<1> USE DEF Typed, TypeOK
<1>1. ASSUME UNCHANGED <<open, senderNode>>,
             \A n \in Peer : Connected(t, n)' <=> Connected(t, n),
             \A n \in Peer : Mapped(t, n)' => Mapped(t, n) \/ Connected(t, n)
      PROVE  SendersInv(t)'
  BY <1>1 DEF RouterInv, SendersInv
<1>2. CASE Connect(t)
  <2>1. /\ pc[t] = "connect" /\ pc'[t] = "put" /\ node[t] = event[t]
        /\ UNCHANGED <<queue, zk, event>>
        /\ senderNode' = [senderNode EXCEPT ![event[t]] = node[t]]
        /\ open' = open \cup {event[t]}
    BY <1>2 DEF Connect, Step, RouterInv, HandlerInv, zk
  <2>2. PICK n \in Peer : event[t] = Added(n)
    BY <2>1, Events, Members DEF RouterInv, HandlerInv, Referred, Member
  <2>3. /\ Added(n) \in Event
        /\ \A m \in Peer : Added(m) \in Event /\ (Added(m) = Added(n) => m = n)
    BY Members, Events DEF Member
  <2>4. \A m \in Peer : Mapped(t, m)' <=> Mapped(t, m)
    BY <1>2, <2>1, MappedKept DEF PutSender, DropSender, Step, Member
  <2>5. \A m \in Peer : Connected(t, m)' <=> Connected(t, m) \/ m = n
    BY <2>1, <2>2, <2>3, <2>4 DEF Connected
  <2>6. ASSUME NEW e \in Event
        PROVE  e \in open' <=> \E m \in Peer : e = Added(m) /\ Connected(t, m)'
    BY <2>1, <2>2, <2>5, <2>6 DEF RouterInv, SendersInv
  <2>7. ASSUME NEW m \in Peer, Mapped(t, m)' \/ Connected(t, m)'
        PROVE  senderNode'[Added(m)] = Added(m)
    BY <2>1, <2>2, <2>3, <2>4, <2>5, <2>7 DEF RouterInv, SendersInv
  <2> QED
    BY <2>6, <2>7 DEF SendersInv
<1>3. CASE StopRemoved(t)
  <2>1. /\ pc[t] = "stop" /\ pc'[t] = "drop" /\ UNCHANGED <<queue, zk, event>>
        /\ senderNode' = senderNode /\ open' = open \ {peerSender[t]}
        /\ peerSender[t] = Added(event[t].node)
    BY <1>3 DEF StopRemoved, Stop, Step, RouterInv, HandlerInv, zk
  <2>2. PICK n \in Member : event[t] = Removed(n) /\ peerSender[t] = Added(n)
    BY <2>1, Events, Members DEF RouterInv, HandlerInv, Referred
  <2>3. \A m \in Peer : /\ Added(m) = Added(n) => m = n
                        /\ Removed(m) = Removed(n) => m = n
    BY Events DEF Member
  <2>4. \A m \in Peer : Mapped(t, m)' <=> Mapped(t, m)
    BY <1>3, <2>1, MappedKept DEF PutSender, DropSender, Step, Member
  <2>5. \A m \in Peer : Connected(t, m)' <=> Connected(t, m) /\ m # n
    BY <2>1, <2>2, <2>3, <2>4 DEF Connected
  <2> QED
    BY <2>1, <2>2, <2>3, <2>4, <2>5 DEF RouterInv, SendersInv
<1>4. CASE StopOld(t)
  <2>1. peerSender[t] = Unset /\ senderNode' = senderNode /\ open' = open
    BY <1>4, Members DEF StopOld, Stop, Step, RouterInv, HandlerInv
  <2>2. ~ Connect(t) /\ ~ StopRemoved(t) /\ ~ PutSender(t) /\ ~ DropSender(t)
    BY <1>4 DEF StopOld, Connect, StopRemoved, PutSender, DropSender, Step
  <2>3. \A n \in Peer : /\ Connected(t, n)' <=> Connected(t, n)
                        /\ Mapped(t, n)' <=> Mapped(t, n)
    BY <2>2, ConnectedKept, MappedKept DEF Member
  <2> QED
    BY <1>1, <2>1, <2>3
<1>5. CASE ~ Connect(t) /\ ~ StopRemoved(t) /\ ~ StopOld(t)
  <2>1. UNCHANGED <<open, senderNode>>
    BY <1>5, SendersUntouched
  <2>2. \A n \in Peer : Connected(t, n)' <=> Connected(t, n)
    BY <1>5, ConnectedKept
  <2>3. ASSUME NEW n \in Peer, Mapped(t, n)'
        PROVE  Mapped(t, n) \/ Connected(t, n)
    <3>1. CASE ~ PutSender(t) /\ ~ DropSender(t)
      BY <2>3, <3>1, MappedKept DEF Member
    <3>2. CASE PutSender(t)
      <4>1. PICK m \in Peer : /\ event[t] = Added(m) /\ pc[t] = "put"
                              /\ \A k \in Member \ {m} : Mapped(t, k)' <=> Mapped(t, k)
        BY <3>2, SenderPut
      <4> QED
        BY <2>3, <4>1 DEF Connected, Member
    <3>3. CASE DropSender(t)
      <4>1. PICK m \in Peer : /\ ~ Mapped(t, m)'
                              /\ \A k \in Member \ {m} : Mapped(t, k)' <=> Mapped(t, k)
        BY <3>3, SenderDropped
      <4> QED
        BY <2>3, <4>1 DEF Member
    <3> QED
      BY <3>1, <3>2, <3>3
  <2> QED
    BY <1>1, <2>1, <2>2, <2>3
<1> QED
  BY <1>2, <1>3, <1>4, <1>5

-----------------------------------------------------------------------------
(* The router follows ZooKeeper.                                           *)

LEMMA RouterInvInit ==
  ASSUME NEW t, Thread = {t}, Init
  PROVE  RouterInv(t)
<1> USE DEF Init
<1>1. \A e : ~ InQueue(e)
  BY DEF InQueue
<1>2. QueueInv
  BY <1>1 DEF QueueInv
<1>3. \A n : ~ Mapped(t, n) /\ ~ Connected(t, n)
  BY DEF Mapped, Connected
<1> QED
  BY <1>2, <1>3 DEF RouterInv, TakenInv, HandlerInv, MapInv, SendersInv

LEMMA RouterInvariant ==
  ASSUME NEW t, Thread = {t}
  PROVE  Spec => [](Typed /\ RouterInv(t))
<1>1. Init => Typed /\ RouterInv(t)
  BY InitTyped, RouterInvInit
<1>2. Typed /\ RouterInv(t) /\ [Next]_vars => (Typed /\ RouterInv(t))'
  <2> SUFFICES ASSUME Typed, RouterInv(t), [Next]_vars
               PROVE  Typed' /\ RouterInv(t)'
    OBVIOUS
  <2>1. Typed' /\ MapInv(t)' /\ SendersInv(t)'
    BY NextTyped, MapInvNext, SendersInvNext
  <2>2. QueueInv' /\ TakenInv(t)' /\ HandlerInv(t)'
    BY QueueInvNext, TakenInvNext, HandlerInvNext DEF RouterInv, Typed
  <2> QED
    BY <2>1, <2>2 DEF RouterInv
<1> QED
  BY <1>1, <1>2, PTL DEF Spec

(* With one thread, and any number of peers that join and leave in any     *)
(* order: once every event is handled the map has one open sender for each *)
(* registered peer, under its id, and no sender is left over.  The         *)
(* hypothesis is that of the run router_one_thread; two threads refute the *)
(* property (router_two_threads).                                          *)
THEOREM MapCorrect ==
  ASSUME NEW t, Thread = {t}
  PROVE  Spec => []MapFollowsZk
<1>1. Typed /\ RouterInv(t) => MapFollowsZk
  <2> SUFFICES ASSUME Typed, RouterInv(t), Quiet
               PROVE  /\ Keys = registered \ {Self}
                      /\ \A i \in Keys : senderNode[workerMap[i]].node = i
                      /\ open = {workerMap[i] : i \in Keys}
    BY DEF MapFollowsZk
  <2> USE DEF Typed, TypeOK
  <2>1. \A e : ~ Due(t, e)
    BY DEF Quiet, Due, InQueue
  <2>2. \A n \in Member \cup {Unset} : Mapped(t, n) <=> n \in Peer \cap registered
    BY <2>1 DEF Mapped
  <2>3. \A n \in Peer : Connected(t, n) <=> n \in registered
    BY <2>2 DEF Connected, Quiet, Member
  <2>4. Keys = registered \ {Self}
    BY <2>2, Members, RouterAssumption DEF Keys, RouterInv, MapInv, Member
  <2>5. \A i \in Keys : i \in Peer /\ workerMap[i] = Added(i) /\ Added(i) \in Event
    BY <2>2, <2>4, Members DEF RouterInv, MapInv, Member
  <2>6. \A i \in Keys : senderNode[workerMap[i]].node = i
    BY <2>3, <2>4, <2>5, Events DEF RouterInv, SendersInv, Member
  <2>7. \A e \in Event : e \in open <=> \E n \in Peer : e = Added(n) /\ n \in registered
    BY <2>3 DEF RouterInv, SendersInv
  <2>8. open = {workerMap[i] : i \in Keys}
    BY <2>4, <2>5, <2>7, RouterAssumption DEF Member
  <2> QED
    BY <2>4, <2>6, <2>8
<1> QED
  BY <1>1, RouterInvariant, PTL

(* With one thread the node never connects to itself.                      *)
THEOREM NeverToItself ==
  ASSUME NEW t, Thread = {t}
  PROVE  Spec => []NoSelfSender
<1>1. Typed /\ RouterInv(t) => NoSelfSender
  <2> SUFFICES ASSUME Typed, RouterInv(t), NEW e \in open
               PROVE  senderNode[e].node # Self
    BY DEF NoSelfSender
  <2>1. PICK n \in Peer : e = Added(n) /\ senderNode[e] = Added(n)
    BY DEF Typed, TypeOK, RouterInv, SendersInv
  <2> QED
    BY <2>1, Events, RouterAssumption DEF Member
<1> QED
  BY <1>1, RouterInvariant, PTL

-----------------------------------------------------------------------------
(* Notifications.                                                          *)

LEMMA KeysMapped ==
  ASSUME NEW t, Typed, RouterInv(t), NEW i \in Keys
  PROVE  /\ i \in Peer \cap joined
         /\ workerMap[i] = Added(i) /\ Added(i) \in Event /\ Added(i).node = i
         /\ senderNode[Added(i)] = Added(i)
<1> USE DEF Typed, TypeOK
<1>1. i \in Member \cup {Unset} /\ workerMap[i] # Unset
  BY DEF Keys
<1>2. Mapped(t, i) /\ workerMap[i] = Added(i)
  BY <1>1 DEF RouterInv, MapInv
<1>3. i \in Peer \cap joined /\ i \in Member
  BY <1>2 DEF Mapped, Member
<1> QED
  BY <1>2, <1>3, Events, Members DEF RouterInv, SendersInv

(* A connection that is not up, once it has been up, never is again, and   *)
(* stopping a sender raises none.                                          *)
LEMMA LinksFall ==
  /\ \A from, to : /\ <<from, to>> \in LinkSteps
                   /\ from \notin {"down", "flagged"}
                   => /\ to \notin {"down", "flagged", "up"}
  /\ \A state : /\ Stopped(state) # "up"
                /\ state \notin {"down", "flagged"} => Stopped(state) \notin {"down", "flagged"}
BY DEF LinkSteps, Stopped

(* What is owed only shrinks, and stays in the map.                        *)
LEMMA OwedKept ==
  ASSUME Typed, NotifierInv, UNCHANGED <<registered, joined>>,
         notifier'.expected = notifier.expected,
         \A e \in notifier.expected : senderNode[e]' = e,
         \A e \in notifier.expected : \/ link'[e] = link[e]
                                      \/ link'[e] \notin {"down", "flagged", "up"},
         \A e \in Owed : workerMap'[e.node] = workerMap[e.node],
         Notifying' => /\ Notifying
                       /\ \A e \in Owed : Pending(e) => Pending(e)',
         notifier'.step = "done" => /\ notifier.step = "done"
                                    /\ notifier.reached \subseteq notifier'.reached
  PROVE  NotifierInv'
<1>1. Owed' \subseteq Owed
  BY DEF Owed, NotifierInv
<1> QED
  BY <1>1 DEF NotifierInv

LEMMA NotifyKeeps ==
  ASSUME NEW t, Thread = {t}, Typed, RouterInv(t), Notify
  PROVE  NotifierInv'
<1> USE DEF Typed, TypeOK
<1>1. /\ notifier'.step = "next" /\ notifier'.must = Keys
      /\ notifier'.expected = ConnectedSenders
      /\ UNCHANGED <<zk, workerMap, senderNode, link>>
  BY DEF Notify, senders
<1>2. ASSUME NEW e \in ConnectedSenders
      PROVE  /\ e.node \in Peer \cap joined /\ e = Added(e.node)
             /\ senderNode[e] = e /\ link[e] = "up"
             /\ e.node \in Keys /\ workerMap[e.node] = e
  <2>1. PICK i \in Keys : e = workerMap[i] /\ link[e] = "up"
    BY <1>2 DEF ConnectedSenders
  <2> QED
    BY <2>1, KeysMapped
<1>3. Owed' \subseteq ConnectedSenders
  BY <1>1 DEF Owed
<1> QED
  BY <1>1, <1>2, <1>3 DEF NotifierInv, Pending, zk

LEMMA NotifyNextKeeps ==
  ASSUME NEW t, Thread = {t}, Typed, RouterInv(t), NotifierInv, NotifyNext
  PROVE  NotifierInv'
<1> USE DEF Typed, TypeOK
<1>1. notifier.step = "next" /\ UNCHANGED <<registered, joined, workerMap, senderNode, link>>
  BY DEF NotifyNext, senders, zk
<1>2. ASSUME NEW i \in notifier.may,
             notifier' = [notifier EXCEPT !.may = @ \ {i}, !.must = @ \ {i}, !.key = i,
                            !.step = IF i = Self THEN "next" ELSE "get"]
      PROVE  NotifierInv'
  <2>1. /\ notifier'.expected = notifier.expected /\ notifier'.must = notifier.must \ {i}
        /\ notifier'.reached = notifier.reached /\ notifier'.key = i
        /\ notifier'.step = IF i = Self THEN "next" ELSE "get"
    BY <1>2
  <2>2. ASSUME NEW e \in Owed, Pending(e)
        PROVE  Pending(e)'
    <3>1. e.node # Self
      BY RouterAssumption DEF NotifierInv, Owed
    <3> QED
      BY <1>1, <2>1, <2>2, <3>1 DEF Pending
  <2>3. Owed' = Owed
    BY <1>1, <2>1 DEF Owed
  <2> QED
    BY <1>1, <2>1, <2>2, <2>3 DEF NotifierInv, Notifying
<1>3. ASSUME notifier.must = {}, notifier' = [notifier EXCEPT !.step = "done", !.may = {}]
      PROVE  NotifierInv'
  <2>1. /\ notifier'.expected = notifier.expected /\ notifier'.step = "done"
        /\ notifier'.reached = notifier.reached
    BY <1>3
  <2>2. Owed' = Owed
    BY <1>1, <2>1 DEF Owed
  <2>3. Owed \subseteq notifier.reached
    BY <1>1, <1>3 DEF NotifierInv, Notifying, Pending
  <2> QED
    BY <1>1, <2>1, <2>2, <2>3 DEF NotifierInv, Notifying
<1> QED
  BY <1>2, <1>3 DEF NotifyNext

LEMMA NotifyPeerKeeps ==
  ASSUME NEW t, Thread = {t}, Typed, RouterInv(t), NotifierInv,
         NotifyGet \/ NotifyCheck \/ NotifyWrite
  PROVE  NotifierInv'
<1> USE DEF Typed, TypeOK
<1>1. CASE NotifyGet
  <2>1. /\ notifier.step = "get" /\ UNCHANGED <<registered, joined, workerMap, senderNode, link>>
        /\ notifier'.expected = notifier.expected /\ notifier'.step = "check"
        /\ notifier'.must = notifier.must /\ notifier'.reached = notifier.reached
        /\ notifier'.sender = workerMap[notifier.key]
    BY <1>1 DEF NotifyGet, senders, zk
  <2>2. \A e \in Owed : Pending(e) => Pending(e)'
    BY <2>1 DEF Pending, NotifierInv
  <2> QED
    BY <2>1, <2>2, OwedKept DEF Notifying, NotifierInv
<1>2. CASE NotifyCheck
  <2>1. /\ notifier.step = "check" /\ UNCHANGED <<registered, joined, workerMap, senderNode, link>>
        /\ notifier'.expected = notifier.expected
        /\ notifier'.must = notifier.must /\ notifier'.reached = notifier.reached
        /\ notifier'.sender = notifier.sender
        /\ notifier'.step = IF notifier.sender = Unset THEN "failed"
                            ELSE IF link[notifier.sender] \in Flagged THEN "write" ELSE "next"
    BY <1>2 DEF NotifyCheck, senders, zk
  <2>2. \A e \in Owed : link[e] \in Flagged /\ e # Unset
    BY Members DEF Owed, Flagged
  <2>3. \A e \in Owed : Pending(e) => notifier'.step = "failed" \/ Pending(e)'
    BY <2>1, <2>2 DEF Pending
  <2> QED
    BY <2>1, <2>3, OwedKept DEF Notifying, NotifierInv
<1>3. CASE NotifyWrite
  <2>1. /\ notifier.step = "write" /\ UNCHANGED <<registered, joined, workerMap, senderNode, link>>
        /\ notifier'.expected = notifier.expected
        /\ notifier'.must = notifier.must
        /\ notifier'.step \in {"failed", "next"}
        /\ notifier.reached \subseteq notifier'.reached
    <3>1. PICK outcome \in WriteOutcomes(link[notifier.sender]) :
            notifier' = [notifier EXCEPT
              !.step = IF outcome = "npe" THEN "failed" ELSE "next",
              !.reached = IF outcome = "sent" THEN @ \cup {notifier.sender} ELSE @]
      BY <1>3 DEF NotifyWrite
    <3>2. notifier.step = "write" /\ UNCHANGED <<registered, joined, workerMap, senderNode, link>>
      BY <1>3 DEF NotifyWrite, senders, zk
    <3> QED
      BY <3>1, <3>2
  <2>2. link[notifier.sender] = "up" => notifier.sender \in notifier'.reached
    <3>1. PICK outcome \in WriteOutcomes(link[notifier.sender]) :
            notifier' = [notifier EXCEPT
              !.step = IF outcome = "npe" THEN "failed" ELSE "next",
              !.reached = IF outcome = "sent" THEN @ \cup {notifier.sender} ELSE @]
      BY <1>3 DEF NotifyWrite
    <3> QED
      BY <3>1 DEF WriteOutcomes
  <2>3. \A e \in Owed : Pending(e) => Pending(e)'
    BY <2>1, <2>2 DEF Pending, Owed
  <2> QED
    BY <2>1, <2>3, OwedKept DEF Notifying, NotifierInv
<1> QED
  BY <1>1, <1>2, <1>3

LEMMA NotifierInvNext ==
  ASSUME NEW t, Thread = {t}, Typed, RouterInv(t), NotifierInv, [Next]_vars
  PROVE  NotifierInv'
<1> USE DEF Typed, TypeOK
<1>1. ASSUME UNCHANGED <<registered, joined, notifier>>,
             \A e \in notifier.expected : senderNode[e]' = e,
             \A e \in notifier.expected : \/ link'[e] = link[e]
                                          \/ link'[e] \notin {"down", "flagged", "up"},
             \A e \in Owed : workerMap'[e.node] = workerMap[e.node]
      PROVE  NotifierInv'
  BY <1>1, OwedKept DEF Notifying, Pending
<1>2. ASSUME NEW n \in Member, Join(n) \/ Leave(n)
      PROVE  NotifierInv'
  <2>1. UNCHANGED <<workerMap, senderNode, link, notifier>> /\ joined \subseteq joined'
    BY <1>2 DEF Join, Leave, senders
  <2>2. Owed' \subseteq Owed
    BY <1>2, <2>1 DEF Join, Leave, Owed, NotifierInv
  <2> QED
    BY <2>1, <2>2 DEF NotifierInv, Notifying, Pending
<1>3. ASSUME NEW e \in Event, LinkMoves(e)
      PROVE  NotifierInv'
  <2>1. /\ UNCHANGED <<registered, joined, notifier, workerMap, senderNode>>
        /\ \A d \in Event \ {e} : link'[d] = link[d]
        /\ <<link[e], link'[e]>> \in LinkSteps
    BY <1>3 DEF LinkMoves, zk
  <2>2. link[e] \notin {"down", "flagged"} => link'[e] \notin {"down", "flagged", "up"}
    BY <2>1, LinksFall
  <2> QED
    BY <1>1, <2>1, <2>2 DEF NotifierInv
<1>4. CASE StopOld(t) \/ StopRemoved(t)
  <2>1. /\ UNCHANGED <<registered, joined, notifier, workerMap, senderNode>>
        /\ link' = [e \in Event |-> IF e = peerSender[t] THEN Stopped(link[e]) ELSE link[e]]
    BY <1>4 DEF StopOld, StopRemoved, Stop, zk
  <2>2. \A e \in notifier.expected : \/ link'[e] = link[e]
                                     \/ link'[e] \notin {"down", "flagged", "up"}
    BY <2>1, LinksFall DEF NotifierInv
  <2> QED
    BY <1>1, <2>1, <2>2 DEF NotifierInv
<1>5. CASE Connect(t)
  <2>1. /\ UNCHANGED <<registered, joined, notifier, workerMap, link>>
        /\ senderNode' = [senderNode EXCEPT ![event[t]] = event[t]]
    BY <1>5 DEF Connect, Step, RouterInv, HandlerInv, zk
  <2> QED
    BY <1>1, <2>1 DEF NotifierInv
<1>6. CASE PutSender(t)
  <2>1. PICK n \in Peer : workerMap' = [workerMap EXCEPT ![n] = Added(n)]
    BY <1>6, SenderPut
  <2>2. /\ UNCHANGED <<registered, joined, senderNode, link>>
        /\ notifier'.expected = notifier.expected /\ notifier'.step = notifier.step
        /\ notifier'.must = notifier.must /\ notifier'.reached = notifier.reached
        /\ notifier'.key = notifier.key /\ notifier'.sender = notifier.sender
    BY <1>6 DEF PutSender, zk
  <2>3. \A e \in Owed : workerMap'[e.node] = workerMap[e.node]
    BY <2>1 DEF Owed, NotifierInv, Member
  <2>4. /\ Notifying' <=> Notifying
        /\ \A e \in Owed : Pending(e) => Pending(e)'
    BY <2>2 DEF Notifying, Pending
  <2> QED
    BY <2>2, <2>3, <2>4, OwedKept DEF NotifierInv
<1>7. CASE DropSender(t)
  <2>1. PICK n \in Peer : /\ n \notin registered /\ event[t] = Removed(n) /\ pc[t] = "drop"
                          /\ workerMap' = [workerMap EXCEPT ![n] = Unset]
    BY <1>7, SenderDropped
  <2>2. id[node[t]] = n
    BY <2>1, Events DEF RouterInv, HandlerInv, Member
  <2>3. /\ UNCHANGED <<registered, joined, senderNode, link>>
        /\ notifier'.expected = notifier.expected /\ notifier'.step = notifier.step
        /\ notifier'.must = notifier.must \ {n} /\ notifier'.reached = notifier.reached
        /\ notifier'.key = notifier.key /\ notifier'.sender = notifier.sender
    BY <1>7, <2>2 DEF DropSender, zk
  <2>4. \A e \in Owed : e.node # n
    BY <2>1 DEF Owed, NotifierInv
  <2>5. \A e \in Owed : workerMap'[e.node] = workerMap[e.node]
    BY <2>1, <2>4
  <2>6. /\ Notifying' <=> Notifying
        /\ \A e \in Owed : Pending(e) => Pending(e)'
    BY <2>3, <2>4 DEF Notifying, Pending
  <2> QED
    BY <2>3, <2>5, <2>6, OwedKept DEF NotifierInv
<1>8. CASE \/ Take(t) \/ Parse(t) \/ SetId(t) \/ IsLocal(t) \/ GetSender(t) \/ IsKnown(t)
           \/ Accept(t) \/ AcceptRemove(t) \/ GetRemoved(t) \/ UNCHANGED vars
  <2>1. UNCHANGED <<registered, joined, notifier, workerMap, senderNode, link>>
    BY <1>8 DEF Take, Parse, SetId, IsLocal, GetSender, IsKnown, Accept, AcceptRemove,
       GetRemoved, zk, senders, vars
  <2> QED
    BY <1>1, <2>1 DEF NotifierInv
<1>9. CASE Notify \/ NotifyNext \/ NotifyGet \/ NotifyCheck \/ NotifyWrite
  BY <1>9, NotifyKeeps, NotifyNextKeeps, NotifyPeerKeeps
<1> QED
  BY <1>2, <1>3, <1>4, <1>5, <1>6, <1>7, <1>8, <1>9, NextCases DEF Handle, Aside

(* With one thread, a notification that runs to its end has been written   *)
(* to every peer that was connected through the map when it began, is      *)
(* still registered and is connected still: neither the changes of the map *)
(* under the loop of sendNotification, nor the senders in it whose flag is *)
(* down or whose connection is broken, make it miss one.                   *)
THEOREM NotificationReaches ==
  ASSUME NEW t, Thread = {t}
  PROVE  Spec => []NotifiedAll
<1>1. Init => NotifierInv
  BY DEF Init, NotifierInv, Owed, Notifying
<1>2. Typed /\ RouterInv(t) /\ NotifierInv /\ [Next]_vars => NotifierInv'
  BY NotifierInvNext
<1>3. NotifierInv => NotifiedAll
  BY DEF NotifierInv, NotifiedAll
<1> QED
  BY <1>1, <1>2, <1>3, RouterInvariant, PTL DEF Spec

=============================================================================
