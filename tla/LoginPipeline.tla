---------------------------- MODULE LoginPipeline ----------------------------
(***************************************************************************)
(* The login on a client's channel: ConnectHandler submits a task to the   *)
(* pool, ConnectProcesser makes and registers the session there, and       *)
(* onBack, the callback of the task's future, exchanges the handlers of    *)
(* the channel's pipeline.                                                 *)
(*                                                                         *)
(* The channel's event loop and the pool threads work on the pipeline at   *)
(* the same time.  A handler that a pool thread adds is linked at once,    *)
(* but gets no events before the loop has run its handlerAdded; the loop   *)
(* runs what it is given in order.  How SessionManager keeps a session in  *)
(* its map and the caches is the subject of SessionRegistry; here a        *)
(* session is registered or not.                                           *)
(***************************************************************************)
EXTENDS Integers, Sequences

CONSTANTS
  Channel,
  Thread,      \* the threads of the pool
  QueueSize,   \* capacity of the pool's queue
  MaxLogins,   \* ONLINE frames that reach connectHandler, on one channel
  MaxFrames    \* DATA and HEARTBEAT frames that are served, on one channel

ASSUME LoginAssumption ==
  /\ Channel \cap Thread = {}
  /\ QueueSize \in Nat /\ MaxLogins \in Nat /\ MaxFrames \in Nat

VARIABLES
  socket,      \* socket[c]: "gone" when the client vanished without closing
  pipeline,    \* pipeline[c][h]: what has become of handler h
  loop,        \* loop[c]: what the event loop has been given for c
  waiting,     \* the queue of the pool
  at,          \* at[r]: what a thread, or the loop of a channel, is doing
  made,        \* made[c]: LocalSessions made for c; they are numbered
  field,       \* field[c]: the one in the field localSession of its handler
  key,         \* key[c]: the one in the channel's attribute SESSION_KEY
  registered,  \* registered[c]: those in SessionManager's map
  balance,     \* balance[c]: what c has contributed to the load counter
  future,      \* future[c][i]: what the task of login i has answered
  hooked,      \* hooked[c]: logins whose future has its callback
  served,      \* served[c]: frames that HeartBeatHandler, BinaryHandler took
  echoed,      \* channels that have got a heartbeat back
  logout       \* logout[c]: "none", or what channelInactive met: a channel
               \* at rest ("calm"), or with a login still under way ("busy")

pool == <<waiting, at>>
session == <<made, field, key, registered, balance>>
frames == <<served, echoed>>
vars == <<socket, pipeline, loop, pool, session, future, hooked, frames, logout>>

Handler == {"connectHandler", "heartBeat", "binary"}
Login == 1..MaxLogins
Runner == Thread \cup Channel
Idle == [pc |-> "idle"]
Work(pcs) == [pc : pcs, chan : Channel, login : 0..MaxLogins, use : 0..MaxLogins]
Submitted == Work({"execute", "message", "echo"})
InProgress == Work({"execute", "bind", "register", "notify", "hook", "message",
                    "echo", "addBinary", "addHeartBeat", "remove"})

(* The queue of the pool never holds more than its capacity.               *)
TypeOK ==
  /\ socket \in [Channel -> {"up", "gone", "closed"}]
  /\ pipeline \in [Channel -> [Handler -> {"absent", "pending", "added"}]]
  /\ loop \in [Channel -> Seq(Handler \cup {"inactive"})]
  /\ waiting \in Seq(Submitted) /\ Len(waiting) <= QueueSize
  /\ at \in [Runner -> InProgress \cup {Idle}]
  /\ made \in [Channel -> 0..MaxLogins]
  /\ field \in [Channel -> 0..MaxLogins]
  /\ key \in [Channel -> 0..MaxLogins]
  /\ registered \in [Channel -> SUBSET (0..MaxLogins)]
  /\ balance \in [Channel -> Int]
  /\ future \in [Channel -> [Login -> {"none", "true", "null"}]]
  /\ hooked \in [Channel -> SUBSET (0..MaxLogins)]
  /\ served \in [Channel -> 0..MaxFrames]
  /\ echoed \subseteq Channel
  /\ logout \in [Channel -> {"none", "calm", "busy"}]

Init ==
  /\ socket = [c \in Channel |-> "up"]
  /\ pipeline = [c \in Channel |-> [h \in Handler |->
                   IF h = "connectHandler" THEN "added" ELSE "absent"]]
  /\ loop = [c \in Channel |-> <<>>]
  /\ waiting = <<>>
  /\ at = [r \in Runner |-> Idle]
  /\ made = [c \in Channel |-> 0]
  /\ field = [c \in Channel |-> 0]
  /\ key = [c \in Channel |-> 0]
  /\ registered = [c \in Channel |-> {}]
  /\ balance = [c \in Channel |-> 0]
  /\ future = [c \in Channel |-> [i \in Login |-> "none"]]
  /\ hooked = [c \in Channel |-> {}]
  /\ served = [c \in Channel |-> 0]
  /\ echoed = {}
  /\ logout = [c \in Channel |-> "none"]

-----------------------------------------------------------------------------
(* The pool: ThreadUtil's executor, of as many threads as processors and a *)
(* bounded queue.  A task that finds the queue full is rejected with an    *)
(* exception in the event loop, and nothing comes of the frame.            *)

SubmitUnbounded(pc, c, i) ==
  waiting' = Append(waiting, [pc |-> pc, chan |-> c, login |-> i, use |-> 0])

Submit(pc, c, i) ==
  waiting' = IF Len(waiting) < QueueSize
             THEN Append(waiting, [pc |-> pc, chan |-> c, login |-> i, use |-> 0])
             ELSE waiting

Begin(t) ==
  /\ at[t] = Idle /\ waiting # <<>>
  /\ waiting' = Tail(waiting)
  /\ at' = [at EXCEPT ![t] = Head(waiting)]
  /\ UNCHANGED <<socket, pipeline, loop, session, future, hooked, frames, logout>>

-----------------------------------------------------------------------------
(* Frames that the event loop of c reads.  A handler that is still pending *)
(* is passed over, and what no handler takes is dropped at the tail.       *)

Reads(c) == socket[c] = "up" /\ at[c] = Idle

(* ConnectHandler.channelRead: the new session goes to the handler's field *)
(* before its task is submitted.                                           *)
ReadOnline(c) ==
  /\ Reads(c) /\ pipeline[c]["connectHandler"] = "added"
  /\ made[c] < MaxLogins
  /\ LET i == made[c] + 1
     IN  /\ made' = [made EXCEPT ![c] = i]
         /\ field' = [field EXCEPT ![c] = i]
         /\ Submit("execute", c, i)
         /\ at' = IF waiting' = waiting THEN at
                  ELSE [at EXCEPT ![c] = [pc |-> "hook", chan |-> c, login |-> i, use |-> 0]]
  /\ UNCHANGED <<socket, pipeline, loop, key, registered, balance, future,
                 hooked, frames, logout>>

(* HeartBeatHandler.channelRead and BinaryHandler.channelRead.             *)
ReadFrame(c, h, pc) ==
  /\ Reads(c) /\ pipeline[c][h] = "added"
  /\ served[c] < MaxFrames
  /\ served' = [served EXCEPT ![c] = @ + 1]
  /\ Submit(pc, c, 0)
  /\ UNCHANGED <<socket, pipeline, loop, at, session, future, hooked, echoed, logout>>

ReadHeartBeat(c) == ReadFrame(c, "heartBeat", "echo")
ReadData(c) == ReadFrame(c, "binary", "message")

(* The task of a heartbeat writes it back if the channel is still active;  *)
(* the task of a message is the subject of MessageRouting.                 *)
Serve(t) ==
  /\ at[t] # Idle /\ at[t].pc \in {"echo", "message"}
  /\ echoed' = IF at[t].pc = "echo" /\ socket[at[t].chan] # "closed"
               THEN echoed \cup {at[t].chan} ELSE echoed
  /\ at' = [at EXCEPT ![t] = Idle]
  /\ UNCHANGED <<socket, pipeline, loop, waiting, session, future, hooked, served, logout>>

-----------------------------------------------------------------------------
(* The login task, on a pool thread.                                       *)

Goes(r, from, to) ==
  /\ at[r] # Idle /\ at[r].pc = from
  /\ at' = [at EXCEPT ![r].pc = to]

(* execute reads the field localSession when the task begins, whichever    *)
(* session is there by then.                                               *)
Execute(t) ==
  /\ at[t] # Idle /\ at[t].pc = "execute"
  /\ at' = [at EXCEPT ![t].pc = "bind", ![t].use = field[at[t].chan]]
  /\ UNCHANGED <<socket, pipeline, loop, waiting, session, future, hooked, frames, logout>>

(* LocalSession.bind.  Mutant: the attribute is not set.                   *)
BindNot(t) ==
  /\ Goes(t, "bind", "register")
  /\ UNCHANGED <<socket, pipeline, loop, waiting, session, future, hooked, frames, logout>>

Bind(t) ==
  /\ Goes(t, "bind", "register")
  /\ key' = [key EXCEPT ![at[t].chan] = at[t].use]
  /\ UNCHANGED <<socket, pipeline, loop, waiting, made, field, registered,
                 balance, future, hooked, frames, logout>>

(* SessionManager.add, up to the notice.                                   *)
Register(t) ==
  /\ Goes(t, "register", "notify")
  /\ LET c == at[t].chan
     IN  /\ registered' = [registered EXCEPT ![c] = @ \cup {at[t].use}]
         /\ balance' = [balance EXCEPT ![c] = @ + 1]
  /\ UNCHANGED <<socket, pipeline, loop, waiting, made, field, key, future,
                 hooked, frames, logout>>

(* The task ends with the answer r, null after an exception, which the     *)
(* future swallows.  A callback that is already there is run by this       *)
(* thread: onBack(null) throws, onBack(true) goes on to the pipeline.      *)
Answer(t, r) ==
  /\ at[t] # Idle /\ at[t].pc = "notify"
  /\ LET c == at[t].chan  i == at[t].login
     IN  /\ future' = [future EXCEPT ![c][i] = r]
         /\ at' = IF r = "true" /\ i \in hooked[c]
                  THEN [at EXCEPT ![t].pc = "addBinary"]
                  ELSE [at EXCEPT ![t] = Idle]
  /\ UNCHANGED <<socket, pipeline, loop, waiting, session, hooked, frames, logout>>

(* The notice to the other nodes goes out and the client is answered.      *)
LogsIn(t) == Answer(t, "true")

(* The notice throws: NodeRouter may have lost a sender meanwhile.         *)
LoginThrows(t) == Answer(t, "null")

(* Futures.addCallback, after submit: a future that is done already has    *)
(* its callback run at once, on the event loop.  Mutant: it has not.       *)
HookLater(c) ==
  /\ at[c] # Idle /\ at[c].pc = "hook"
  /\ hooked' = [hooked EXCEPT ![c] = @ \cup {at[c].login}]
  /\ at' = [at EXCEPT ![c] = Idle]
  /\ UNCHANGED <<socket, pipeline, loop, waiting, session, future, frames, logout>>

Hook(c) ==
  /\ at[c] # Idle /\ at[c].pc = "hook"
  /\ hooked' = [hooked EXCEPT ![c] = @ \cup {at[c].login}]
  /\ at' = IF future[c][at[c].login] = "true" THEN [at EXCEPT ![c].pc = "addBinary"]
           ELSE [at EXCEPT ![c] = Idle]
  /\ UNCHANGED <<socket, pipeline, loop, waiting, session, future, frames, logout>>

-----------------------------------------------------------------------------
(* onBack(true): the handlers are exchanged.  addAfter throws when there   *)
(* is a handler of that name, or no connectHandler to put it after, and    *)
(* remove when there is none to remove; the rest of onBack is then left.   *)

AddAfter(r, from, h, to) ==
  /\ at[r] # Idle /\ at[r].pc = from
  /\ LET c == at[r].chan
     IN  IF pipeline[c][h] # "absent" \/ pipeline[c]["connectHandler"] = "absent"
         THEN /\ at' = [at EXCEPT ![r] = Idle]
              /\ UNCHANGED <<pipeline, loop>>
         ELSE /\ at' = [at EXCEPT ![r].pc = to]
              /\ IF r = c
                 THEN /\ pipeline' = [pipeline EXCEPT ![c][h] = "added"]
                      /\ UNCHANGED loop
                 ELSE /\ pipeline' = [pipeline EXCEPT ![c][h] = "pending"]
                      /\ loop' = [loop EXCEPT ![c] = Append(@, h)]
  /\ UNCHANGED <<socket, waiting, session, future, hooked, frames, logout>>

(* Mutant: the two handlers are added in the other order.                  *)
AddBinarySecond(r) == AddAfter(r, "addBinary", "heartBeat", "addHeartBeat")

AddBinary(r) == AddAfter(r, "addBinary", "binary", "addHeartBeat")

(* Mutant: connectHandler goes first.                                      *)
RemovesFirst(r) ==
  /\ Goes(r, "addHeartBeat", "remove")
  /\ pipeline' = [pipeline EXCEPT ![at[r].chan]["connectHandler"] = "absent"]
  /\ UNCHANGED <<socket, loop, waiting, session, future, hooked, frames, logout>>

AddHeartBeat(r) == AddAfter(r, "addHeartBeat", "heartBeat", "remove")

RemoveConnect(r) ==
  /\ at[r] # Idle /\ at[r].pc = "remove"
  /\ pipeline' = [pipeline EXCEPT ![at[r].chan]["connectHandler"] = "absent"]
  /\ at' = [at EXCEPT ![r] = Idle]
  /\ UNCHANGED <<socket, loop, waiting, session, future, hooked, frames, logout>>

(* The loop runs handlerAdded, unless the handler is gone again.           *)
HandlerAdded(c) ==
  /\ at[c] = Idle /\ loop[c] # <<>> /\ Head(loop[c]) \in Handler
  /\ loop' = [loop EXCEPT ![c] = Tail(@)]
  /\ pipeline' = [pipeline EXCEPT ![c][Head(loop[c])] =
                    IF @ = "pending" THEN "added" ELSE @]
  /\ UNCHANGED <<socket, pool, session, future, hooked, frames, logout>>

-----------------------------------------------------------------------------
(* The end of a channel.                                                   *)

Shut(c) ==
  /\ at[c] = Idle
  /\ socket' = [socket EXCEPT ![c] = "closed"]
  /\ loop' = [loop EXCEPT ![c] = Append(@, "inactive")]
  /\ UNCHANGED <<pipeline, pool, session, future, hooked, frames, logout>>

ClientCloses(c) == socket[c] = "up" /\ Shut(c)

(* The client is cut off; nothing tells the server.                        *)
ClientVanishes(c) ==
  /\ socket[c] = "up"
  /\ socket' = [socket EXCEPT ![c] = "gone"]
  /\ UNCHANGED <<pipeline, loop, pool, session, future, hooked, frames, logout>>

(* HeartBeatHandler.channelIdle: nothing has been read for 100 seconds.    *)
(* Mutant: another kind of idleness is waited for.                         *)
NeverIdle(c) == FALSE /\ Shut(c)

ReadIdle(c) ==
  /\ socket[c] = "gone" /\ pipeline[c]["heartBeat"] = "added"
  /\ Shut(c)

(* A login of c has not run its course yet.                                *)
UnderWay(c) ==
  \/ \E k \in 1..Len(waiting) : waiting[k].chan = c /\ waiting[k].pc = "execute"
  \/ \E r \in Runner : at[r] # Idle /\ at[r].chan = c /\ at[r].pc \notin {"echo", "message"}
  \/ \E h \in Handler : pipeline[c][h] = "pending"

(* channelInactive, and the end of the pipeline in the same task.  The     *)
(* first of connectHandler and BinaryHandler that gets the event calls     *)
(* closeSession, which throws if the channel has no session yet and does   *)
(* nothing if the session is not in the map.                               *)
Inactive(c) ==
  /\ at[c] = Idle /\ loop[c] # <<>> /\ Head(loop[c]) = "inactive"
  /\ loop' = [loop EXCEPT ![c] = Tail(@)]
  /\ IF /\ \E h \in {"connectHandler", "binary"} : pipeline[c][h] = "added"
        /\ key[c] \in registered[c]
     THEN /\ registered' = [registered EXCEPT ![c] = @ \ {key[c]}]
          /\ balance' = [balance EXCEPT ![c] = @ - 1]
     ELSE UNCHANGED <<registered, balance>>
  /\ pipeline' = [pipeline EXCEPT ![c] = [h \in Handler |-> "absent"]]
  /\ logout' = [logout EXCEPT ![c] = IF UnderWay(c) THEN "busy" ELSE "calm"]
  /\ UNCHANGED <<socket, pool, made, field, key, future, hooked, frames>>

-----------------------------------------------------------------------------
OnPool(t) ==
  Begin(t) \/ Serve(t) \/ Execute(t) \/ Bind(t) \/ Register(t) \/ LogsIn(t) \/ LoginThrows(t)

OnLoop(c) == Hook(c) \/ HandlerAdded(c) \/ Inactive(c)

OnBack(r) == AddBinary(r) \/ AddHeartBeat(r) \/ RemoveConnect(r)

Client(c) ==
  ReadOnline(c) \/ ReadHeartBeat(c) \/ ReadData(c) \/ ClientCloses(c) \/ ClientVanishes(c)

Next ==
  \/ \E t \in Thread : OnPool(t)
  \/ \E c \in Channel : OnLoop(c) \/ Client(c) \/ ReadIdle(c)
  \/ \E r \in Runner : OnBack(r)

Spec == Init /\ [][Next]_vars

(* Pool threads and event loops go on with what they have, and the idle    *)
(* timer runs out.  Clients owe the server nothing.                        *)
FairSpec ==
  /\ Spec
  /\ \A t \in Thread : WF_vars(OnPool(t) \/ OnBack(t))
  /\ \A c \in Channel : WF_vars(OnLoop(c) \/ OnBack(c)) /\ WF_vars(ReadIdle(c))

-----------------------------------------------------------------------------
(* Properties                                                              *)

Destroyed(c) == logout[c] # "none"

(* onBack never leaves a live channel without a handler: connectHandler is *)
(* there, or both of its successors are.                                   *)
HandlerPresent ==
  \A c \in Channel : Destroyed(c) \/ pipeline[c]["connectHandler"] = "added"
                     \/ \A h \in {"heartBeat", "binary"} : pipeline[c][h] # "absent"

(* A heartbeat that is answered means that messages are served too: a      *)
(* client that waits for one after its login loses no message.             *)
EchoMeansServed ==
  \A c \in echoed : Destroyed(c) \/ pipeline[c]["binary"] = "added"

(* A channel with one login that closes when the login has run its course  *)
(* leaves no session behind and no load counted.                           *)
SessionEnds ==
  \A c \in Channel : logout[c] = "calm" /\ made[c] <= 1
                       => registered[c] = {} /\ balance[c] = 0

(* A login ends: BinaryHandler serves the channel, or the login task threw *)
(* an exception, or the channel is gone.  A rejected task has no future.   *)
LoginServes ==
  \A c \in Channel :
    at[c] # Idle /\ at[c].pc = "hook" ~>
      \/ pipeline[c]["binary"] = "added" \/ Destroyed(c)
      \/ \E i \in Login : future[c][i] = "null"

(* A client that vanishes after its login is noticed: its channel closes   *)
(* and its session ends.                                                   *)
VanishedIsNoticed ==
  \A c \in Channel :
    socket[c] = "gone" /\ (\E h \in {"heartBeat", "binary"} : pipeline[c][h] # "absent")
      ~> Destroyed(c)
=============================================================================
