# Verification of the distributed Netty WebSocket server

TLA+ models of the server under `src/main/java/com/thought/monkey` and of the
protobuf code of its demo pages (`js`, `proto`, `html`), the TLC runs that check them
on small instances, and TLAPS proofs for every value of the constants. Names of
classes below are those of the server's directory.

## 1. The system

Several identical nodes accept WebSocket clients. A client opens a channel,
sends one ONLINE frame with its user id and is then *logged in*: the node has a
`LocalSession` for the channel, Redis lists the session under the user, and the
other nodes are told. A message addressed to a user is looked up in Redis and
written to each of the user's sessions, locally or through the node that holds
the channel. Nodes find each other through ZooKeeper and keep one outgoing
connection to each peer.

| Component | State it keeps | Operations | Talks to |
|---|---|---|---|
| session registry `session/SessionManager`, `LocalSession` | `sessionMap` of the node, attributes of the channel | `add`, `closeSession`, `remove`, `getSessionByUserId`, `addRemoteSession`, `removeRemoteSession` | caches, load counter, router |
| Redis caches `UserCacheImpl`, `SessionCacheImpl`, `RedisHelper` | `UserCache:uid:u` (map of the user's sessions), `SessionCache:id:s`, both with a TTL of four hours; one static `Jedis` | get, save, `addSession`, `removeSession`, remove | Redis; failures are logged and swallowed |
| notices `Notification`, `RemoteNotificationHandler` | none | SESSION_ON, SESSION_OFF, CONNECT_FINISHED | registry of the receiver |
| load counter `NettyWorker`, `WsNode` | `balance`, id, path of the node | `init`, `incBalance`, `decrBalance` | ZooKeeper |
| node router `NodeRouter` | `workerMap` of peers, the field `wsNode` | node added, node removed, `route`, `sendNotification` | ZooKeeper events on pool threads; peer senders |
| peer connection `PeerSender` | `connectFlag`, `channel`, `reConnectCount`, an event loop | `doConnect`, `stopConnecting`, `writeAndFlush`, two listeners | the peer's server |
| login pipeline `ConnectHandler`, `ConnectProcesser`, `CallbackTaskScheduler` | field `localSession`, the channel's handlers | first frame, callbacks, `channelInactive` | registry, pool |
| message routing `BinaryHandler`, `MsgProcesser`, `RemoteSession` | none | a DATA frame from a client or a node | registry, router |
| heartbeats `HeartBeatHandler`, `WsNodeHeartBeatHandler` | idle timers | echo a heartbeat, close a channel after 100 s of silence, ping a peer every 50 s | channel |
| thread pools `ThreadUtil`, `FutureTaskScheduler` | a queue of at most 10000 tasks, as many threads as the CPU has cores | submit, reject | every handler |
| codecs `ProtoCodec`, `FrameCodec`, `ProtocolDispatcher` | bytes that have arrived and are not decoded | encode, decode, tell a browser from a node by the first three bytes | channel |
| messages `proto/Message_pb.js`, its copy in `js/bundle.js` with the protobuf runtime, `MessageInfo` | the fields of a message | accessors, serializer, parser, object form | pages, codecs |
| server start, ZooKeeper client, Redis pool, JSON helpers | see PROJECT.json | | |

What is hard here. Nothing serialises a login, a logout and a lookup of one
session: the login runs in the thread pool, the logout on the channel's event
loop, the lookup in the pool again. Every cache update is a read, a change of a
copy and a write. Nodes share nothing but Redis. ZooKeeper events run on the pool,
and both handlers go through one field of a singleton. The fields of `PeerSender`
are written by an event loop and by the router's thread and read by everybody.
While a pool thread exchanges the handlers of a channel, the channel's event loop
goes on reading and may close it. Messages of one client are separate tasks of a
pool. A message crosses three implementations of one encoding, kept alike by hand,
and a stream that may be cut anywhere.
`PROJECT.json` lists these hazards line by line with the properties that
cover them, and those no property covers yet.

What makes each component correct:

- registry and caches: nobody is listed who did not log in; whoever is logged in
  can be found; whoever left stays gone; the node's own session is never replaced
  by a remote one; the load counter agrees with the map; a logout has its effect;
- router: after every event is handled, the map has one open sender for each
  registered peer; the node never connects to itself; a notification that runs
  to its end has been written to everybody who stayed registered and connected;
- peer connection: the flag and the channel agree whenever no listener is half
  done; a stopped sender ends; a lost connection is noticed; whoever passes the
  flag test while the connection stands gets through;
- login pipeline: a live channel always has a handler for what comes; a login ends,
  with the channel served or with an exception; a session ends with its channel; a
  client that vanished is noticed;
- codecs and messages: what is shown is what was typed; pages and nodes write the
  same bytes; the stream keeps its messages, however it is cut; none is left behind;
- message routing: a message arrives at each listed session that can be reached,
  a bounded number of times, and is not passed on for ever.

## 2. The modules

**`SessionRegistry`**: login, logout, lookup and notices. Each action is one access
to state another thread can see, in the order of the code; the position within a
login is `login[s]`, within a logout `close[s]`. A login is `ReceiveOnline`, `Bind`,
`PutLocalSession`, `SaveSessionNode`, `ReadForAdd`, `WriteForAdd`, `IncBalance`,
`NotifyOnline`; a logout `ChannelInactive`, `RemoveLooksUp`, `ReadForRemove`,
`WriteForRemove`, `DeleteSessionNode`, `DropFromMap`, `DecrBalance`,
`NotifyOffline`; a lookup `LookupStart`, `LookupGet`, `LookupPutRemote`. `userCache[u]`
is the key set of `UserCache.map`; a missing entry and an empty one are the same
to every caller. The environment crashes nodes, lets entries expire and lets
Redis calls fail. Two history variables state the exceptions:

- `early`: channels that closed before their login had written the user cache.
  Their logout may find nothing to remove; the login goes on and its entries stay;
- `disturbed`: users whose entry was written from an outdated copy, expired, or
  missed a write that Redis refused.

Abstractions: a client logs in once on a channel, so a session is its channel; the
UUIDs differ; `MapValues` keeps of a map entry only its class; of a notice only
its kind and session. `Contains` is what `ConcurrentHashMap.contains` does
(it searches values), and `ParsedAs` is the type that the handler parses every
notice with.

**`Presence`**: the abstract directory a reader of the user cache sees: each session
is offline, then online, then gone, or a whole user becomes unknown.
`SessionRegistry` implements it with the mapping `StatusOf`.

**`NodeRouter`**: one node's router. `queue` holds the events ZooKeeper has reported;
`Take`, `Parse`, `SetId` and the rest are the accesses of `processNodeAdd`,
`processNodeRemove`, `doAfterAdd` and `doAfterRemove` to the field `wsNode`, to
the objects it refers to and to `workerMap`, for any number of pool threads.
`Notify`, `NotifyNext`, `NotifyGet`, `NotifyCheck` and `NotifyWrite` are one
`sendNotification`: the iteration over the keys of `workerMap`, the `get`, and the two
reads of `PeerSender.writeAndFlush`. The iteration of a `ConcurrentHashMap` is weakly
consistent: it comes to every key that stays in the map from its beginning to its
end (`notifier.must`), and may or may not come to one that is put or removed meanwhile
(`notifier.may`). A sender whose flag is down drops the notification and the loop goes
on; a sender or a channel that is null throws and ends it. A payload holds the node's
id or not, according to whether it was written before or after the node learned it.

**`PeerLink`**: what those who write to a `PeerSender` see of it: the states of its two
fields and its connection, how these may change, and what becomes of a write in each.
`NodeRouter` moves the connection of each sender by it, and `PeerSender` is shown to keep
to it (`KeepsLink`), so that the two modules fit together.

**`PeerSender`**: one peer connection; the position of the event loop within
`connectedListener` or `closeListener` is `loop`. Netty's part (the connect's
outcome, the close of a loop that shuts down, `group` refusing a second call) is
modelled from how the code uses it. A field written by one thread is taken to be
visible to the next read of another: the fields are not volatile, but each call
reads a field once and does not loop on it.

**`MessageRouting`**: a DATA message's way. `BinaryHandler` submits a task (`queued`); the
task looks the addressee up (`Lookup`) and writes to one session after another
(`Write`): to a local channel, or through `PeerSender` into `pipe[l]`. The receiving
node does the same with a forwarded message (`Receive`), once CONNECT_FINISHED has
put a `BinaryHandler` into its connection (`ReceiveHello`, `serving`). No message overtakes
that notice: `connectedListener` runs on the channel's own event loop, and a write of
another thread is a task behind it, so the channel and the notice are one step. A sender whose flag
is up and whose channel is null throws, which ends the task's loop. Of the registry
only the outcome is left: a session is listed or not, its channel open or not;
every listed session has logged in, Redis answers, the peers stay registered, and
channels are writable as long as they are open. `got` counts deliveries.

**`LoginPipeline`**: a client's channel from the end of the upgrade to its close.
`pipeline[c]` says of `connectHandler`, `heartBeat` and `binary` whether each is in the
pipeline, and whether its `handlerAdded` has run; before that Netty passes events
over it. `loop[c]` is what the channel's event loop has been given, `waiting` the
pool's queue, `at` what each pool thread, or the loop itself, is doing. `ReadOnline`
is `ConnectHandler.channelRead`: the field first, then the submit, and a second
ONLINE frame does it again while the first task is queued or half done. The task
is `Execute`, `Bind`, `Register`, then `LogsIn` or `LoginThrows`. `Hook` is
`Futures.addCallback`, which runs `onBack` itself when the task is already done, so
`AddBinary`, `AddHeartBeat` and `RemoveConnect` are steps of a pool thread or of the
loop; a duplicate name or a missing `connectHandler` throws and ends them.
`ReadIdle` is the 100 s timer of `HeartBeatHandler`, `Inactive` what `channelInactive` does
through whichever handler is there. `SessionManager.add` is one step here
(`Register`): its interleavings are the subject of `SessionRegistry`, which in turn
takes a channel's login and its close as given.

**`WireFormat`**, **`Messages`**, **`Transport`**: a text on its way as bytes. `WireFormat`
holds the part of the protobuf runtime that the messages use: varints, UTF-16 to
UTF-8 and back with what happens to half a pair, base64, field headers, and the
generic forms of serializer, parser and object form. `Messages` holds the tables of
`Model` and `MessageBody` in each copy, every one written down from its own code: the
numbers the accessors use, the rows of the serializer in order, the cases of the
parser, the keys of `toObject`. `Transport` sends texts from the page of user 111 to
that of 222: `Type` is the page's `send`; `ReadFrame`, `Forward` and `Deliver` are the
handlers and pool tasks of the two nodes; `Arrive` cuts the stream between them;
`Dispatch` is `ProtocolDispatcher` with whatever stale bytes are behind those that have
come; `Decode` is `ProtoCodec.decode`; `Show` is `onmessage`. A string is the sequence of
its UTF-16 units here, because the properties are about exactly that.

How the modules fit together: `SessionRegistry` takes a notice as delivered or lost on
a link, `NodeRouter` says which links a node keeps, `PeerSender` what one link does
with a write (`PeerLink` is what the two agree on), `MessageRouting` puts the lookup and the link together for a message,
`LoginPipeline` says when a channel's login and close reach the registry, and `Transport`
what becomes of a message's bytes on a link and in a channel. They share no
variable, so each is checked with the freest behaviour of its neighbours.

**`MC*`** give the constants values for TLC. **`*Proofs`** hold the proofs, each of the
module it is named for; `SessionMapProofs` (maps and load counter) builds on
`SessionRegistryProofs` (types, user cache, the refinement of `Presence`), and
`LoginChannelProofs` (the echo and the session's end) on `LoginPipelineProofs`. An operator
whose comment begins with "Mutant" is a faulty variant of the definition next to it;
each property of a passing run is violated when its variant takes the
definition's place, so none of them holds by construction.

## 3. The runs

| Run | Instance | What it shows |
|---|---|---|
| `registry_devices` | two devices of one user on two nodes, one pool thread that looks the user up again and again, notices one way, the second node may die | `TypeOK`, `NoPhantom`, `LocalNotShadowed`, `OnlineIsListed`, `ClosedIsForgotten`, `BalanceAtRest` in 1.5 million states |
| `registry_faults` | the two devices, every Redis call may fail, entries may expire, fair | `OnlineIsListed`, `ClosedIsForgotten`, the refinement `ImplementsPresence`, the liveness property `LogoutForgets` |
| `registry_lost_device` | two devices, nothing fails | **violated**: two overlapping logins, and the first device is no longer listed |
| `registry_zombie` | one device of each of two users | **violated**: a channel that closes during its login stays in the caches |
| `router_one_thread` | two peers and the node itself, one pool thread, a peer that accepts a connection, which may break, and one that refuses it, a notification, fair | `TypeOK`, `MapFollowsZk`, `NoSelfSender`, `NotifiedAll`, `RouterCatchesUp` |
| `router_two_threads` | the same with two pool threads | **violated**: `MapFollowsZk`, a sender stored under the wrong id |
| `sender` | one sender, two writers, fair | `TypeOK`, `FlagAtRest`, `OpenIsWritten`, `KeepsLink`, `LossIsNoticed`, `StopDisconnects` |
| `sender_retry` | the same | **violated**: the retry announced in the log never connects |
| `routing` | a message to a user with one device on the sender's node and two on another, a connection that comes and goes, devices that leave, fair | `TypeOK`, `CopiesBounded`, `MessageArrives`, `MessageSettles` |
| `routing_two_homes` | one device on each of two nodes linked both ways | **violated**: the two nodes forward the message to each other for ever |
| `login` | one channel, two pool threads, a queue of one, two ONLINE frames, two frames to be served, fair | `TypeOK`, `HandlerPresent`, `EchoMeansServed`, `SessionEnds`, `LoginServes`, `VanishedIsNoticed` |
| `codec` | two of four texts, pools of one or two threads, three cuts of the stream, a channel that holds two frames | `TypeOK`, `ShownIsTyped`, `OneThreadKeepsOrder`, `StreamKeepsMessages`, `PagesWriteLikeJava`, `CopiesAgree`, `NothingIsStuck`, `CodecsAgree` |

The notices of logins and logouts do not do what the code says of them.
`SessionManager.java:257` and `:268` say of `addRemoteSession` that a remote user comes
online and is saved locally, but `RemoteNotificationHandler.java:80` parses every notice
as `Notification<ContentWrapper>`, so `getWrapNode` answers null for a SESSION_ON and the
handler throws at line 101. `SessionManager.java:247` says of `removeRemoteSession` that a
remote user goes offline, but it asks `ConcurrentHashMap.contains`, which searches
values, for a key, and returns. Nodes learn of each other's sessions from Redis alone,
and a RemoteSession that a late lookup has put is never removed. Each follows from the
handler's own body in any state (`HandleNotice`; the lemma `NoticesAreInert` proves that
it changes no map), not from what runs at the same time, so no property
repeats it.

Bounds. Two sessions of one user are the smallest case in which two
read-change-write updates overlap, and a third adds no new pair; a lookup needs
one worker, because workers touch nothing but their own node's map. Crashing one
node of two leaves a survivor to do harm to. Two peers are enough for one to leave
while the other must still be told, and for two events to mix up one field.
Each node joins once, because a restarted one gets a new sequence number. No
counter of these runs needs a bound: each session logs in and out once, and the
retry of a sender happens at most once since it never connects again.

In `login`, two pool threads let two logins of one channel run at once, and a queue of
one is full with one task waiting, so that logins, messages and heartbeats are
rejected. Channels share nothing but the pool, whose other users are the frames of
the same channel. Two ONLINE frames (`MaxLogins`) are one more than a client should
send; two served frames (`MaxFrames`) are enough for a heartbeat and a message in
either order. `SessionEnds` asks for one login on the channel and for a close after
the login has run its course. With two logins it would fail: SESSION_KEY names the
second session, the first stays registered; and a channel that closes while its
login is under way is the subject of `registry_zombie`. `EchoMeansServed` is a heartbeat
and not the greeting, because the greeting goes out before the handlers are
exchanged. `LoginServes` excuses a login whose task threw: nobody undoes it, and no
timer runs on its channel yet; in the same way `VanishedIsNoticed` begins with the
first handler that `onBack` adds.

In `codec`, the texts are the empty one, one with every length of UTF-8 at its limits,
one whose body takes 128 bytes so that its length takes two, and one with half a
pair. Pieces of 1, 3 and 5 bytes cut the first three bytes that the dispatcher looks at
and the five-byte header, 30 cuts the body; after three cuts (`MaxPieces`) all that is
there arrives, so a cut may fall into each of the three messages. `HighWater` is two
frames, so that the third may be dropped. With two threads two texts may be shown
in the other order, which is why `OneThreadKeepsOrder` names its case. Liveness is not
stated: `NothingIsStuck` says of the states in which nothing is left to do what a
liveness property would say of the way there. `CodecsAgree` evaluates, for each text
as it is typed, that the three copies of the messages read what the others write;
each of the four texts is typed in some behaviour, so the run establishes for them the
hypothesis `AllComeThrough` of the proofs about `Transport`.

`CHECK_DEADLOCK FALSE` is set everywhere: every model ends when each client has
come and gone, each peer has left or the sender is stopped.

In `routing` the other node has no link back. That is the behaviour in which the
reverse connection is not up (nothing forces it to be), and with it the message
never settles, as `routing_two_homes` shows. `GotCap` bounds the count of deliveries
of one message to one session; it is larger than what `CopiesBounded` allows, so a
surplus delivery is seen. Two devices on the other node are what makes copies
multiply: the message is forwarded once for each and written to both.

One pool thread in the router is what `ThreadUtil` makes on a machine with one
CPU (`MAXIMUM_POOL_SIZE` is the CPU count). That run shows that the handlers are right when
they do not overlap; `router_two_threads` is every other machine.

`NotifiedAll` speaks of loops that end as they should, and of peers whose connection
has stood since the loop began. A sender that is removed between the key and the
`get`, or one whose channel is null, is a NullPointerException (`step = "failed"`), and the
peers not yet visited are not told; a peer whose flag is down is passed over. In the
run only one peer's server accepts a connection (`Accepting`), so the loop meets a sender
whose flag is down next to one that is up, broken or half connected; the proof is for
any peers and connections.

`OpenIsWritten` excludes exactly the two windows in which `writeAndFlush` finds the
channel null (`writes[w] = "npe"`): between the flag and the channel in
`connectedListener`, and after a loss. The same two moments are excluded in
`MessageArrives`, for every device of the addressee: the exception of one write ends
the loop over all of them. It does not ask that the receiving end has read
CONNECT_FINISHED: nothing overtakes it. `KeepsLink` says of every moment, the windows
included, what a write finds and how flag, channel and connection go on; a connection
goes one way only, since nothing connects a sender again.

Fairness. `registry_faults` assumes that a login or logout that has begun goes on as
long as its node lives (pool threads and event loops run their tasks to the end)
and nothing of clients, faults or expiry. `router_one_thread` assumes that pool threads
run the tasks they are given, and nothing of peers, connections and notifications. `sender` assumes that the event loop runs what is
ready, that a connect succeeds, fails or times out, and that a `stopConnecting`
that has begun returns. `routing` assumes that pools run submitted tasks and that a
connection delivers what is in it; nothing of clients, logouts, connects or losses.
`login` assumes that pool threads and the event loop go on with what they have and
that the idle timer of a silent channel runs out; a task that was rejected is not
owed anything. `codec` has no fairness and no liveness.

## 4. The proofs

TLAPS checks the following for any values of the constants: sets of nodes, users,
sessions (finite), workers, links and faults of the registry, peers, threads and
notifications of the router, writers of a `PeerSender`, nodes, devices (finitely many),
messages and links of the routing, channels, threads, queue capacity and numbers of
frames of a login, texts, pieces, threads and high-water mark of `Transport`. The only
assumptions on constants are `RegistryAssumption` (the
types of the constants, no link from a node to itself, session ids are no map values),
`RouterAssumption` (the types, and that the value of an unassigned field is nothing
else), `RoutingAssumption` (the types, no link from a node to itself, finitely many
devices), `LoginAssumption` (channels are not threads, the bounds are natural
numbers) and `TransportAssumption` (texts are sequences of UTF-16 units, the bounds
are natural numbers, a pool has a thread and a channel room for a frame). The five
theorems on `Transport` have one hypothesis more, `AllComeThrough`, explained below.

| Theorem | Property | Argument |
|---|---|---|
| `TypeCorrect` | `TypeOK` | one step per action |
| `ListedCorrect` | `OnlineIsListed` | inductive as it stands: whoever writes the entry wrote it from a current copy or disturbs the user |
| `PhantomCorrect` | `NoPhantom` | `PhantomInv` adds that every copy read from Redis and every pending lookup holds published sessions only |
| `LocalCorrect` | `LocalNotShadowed` | `LocalInv` adds that a lookup's missed session is one whose logout has emptied the map: a session is published after its map entry exists, so it can only be missed when it is gone |
| `ForgottenCorrect` | `ClosedIsForgotten` | `ForgottenInv` adds that a logout in its middle steps belongs to a published login, unless it was early |
| `BalanceCorrect` | `BalanceAtRest` | `BalanceInv` relates the counter at every step to the sessions counted and not yet discounted; at rest these are the local entries |
| `PresenceImplemented` | `ImplementsPresence` | every step is a step of `Presence` or a stutter, by cases on the action, from `TypeOK` and `NoPhantom` |
| `SenderTyped`, `FlagCorrect` | `TypeOK`, `FlagAtRest` of `PeerSender` | `FieldsInv` states what flag, channel and connection are at each position of the event loop |
| `WritesCorrect` | `OpenIsWritten` of `PeerSender` | `PastConnect`: a sender whose flag is up, or was seen up by a writer, has made its one connection (a retry finds the bootstrap's group set and connects nothing), so while that is open its channel is set, but inside `connectedListener` |
| `LinkCorrect` | `KeepsLink` of `PeerSender` | from `FieldsInv` and `PastConnect`, one step per action: each moves the state of `PeerLink` as `LinkSteps` allows, or leaves it, and a write comes out as `WriteOutcomes` says of the state it finds |
| `RouterTyped` | `TypeOK` of `NodeRouter` | one step per action, any number of threads |
| `MapCorrect` | `MapFollowsZk`, one thread | see below |
| `NeverToItself` | `NoSelfSender`, one thread | part of the same invariant: a node handled halfway is the one whose event the thread took, and the test for the node's own id comes before the sender is made |
| `NotificationReaches` | `NotifiedAll`, one thread | `NotifierInv`: whoever was connected through the map when the loop began, and is still registered and connected, was written to or is still to come. Its entry never leaves the map in between (`RouterInv`), so the iteration must come to its key, the `get` finds that sender, and the write goes through because the connection stands; a peer's connection that was lost never comes back (`LinkSteps`), so it is owed nothing |
| `RoutingTyped` | `TypeOK` of `MessageRouting` | one step per action; bags of tasks stay bags of tasks |
| `BoundedCopies` | `CopiesBounded` | see below |
| `TypeCorrect` of `LoginPipelineProofs` | `TypeOK` of `LoginPipeline` | one step per action |
| `PresentCorrect` | `HandlerPresent` | `BinaryThere` and `HeartBeatThere` add that whoever goes on with the exchange has itself added the handlers before; a handler stays as long as its channel (`HandlersStay`) |
| `EchoCorrect` | `EchoMeansServed` | `HandlersInv` follows the two handlers through the loop: a pending one is due there, and HeartBeatHandler is due only behind BinaryHandler or after it, so it never gets an event first (`HeartBeatSecond`); `EchoTasks` carries that from the frame through the queue to the echo |
| `SessionsEnd` | `SessionEnds` | `FirstLogin`: a channel with one login has at most one task that has not registered yet, in the queue or on one thread, and it works with session 1; once it has registered, the session is in the map, counted once and under the channel's key. `ClosesOnce`: `channelInactive` comes once. It meets a handler that ends the session, by `HandlerPresent` |
| `StreamKept` | `StreamKeepsMessages` | see below; `Framed` |
| `ShownCorrect` | `ShownIsTyped` | `Traced` |
| `OrderKept` | `OneThreadKeepsOrder` | `Traced`, with the row of numbers sorted |
| `NothingStuck` | `NothingIsStuck` | `Framed` and `Counted` |
| `TransportTyped` | `TypeOK` of `Transport` | from the same invariant: the stream is bytes, and a task is a message, because what is decoded is what was encoded |

`MapCorrect`. The handlers of `NodeRouter` are right when they do not overlap, which is
the hypothesis `Thread = {t}` of the three theorems that have it and the constant of
`router_one_thread`; for two threads TLC refutes `MapFollowsZk` (`router_two_threads`), so
it cannot be dropped. `MapFollowsZk` speaks of a router at rest only. `RouterInv` says
what holds on the way there, in five parts: `QueueInv` (each event is in the queue
once, and a node's removal behind its arrival), `TakenInv` (the event taken is
in the queue no more, and nothing of a removed node is left in it), `HandlerInv` (the
shared field is the event's own object, at each position of the handler), `MapInv`
and `SendersInv`. The last two define the map and the set of open senders at every
moment: a node is in the map when its arrival has been handled to the end and its
removal has not (`Mapped`), and its sender is open from `Connect` to `StopRemoved`
(`Connected`). With an empty queue and an idle thread these are the registered peers.
Nothing bounds the peers or how often others join and leave meanwhile.

`BoundedCopies`. `CopiesBounded` is not inductive: a copy that is delivered was before
in a connection, a queue or a task. `CopiesInv` counts a message's copies wherever
they are. On the sender's node, `got` + not yet sent + queued + tasks that still
write to the device is at most 1 (`HereCount`). On another node, `got` + queued +
tasks + copies in the connection + copies that the sender's node still owes it, one
for each device there, is at most the number of devices (`ThereCount`). Each step
moves a copy from one place to another, or loses it. `Whereabouts` adds that a message
is nowhere else, which is where the premise `StaysThere` is needed: a receiving node
looks the addressee up as well, and with a link back it would forward again
(`routing_two_homes`). `FinitelyBegun` makes the counts of tasks numbers; the tasks in
`running` are a bag, because two copies of one message may be at the same position, so
the module begins with lemmas on what adding to and taking from a bag does to the
counts (`TokensPlus`, `TokensMinus`). `GotCap`, where `got` stops, is any natural number.

`StreamKept`, `ShownCorrect`, `OrderKept`, `NothingStuck`. What a single text becomes in
a writer and what a reader makes of the bytes is the work of recursive functions,
for which induction over data would be needed. That part is the hypothesis
`AllComeThrough`: each text in `Texts` is written by the page as bytes that n1 parses
as a DATA message to 222, n1's bytes are parsed by n2 as the same message, and the
other page shows the text, with half pairs replaced (`ComesThrough`); and so for the
greeting and the first message between the nodes (`NoticesComeThrough`). It speaks of
one text at a time and of no state. TLC evaluates it as `CodecsAgree`. Proved from it
is everything that happens to several messages on their way, for any number of
texts, threads, pieces and cuts. `OnTheWay` is the inductive invariant, of five parts:

- `Shape`: the types, with the frames and messages that there can be;
- `Framed`: n2 has decoded a prefix of what n1 has sent, and the bytes in the buffer and
  on the connection, taken together, are the encodings of the rest, one behind the other;
  `Cuts` says where each of them begins. Where the stream was cut does not matter,
  since a piece that arrives leaves that sum alone. So the first bytes in the buffer are the next
  message's (`NextMessage`), the length read from an incomplete header or body is right
  (`NextLength`), a complete buffer decodes to that message (`CompleteIsNext`), and when
  all has arrived and nothing is complete, nothing is left (`NothingLeft`);
- `SentTexts`: the first message on the connection is the greeting of the nodes, all
  others are texts;
- `Traced`: the properties of what is shown are not inductive, since a text that is shown
  was a frame, a task or bytes before. The places from page to page, from the end, make
  one row; each text in it bears the number under which it was typed, and no number
  occurs twice. Every step moves a number to the next place, takes one out or
  appends the next one (`Moved`, `Closed`, `Longer`). With one thread a pool runs the first
  of its tasks only, and the row is sorted;
- `Counted`: frames from the page, tasks on n1 and messages sent are together the texts
  typed and the greeting; tasks on n2, frames for the other page, what was shown and
  what was dropped are the messages decoded, with the greeting to the page in place of
  that of the nodes. When nothing is left to do the two sums meet.

The strengthened invariants of the registry are needed because its properties speak of what is in
the caches and maps, and a copy read earlier, or a lookup under way, can put
something back there.

Only model-checked are: every liveness property (`LogoutForgets`, `RouterCatchesUp`,
`LossIsNoticed`, `StopDisconnects`, `MessageArrives`, `MessageSettles`, `LoginServes`,
`VanishedIsNoticed`), which is beyond the prover; and of `Transport` the three invariants
that say what the recursive functions compute from bytes, `PagesWriteLikeJava`,
`CopiesAgree` and `CodecsAgree`, which takes induction over data and is beyond it too.
Every other invariant and action property of a passing run is proved; `MapFollowsZk`,
`NoSelfSender` and `NotifiedAll` for one pool thread only, and those of `Transport` from
`AllComeThrough`.

## 5. Not modelled, and the plan

Assumptions of the models that the code does not ensure, each a listed hazard: each
Redis call uses its own connection (all threads assign one static field); a node
is registered before its first login; a ZooKeeper session is not lost while its
node lives.

Left out, and why:

- `RedisPool`: what a `Jedis` object that two threads use at once answers is decided by
  the state of the client's protocol, outside this repository; a model of it would be
  a guess. The registry's failing Redis calls cover a call that throws;
- `NettyWebSocketServer`, `CuratorZKclient`: start-up and construction of library objects;
- the HTTP upgrade, which is Netty's, and a browser whose first segment is shorter
  than three bytes;
- of `bundle.js`, Closure's library, the field types that neither message has, and the
  `Buffer` shim; of `ProtoCodec`, the branch for heap buffers, which the server's
  allocator does not hand out, and negative lengths, which no node encodes;
- the JSON of a notice and the times of day: short stand-ins in `Transport`, kinds and
  ids in `SessionRegistry`;
- the ping of `WsNodeHeartBeatHandler` against the idle timer of the peer: no model
  measures time.

What could come next: the registry's login and close driven by `LoginPipeline` in one
module, to see `registry_zombie` through the pipeline.
