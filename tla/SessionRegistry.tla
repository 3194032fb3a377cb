--------------------------- MODULE SessionRegistry ---------------------------
(***************************************************************************)
(* The login and logout of WebSocket clients on a cluster of Netty nodes:  *)
(* SessionManager.add and closeSession, the Redis caches they write        *)
(* (UserCacheImpl, SessionCacheImpl), the per-node session map and load    *)
(* counter, the lookups that forward messages, and the SESSION_ON/OFF      *)
(* notices between nodes.                                                  *)
(*                                                                         *)
(* A step is one access to state that another thread can see.  A login     *)
(* runs in the thread pool, a logout on the channel's event loop, a lookup *)
(* in the pool again, and nothing but ConcurrentHashMap and the two        *)
(* synchronized balance methods orders them; nodes share only Redis.       *)
(* A client logs in once on a channel, so a channel is its session.        *)
(***************************************************************************)
EXTENDS Integers, Sequences, FiniteSets

CONSTANTS
  Node, User, Session,
  Worker,      \* pool threads that look up the receivers of a message
  HomeOf,      \* the node whose channel the session is
  UserOf,      \* the user id the ONLINE frame carries
  WorkerOn,    \* the node a worker belongs to
  Linked,      \* <<n, m>>: n's PeerSender for m is connected
  Crashable,   \* nodes whose process may die
  Expiring,    \* users whose UserCache entry may reach its 4-hour TTL
  RedisFaults, \* whether a Redis call may fail (RedisHelper swallows it)
  NoSession

MapValues == {"none", "local", "remote"}

ASSUME RegistryAssumption ==
  /\ IsFiniteSet(Session)
  /\ HomeOf \in [Session -> Node]
  /\ UserOf \in [Session -> User]
  /\ WorkerOn \in [Worker -> Node]
  /\ Linked \subseteq {l \in Node \X Node : l[1] # l[2]}
  /\ RedisFaults \in BOOLEAN
  /\ Session \cap MapValues = {}
  /\ NoSession \notin Session

VARIABLES
  alive,        \* alive[n]: the JVM of node n runs
  login,        \* login[s]: how far the login of s has come
  close,        \* close[s]: how far the logout of s has come
  loginCopy,    \* the UserCache the login of s has read
  closeCopy,    \* the UserCache the logout of s has read
  sessionMap,   \* sessionMap[n]: SessionManager.sessionMap of node n
  userCache,    \* Redis "UserCache:uid:u": the keys of UserCache.map
  sessionCache, \* Redis "SessionCache:id:s": the sessions with an entry
  balance,      \* balance[n]: WsNode.balance of node n
  todo,         \* todo[w]: sessions worker w has still to resolve
  miss,         \* miss[w]: the session w found no map entry for
  wire,         \* wire[<<n, m>>]: notices n has sent m
  early,        \* history: channels that closed before their login had
                \* written the user cache
  disturbed     \* history: users whose cache entry expired, was written
                \* from an outdated copy, or missed a write Redis refused

vars == <<alive, login, close, loginCopy, closeCopy, sessionMap, userCache,
          sessionCache, balance, todo, miss, wire, early, disturbed>>

redis == <<userCache, sessionCache>>
lookups == <<todo, miss>>
history == <<early, disturbed>>

(* A step of login[s] is named for what has been done last.                *)
LoginSteps == {"idle", "queued", "bound", "mapped", "cached", "read",
               "listed", "counted", "done"}
Bound  == LoginSteps \ {"idle", "queued"}
Mapped == Bound \ {"bound"}
Listed == {"listed", "counted", "done"}

(* "ignored": channelInactive found no session.  "absent": remove found no *)
(* map entry and returned.  "closed" follows either "absent" or "removed". *)
CloseSteps == {"open", "ignored", "closing", "found", "read", "unlisted",
               "uncached", "unmapped", "removed", "absent", "closed"}

Notice == [kind : {"on", "off"}, sid : Session]

TypeOK ==
  /\ alive \in [Node -> BOOLEAN]
  /\ login \in [Session -> LoginSteps]
  /\ close \in [Session -> CloseSteps]
  /\ loginCopy \in [Session -> SUBSET Session]
  /\ closeCopy \in [Session -> SUBSET Session]
  /\ sessionMap \in [Node -> [Session -> MapValues]]
  /\ userCache \in [User -> SUBSET Session]
  /\ sessionCache \in SUBSET Session
  /\ balance \in [Node -> Int]
  /\ todo \in [Worker -> SUBSET Session]
  /\ miss \in [Worker -> SUBSET Session]
  /\ wire \in [Linked -> Seq(Notice)]
  /\ early \in SUBSET Session
  /\ disturbed \in SUBSET User

Init ==
  /\ alive = [n \in Node |-> TRUE]
  /\ login = [s \in Session |-> "idle"]
  /\ close = [s \in Session |-> "open"]
  /\ loginCopy = [s \in Session |-> {}]
  /\ closeCopy = [s \in Session |-> {}]
  /\ sessionMap = [n \in Node |-> [s \in Session |-> "none"]]
  /\ userCache = [u \in User |-> {}]
  /\ sessionCache = {}
  /\ balance = [n \in Node |-> 0]
  /\ todo = [w \in Worker |-> {}]
  /\ miss = [w \in Worker |-> {}]
  /\ wire = [l \in Linked |-> <<>>]
  /\ early = {}
  /\ disturbed = {}

-----------------------------------------------------------------------------
(* Redis, as RedisHelper, UserCacheImpl and SessionCacheImpl use it.  A    *)
(* call that fails is logged and forgotten: a get answers null, a set or   *)
(* del changes nothing.  A missing UserCache and an empty one are treated  *)
(* alike by every caller, so both are {}.                                  *)

GetUserCache(u) == {userCache[u]} \cup (IF RedisFaults THEN {{}} ELSE {})

(* The setex of UserCacheImpl.save writes the whole entry.  The copy is    *)
(* local to addSession or removeSession and is forgotten after the write.  *)
SaveUserCache(u, copy, new) ==
  \/ /\ userCache' = [userCache EXCEPT ![u] = new]
     /\ disturbed' = IF copy = userCache[u] THEN disturbed
                                            ELSE disturbed \cup {u}
  \/ /\ RedisFaults
     /\ disturbed' = disturbed \cup {u}
     /\ UNCHANGED userCache

SetSessionCache(s, new) ==
  \/ sessionCache' = new /\ UNCHANGED disturbed
  \/ /\ RedisFaults
     /\ disturbed' = disturbed \cup {UserOf[s]}
     /\ UNCHANGED sessionCache

(* NodeRouter.sendNotification: one message to every connected peer.       *)
SendNotification(n, notice) ==
  wire' = [l \in Linked |-> IF l[1] = n THEN Append(wire[l], notice)
                                        ELSE wire[l]]

-----------------------------------------------------------------------------
(* Login: ConnectHandler, ConnectProcesser.action, SessionManager.add.     *)

LoginStep(s, from, to) ==
  /\ alive[HomeOf[s]]
  /\ login[s] = from
  /\ login' = [login EXCEPT ![s] = to]

(* The ONLINE frame: a LocalSession is made and the login task queued.     *)
ReceiveOnline(s) ==
  /\ close[s] = "open"
  /\ LoginStep(s, "idle", "queued")
  /\ UNCHANGED <<alive, close, loginCopy, closeCopy, sessionMap, redis,
                 balance, lookups, wire, history>>

(* setUserid and bind: from now on the channel has its SESSION_KEY.        *)
Bind(s) ==
  /\ LoginStep(s, "queued", "bound")
  /\ UNCHANGED <<alive, close, loginCopy, closeCopy, sessionMap, redis,
                 balance, lookups, wire, history>>

PutLocalSession(s) ==
  /\ LoginStep(s, "bound", "mapped")
  /\ sessionMap' = [sessionMap EXCEPT ![HomeOf[s]][s] = "local"]
  /\ UNCHANGED <<alive, close, loginCopy, closeCopy, redis, balance,
                 lookups, wire, history>>

SaveSessionNode(s) ==
  /\ LoginStep(s, "mapped", "cached")
  /\ SetSessionCache(s, sessionCache \cup {s})
  /\ UNCHANGED <<alive, close, loginCopy, closeCopy, sessionMap, userCache,
                 balance, lookups, wire, early>>

ReadForAdd(s) ==
  /\ LoginStep(s, "cached", "read")
  /\ \E got \in GetUserCache(UserOf[s]) :
       loginCopy' = [loginCopy EXCEPT ![s] = got]
  /\ UNCHANGED <<alive, close, closeCopy, sessionMap, redis, balance,
                 lookups, wire, history>>

(* Mutants: the key is the user id; the entry is made anew every time.     *)
WriteForAddUserId(s) ==
  /\ LoginStep(s, "read", "listed")
  /\ SaveUserCache(UserOf[s], loginCopy[s], loginCopy[s] \cup {UserOf[s]})
  /\ loginCopy' = [loginCopy EXCEPT ![s] = {}]
  /\ UNCHANGED <<alive, close, closeCopy, sessionMap, sessionCache, balance,
                 lookups, wire, early>>

WriteForAddAnew(s) ==
  /\ LoginStep(s, "read", "listed")
  /\ SaveUserCache(UserOf[s], loginCopy[s], {s})
  /\ loginCopy' = [loginCopy EXCEPT ![s] = {}]
  /\ UNCHANGED <<alive, close, closeCopy, sessionMap, sessionCache, balance,
                 lookups, wire, early>>

WriteForAdd(s) ==
  /\ LoginStep(s, "read", "listed")
  /\ SaveUserCache(UserOf[s], loginCopy[s], loginCopy[s] \cup {s})
  /\ loginCopy' = [loginCopy EXCEPT ![s] = {}]
  /\ UNCHANGED <<alive, close, closeCopy, sessionMap, sessionCache, balance,
                 lookups, wire, early>>

IncBalance(s) ==
  /\ LoginStep(s, "listed", "counted")
  /\ balance' = [balance EXCEPT ![HomeOf[s]] = @ + 1]
  /\ UNCHANGED <<alive, close, loginCopy, closeCopy, sessionMap, redis,
                 lookups, wire, history>>

(* The notice, then the connect response to the client.                    *)
NotifyOnline(s) ==
  /\ LoginStep(s, "counted", "done")
  /\ SendNotification(HomeOf[s], [kind |-> "on", sid |-> s])
  /\ UNCHANGED <<alive, close, loginCopy, closeCopy, sessionMap, redis,
                 balance, lookups, history>>

-----------------------------------------------------------------------------
(* Logout: channelInactive, SessionManager.closeSession and remove.        *)

CloseStep(s, from, to) ==
  /\ alive[HomeOf[s]]
  /\ close[s] = from
  /\ close' = [close EXCEPT ![s] = to]

(* The channel closes: the client leaves, or is read-idle for 100 seconds. *)
(* On a channel without a session, closeSession throws at its null test    *)
(* and cleans nothing up, although a queued login will still run.          *)
ChannelInactive(s) ==
  /\ CloseStep(s, "open", IF login[s] \in Bound THEN "closing" ELSE "ignored")
  /\ early' = IF login[s] \in Listed THEN early ELSE early \cup {s}
  /\ UNCHANGED <<alive, login, loginCopy, closeCopy, sessionMap, redis,
                 balance, lookups, wire, disturbed>>

(* Mutants: no null test; the test inverted.                               *)
RemoveLooksUpUntested(s) ==
  /\ CloseStep(s, "closing", "found")
  /\ UNCHANGED <<alive, login, loginCopy, closeCopy, sessionMap, redis,
                 balance, lookups, wire, history>>

RemoveLooksUpInverted(s) ==
  /\ CloseStep(s, "closing",
               IF sessionMap[HomeOf[s]][s] = "none" THEN "found" ELSE "absent")
  /\ UNCHANGED <<alive, login, loginCopy, closeCopy, sessionMap, redis,
                 balance, lookups, wire, history>>

RemoveLooksUp(s) ==
  /\ CloseStep(s, "closing",
               IF sessionMap[HomeOf[s]][s] = "none" THEN "absent" ELSE "found")
  /\ UNCHANGED <<alive, login, loginCopy, closeCopy, sessionMap, redis,
                 balance, lookups, wire, history>>

ReadForRemove(s) ==
  /\ CloseStep(s, "found", "read")
  /\ \E got \in GetUserCache(UserOf[s]) :
       closeCopy' = [closeCopy EXCEPT ![s] = got]
  /\ UNCHANGED <<alive, login, loginCopy, sessionMap, redis, balance,
                 lookups, wire, history>>

(* Mutants: every session removed; none removed.                           *)
WriteForRemoveClears(s) ==
  /\ CloseStep(s, "read", "unlisted")
  /\ SaveUserCache(UserOf[s], closeCopy[s], {})
  /\ closeCopy' = [closeCopy EXCEPT ![s] = {}]
  /\ UNCHANGED <<alive, login, loginCopy, sessionMap, sessionCache, balance,
                 lookups, wire, early>>

WriteForRemoveKeeps(s) ==
  /\ CloseStep(s, "read", "unlisted")
  /\ SaveUserCache(UserOf[s], closeCopy[s], closeCopy[s])
  /\ closeCopy' = [closeCopy EXCEPT ![s] = {}]
  /\ UNCHANGED <<alive, login, loginCopy, sessionMap, sessionCache, balance,
                 lookups, wire, early>>

WriteForRemove(s) ==
  /\ CloseStep(s, "read", "unlisted")
  /\ SaveUserCache(UserOf[s], closeCopy[s], closeCopy[s] \ {s})
  /\ closeCopy' = [closeCopy EXCEPT ![s] = {}]
  /\ UNCHANGED <<alive, login, loginCopy, sessionMap, sessionCache, balance,
                 lookups, wire, early>>

(* Mutant: the session cache is forgotten.                                 *)
DeleteSessionNodeSkipped(s) ==
  /\ CloseStep(s, "unlisted", "uncached")
  /\ UNCHANGED <<alive, login, loginCopy, closeCopy, sessionMap, redis,
                 balance, lookups, wire, history>>

DeleteSessionNode(s) ==
  /\ CloseStep(s, "unlisted", "uncached")
  /\ SetSessionCache(s, sessionCache \ {s})
  /\ UNCHANGED <<alive, login, loginCopy, closeCopy, sessionMap, userCache,
                 balance, lookups, wire, early>>

DropFromMap(s) ==
  /\ CloseStep(s, "uncached", "unmapped")
  /\ sessionMap' = [sessionMap EXCEPT ![HomeOf[s]][s] = "none"]
  /\ UNCHANGED <<alive, login, loginCopy, closeCopy, redis, balance,
                 lookups, wire, history>>

DecrBalance(s) ==
  /\ CloseStep(s, "unmapped", "removed")
  /\ balance' = [balance EXCEPT ![HomeOf[s]] = @ - 1]
  /\ UNCHANGED <<alive, login, loginCopy, closeCopy, sessionMap, redis,
                 lookups, wire, history>>

(* notifyOtherWsNodeOffLine runs whether or not remove did anything.       *)
NotifyOffline(s) ==
  /\ \/ CloseStep(s, "removed", "closed")
     \/ CloseStep(s, "absent", "closed")
  /\ SendNotification(HomeOf[s], [kind |-> "off", sid |-> s])
  /\ UNCHANGED <<alive, login, loginCopy, closeCopy, sessionMap, redis,
                 balance, lookups, history>>

-----------------------------------------------------------------------------
(* Lookup: getSessionByUserId, for a message addressed to user u.          *)

LookupStart(w, u) ==
  /\ alive[WorkerOn[w]]
  /\ todo[w] = {} /\ miss[w] = {}
  /\ \E got \in GetUserCache(u) : todo' = [todo EXCEPT ![w] = got]
  /\ UNCHANGED <<alive, login, close, loginCopy, closeCopy, sessionMap,
                 redis, balance, miss, wire, history>>

(* Mutant: a RemoteSession is made without asking the map.                 *)
LookupGetUntested(w, s) ==
  /\ alive[WorkerOn[w]]
  /\ s \in todo[w] /\ miss[w] = {}
  /\ todo' = [todo EXCEPT ![w] = @ \ {s}]
  /\ miss' = [miss EXCEPT ![w] = {s}]
  /\ UNCHANGED <<alive, login, close, loginCopy, closeCopy, sessionMap,
                 redis, balance, wire, history>>

(* sessionMap.get: null sends the worker on to create a RemoteSession.     *)
LookupGet(w, s) ==
  /\ alive[WorkerOn[w]]
  /\ s \in todo[w] /\ miss[w] = {}
  /\ todo' = [todo EXCEPT ![w] = @ \ {s}]
  /\ miss' = [miss EXCEPT ![w] =
                IF sessionMap[WorkerOn[w]][s] = "none" THEN {s} ELSE {}]
  /\ UNCHANGED <<alive, login, close, loginCopy, closeCopy, sessionMap,
                 redis, balance, wire, history>>

LookupPutRemote(w, s) ==
  /\ alive[WorkerOn[w]]
  /\ s \in miss[w]
  /\ sessionMap' = [sessionMap EXCEPT ![WorkerOn[w]][s] = "remote"]
  /\ miss' = [miss EXCEPT ![w] = {}]
  /\ UNCHANGED <<alive, login, close, loginCopy, closeCopy, redis, balance,
                 todo, wire, history>>

-----------------------------------------------------------------------------
(* Notices: RemoteNotificationHandler.channelRead.                         *)

(* ConcurrentHashMap.contains(x) asks for the value x, not for the key.    *)
Contains(map, s) == \E k \in Session : map[k] = s

AddRemoteSession(map, s) ==
  IF Contains(map, s) THEN map ELSE [map EXCEPT ![s] = "remote"]

RemoveRemoteSession(map, s) ==
  IF ~ Contains(map, s) THEN map ELSE [map EXCEPT ![s] = "none"]

(* Every notice is parsed with the type Notification<ContentWrapper>, so   *)
(* the instanceof NodeCacheWrapper of getWrapNode is never true.           *)
ParsedAs(notice) == "ContentWrapper"

GetWrapNode(notice) ==
  IF ParsedAs(notice) = "NodeCacheWrapper" THEN notice.sid ELSE NoSession

GetWrapContent(notice) ==
  IF ParsedAs(notice) = "ContentWrapper" THEN notice.sid ELSE NoSession

(* Mutant: SESSION_OFF handled as SESSION_ON.                              *)
HandleNoticeSwapped(map, notice) ==
  IF notice.kind = "off" THEN [map EXCEPT ![notice.sid] = "remote"] ELSE map

(* A SESSION_ON whose getWrapNode is null ends in a NullPointerException.  *)
HandleNotice(map, notice) ==
  CASE notice.kind = "off" -> RemoveRemoteSession(map, GetWrapContent(notice))
    [] notice.kind = "on" /\ GetWrapNode(notice) = NoSession -> map
    [] OTHER -> AddRemoteSession(map, GetWrapNode(notice))

ReceiveNotice(l) ==
  /\ alive[l[2]]
  /\ wire[l] # <<>>
  /\ wire' = [wire EXCEPT ![l] = Tail(@)]
  /\ sessionMap' = [sessionMap EXCEPT ![l[2]] = HandleNotice(@, Head(wire[l]))]
  /\ UNCHANGED <<alive, login, close, loginCopy, closeCopy, redis, balance,
                 lookups, history>>

-----------------------------------------------------------------------------
(* The environment.                                                        *)

(* The process dies: what it kept in memory is gone, Redis keeps the rest. *)
(* A restarted process is a new node: ZooKeeper gives it a new number.     *)
Crash(n) ==
  /\ n \in Crashable
  /\ alive[n]
  /\ alive' = [alive EXCEPT ![n] = FALSE]
  /\ sessionMap' = [sessionMap EXCEPT ![n] = [s \in Session |-> "none"]]
  /\ balance' = [balance EXCEPT ![n] = 0]
  /\ todo' = [w \in Worker |-> IF WorkerOn[w] = n THEN {} ELSE todo[w]]
  /\ miss' = [w \in Worker |-> IF WorkerOn[w] = n THEN {} ELSE miss[w]]
  /\ wire' = [l \in Linked |-> IF l[2] = n THEN <<>> ELSE wire[l]]
  /\ UNCHANGED <<login, close, loginCopy, closeCopy, redis, history>>

(* The TTL of a cache entry runs out.                                      *)
ExpireUserCache(u) ==
  /\ u \in Expiring
  /\ userCache[u] # {}
  /\ userCache' = [userCache EXCEPT ![u] = {}]
  /\ disturbed' = disturbed \cup {u}
  /\ UNCHANGED <<alive, login, close, loginCopy, closeCopy, sessionMap,
                 sessionCache, balance, lookups, wire, early>>

ExpireSessionCache(s) ==
  /\ UserOf[s] \in Expiring
  /\ s \in sessionCache
  /\ sessionCache' = sessionCache \ {s}
  /\ UNCHANGED <<alive, login, close, loginCopy, closeCopy, sessionMap,
                 userCache, balance, lookups, wire, history>>

-----------------------------------------------------------------------------

LoginTask(s) == Bind(s) \/ PutLocalSession(s) \/ SaveSessionNode(s)
                  \/ ReadForAdd(s) \/ WriteForAdd(s) \/ IncBalance(s)
                  \/ NotifyOnline(s)

CloseTask(s) == RemoveLooksUp(s) \/ ReadForRemove(s) \/ WriteForRemove(s)
                  \/ DeleteSessionNode(s) \/ DropFromMap(s) \/ DecrBalance(s)
                  \/ NotifyOffline(s)

LookupTask(w) == \E s \in Session : LookupGet(w, s) \/ LookupPutRemote(w, s)

Next ==
  \/ \E s \in Session : \/ ReceiveOnline(s) \/ ChannelInactive(s)
                        \/ LoginTask(s) \/ CloseTask(s)
                        \/ ExpireSessionCache(s)
  \/ \E w \in Worker : LookupTask(w) \/ \E u \in User : LookupStart(w, u)
  \/ \E l \in Linked : ReceiveNotice(l)
  \/ \E n \in Node : Crash(n)
  \/ \E u \in User : ExpireUserCache(u)

Spec == Init /\ [][Next]_vars

(* Pool threads and event loops run what they have begun.  No fairness for *)
(* clients, messages to users, crashes or expiry.                          *)
Fairness ==
  /\ \A s \in Session : WF_vars(LoginTask(s)) /\ WF_vars(CloseTask(s))
  /\ \A w \in Worker : WF_vars(LookupTask(w))

FairSpec == Spec /\ Fairness

-----------------------------------------------------------------------------
(* Properties.                                                             *)

(* Nothing is published that no login has published: an id is listed in    *)
(* Redis under its own user only, after its login wrote it there, and only *)
(* such an id becomes a RemoteSession, however reads, writes and lookups   *)
(* of several nodes interleave (SessionManager.add, getSessionByUserId).   *)
NoPhantom ==
  /\ \A u \in User : \A s \in userCache[u] : UserOf[s] = u /\ login[s] \in Listed
  /\ \A n \in Node, s \in Session :
       sessionMap[n][s] = "remote" => login[s] \in Listed

(* A lookup on a session's own node never puts a RemoteSession in the      *)
(* place of the live LocalSession: getSessionByUserId tests and puts in    *)
(* two steps, and is safe only because add fills the map before Redis and  *)
(* remove empties Redis before the map.                                    *)
LocalNotShadowed ==
  \A s \in Session :
    alive[HomeOf[s]] /\ login[s] \in Mapped
      /\ close[s] \notin {"unmapped", "removed", "closed"}
    => sessionMap[HomeOf[s]][s] = "local"

(* Whoever is logged in can be found: the user's cache lists the session   *)
(* until its own logout rewrites it, unless an update of the same user     *)
(* worked on an outdated copy, the TTL ran out or Redis refused a call.    *)
(* No other session's login, logout, lookup or crash takes it away.        *)
OnlineIsListed ==
  \A s \in Session :
    login[s] \in Listed /\ close[s] \in {"open", "ignored", "closing", "found", "read"}
    => s \in userCache[UserOf[s]] \/ UserOf[s] \in disturbed

(* Whoever logged out after its login was written stays forgotten: no      *)
(* later login or logout of another device brings the session back to the  *)
(* user's cache or to the session cache (SessionManager.remove).           *)
ClosedIsForgotten ==
  \A s \in Session :
    s \notin early /\ UserOf[s] \notin disturbed =>
      /\ close[s] \in {"unlisted", "uncached", "unmapped", "removed", "closed"}
           => s \notin userCache[UserOf[s]]
      /\ close[s] \in {"uncached", "unmapped", "removed", "closed"}
           => s \notin sessionCache

(* When no login or logout of node n is under way its load counter is the  *)
(* number of its local sessions, also after logouts that overtook their    *)
(* login (NettyWorker.incBalance and decrBalance).                         *)
AtRest(n) ==
  \A s \in Session : HomeOf[s] = n =>
    /\ login[s] \in {"idle", "queued", "done"}
    /\ close[s] \in {"open", "ignored", "closed"}

LocalSessions(n) ==
  {s \in Session : HomeOf[s] = n /\ sessionMap[n][s] = "local"}

BalanceAtRest ==
  \A n \in Node :
    alive[n] /\ AtRest(n) => balance[n] = Cardinality(LocalSessions(n))

(* A logout that has begun takes the session out of the user's cache, if   *)
(* its login was written, its node lives and the cache is undisturbed.     *)
LogoutForgets ==
  \A s \in Session :
    (close[s] = "closing" /\ s \notin early)
      ~> \/ s \notin userCache[UserOf[s]] /\ sessionMap[HomeOf[s]][s] # "local"
         \/ UserOf[s] \in disturbed
         \/ ~ alive[HomeOf[s]]

(* The user cache implements the presence directory: every session appears *)
(* once and disappears for good, and only the updates counted in disturbed *)
(* make the directory lose track of a user, and of that user only.         *)
StatusOf(s) ==
  IF UserOf[s] \in disturbed THEN "unknown"
  ELSE IF s \in userCache[UserOf[s]] THEN "online"
  ELSE IF login[s] \in Listed THEN "gone" ELSE "offline"

Directory == INSTANCE Presence WITH status <- [s \in Session |-> StatusOf(s)]

ImplementsPresence == Directory!Spec

(* Statements of the sources that the code does not keep.                  *)

(* UserCache.java: one user may be logged in on several devices, and add   *)
(* stores each of them in Redis.                                           *)
EveryDeviceListed ==
  \A s \in Session :
    login[s] = "done" /\ close[s] = "open" => s \in userCache[UserOf[s]]

(* closeSession: the session is deleted from the caches.                   *)
LogoutCleansCaches ==
  \A s \in Session :
    close[s] = "closed" => s \notin userCache[UserOf[s]] /\ s \notin sessionCache

=============================================================================
