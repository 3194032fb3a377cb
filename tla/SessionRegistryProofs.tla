------------------------ MODULE SessionRegistryProofs ------------------------
(***************************************************************************)
(* Proofs about SessionRegistry, for any sets of nodes, users, sessions    *)
(* and workers, any links, and with crashes, expiry and Redis faults: the  *)
(* types, what a reader of the user cache may find, and that the registry *)
(* implements the presence directory.                                      *)
(***************************************************************************)
EXTENDS SessionRegistry, FiniteSetTheorems, TLAPS

USE DEF LoginSteps, Bound, Mapped, Listed, CloseSteps, MapValues

(* No session map ever has a session id among its values, so contains is   *)
(* false for every id and both notices leave the map alone.                *)
LEMMA NoticesAreInert ==
  ASSUME NEW map \in [Session -> MapValues], NEW notice \in Notice
  PROVE  HandleNotice(map, notice) = map
<1>1. ~ Contains(map, notice.sid)
  BY RegistryAssumption DEF Contains, Notice
<1>2. notice.kind \in {"on", "off"}
  BY DEF Notice
<1>3. GetWrapContent(notice) = notice.sid /\ GetWrapNode(notice) = NoSession
  BY DEF GetWrapContent, GetWrapNode, ParsedAs
<1> QED
  BY <1>1, <1>2, <1>3 DEF HandleNotice, RemoveRemoteSession

LEMMA ReceiveNoticeKeepsMaps ==
  ASSUME TypeOK, NEW l \in Linked, ReceiveNotice(l)
  PROVE  sessionMap' = sessionMap
<1>1. l[2] \in Node /\ sessionMap[l[2]] \in [Session -> MapValues]
  BY RegistryAssumption DEF TypeOK
<1>2. Head(wire[l]) \in Notice
  BY DEF TypeOK, ReceiveNotice
<1>3. HandleNotice(sessionMap[l[2]], Head(wire[l])) = sessionMap[l[2]]
  BY <1>1, <1>2, NoticesAreInert
<1> QED
  BY <1>1, <1>3 DEF ReceiveNotice, TypeOK

-----------------------------------------------------------------------------
(* Type correctness.                                                       *)

LEMMA SendTyped ==
  ASSUME wire \in [Linked -> Seq(Notice)], NEW n, NEW notice \in Notice,
         SendNotification(n, notice)
  PROVE  wire' \in [Linked -> Seq(Notice)]
BY DEF SendNotification

LEMMA InitTyped == Init => TypeOK
BY DEF Init, TypeOK

LEMMA NextTyped == TypeOK /\ [Next]_vars => TypeOK'
<1> SUFFICES ASSUME TypeOK, [Next]_vars PROVE TypeOK'
  OBVIOUS
<1> USE RegistryAssumption DEF TypeOK
<1>1. ASSUME NEW s \in Session, ReceiveOnline(s) \/ Bind(s)
      PROVE  TypeOK'
  <2>1. CASE ReceiveOnline(s)
    BY <2>1 DEF ReceiveOnline, LoginStep, redis, lookups, history
  <2>2. CASE Bind(s)
    BY <2>2 DEF Bind, LoginStep, redis, lookups, history
  <2> QED
    BY <1>1, <2>1, <2>2
<1>2. ASSUME NEW s \in Session, PutLocalSession(s)
      PROVE  TypeOK'
  BY <1>2 DEF PutLocalSession, LoginStep, redis, lookups, history
<1>3. ASSUME NEW s \in Session, SaveSessionNode(s)
      PROVE  TypeOK'
  BY <1>3 DEF SaveSessionNode, SetSessionCache, LoginStep, lookups
<1>4. ASSUME NEW s \in Session, ReadForAdd(s)
      PROVE  TypeOK'
  BY <1>4 DEF ReadForAdd, GetUserCache, LoginStep, redis, lookups, history
<1>5. ASSUME NEW s \in Session, WriteForAdd(s)
      PROVE  TypeOK'
  BY <1>5 DEF WriteForAdd, SaveUserCache, LoginStep, lookups
<1>6. ASSUME NEW s \in Session, IncBalance(s)
      PROVE  TypeOK'
  BY <1>6 DEF IncBalance, LoginStep, redis, lookups, history
<1>7. ASSUME NEW s \in Session, NotifyOnline(s)
      PROVE  TypeOK'
  <2>1. wire' \in [Linked -> Seq(Notice)]
    BY <1>7, SendTyped DEF NotifyOnline, Notice
  <2> QED
    BY <1>7, <2>1 DEF NotifyOnline, LoginStep, redis, lookups, history
<1>8. ASSUME NEW s \in Session, ChannelInactive(s)
      PROVE  TypeOK'
  BY <1>8 DEF ChannelInactive, CloseStep, redis, lookups
<1>9. ASSUME NEW s \in Session, RemoveLooksUp(s)
      PROVE  TypeOK'
  BY <1>9 DEF RemoveLooksUp, CloseStep, redis, lookups, history
<1>10. ASSUME NEW s \in Session, ReadForRemove(s)
       PROVE  TypeOK'
  BY <1>10 DEF ReadForRemove, GetUserCache, CloseStep, redis, lookups, history
<1>11. ASSUME NEW s \in Session, WriteForRemove(s)
       PROVE  TypeOK'
  BY <1>11 DEF WriteForRemove, SaveUserCache, CloseStep, lookups
<1>12. ASSUME NEW s \in Session, DeleteSessionNode(s)
       PROVE  TypeOK'
  BY <1>12 DEF DeleteSessionNode, SetSessionCache, CloseStep, lookups
<1>13. ASSUME NEW s \in Session, DropFromMap(s)
       PROVE  TypeOK'
  BY <1>13 DEF DropFromMap, CloseStep, redis, lookups, history
<1>14. ASSUME NEW s \in Session, DecrBalance(s)
       PROVE  TypeOK'
  BY <1>14 DEF DecrBalance, CloseStep, redis, lookups, history
<1>15. ASSUME NEW s \in Session, NotifyOffline(s)
       PROVE  TypeOK'
  <2>1. wire' \in [Linked -> Seq(Notice)]
    BY <1>15, SendTyped DEF NotifyOffline, Notice
  <2>2. /\ close' = [close EXCEPT ![s] = "closed"]
        /\ UNCHANGED <<alive, login, loginCopy, closeCopy, sessionMap, redis,
                       balance, lookups, history>>
    BY <1>15 DEF NotifyOffline, CloseStep
  <2> QED
    BY <2>1, <2>2 DEF redis, lookups, history
<1>16. ASSUME NEW s \in Session, ExpireSessionCache(s)
       PROVE  TypeOK'
  BY <1>16 DEF ExpireSessionCache, lookups, history
<1>17. ASSUME NEW w \in Worker, NEW u \in User, LookupStart(w, u)
       PROVE  TypeOK'
  BY <1>17 DEF LookupStart, GetUserCache, redis, history
<1>18. ASSUME NEW w \in Worker, NEW s \in Session,
              LookupGet(w, s) \/ LookupPutRemote(w, s)
       PROVE  TypeOK'
  <2>1. CASE LookupGet(w, s)
    BY <2>1 DEF LookupGet, redis, history
  <2>2. CASE LookupPutRemote(w, s)
    BY <2>2 DEF LookupPutRemote, redis, history
  <2> QED
    BY <1>18, <2>1, <2>2
<1>19. ASSUME NEW l \in Linked, ReceiveNotice(l)
       PROVE  TypeOK'
  <2>1. wire' \in [Linked -> Seq(Notice)]
    BY <1>19 DEF ReceiveNotice
  <2> QED
    BY <1>19, <2>1, ReceiveNoticeKeepsMaps
    DEF ReceiveNotice, redis, lookups, history
<1>20. ASSUME NEW n \in Node, Crash(n)
       PROVE  TypeOK'
  <2>1. wire' \in [Linked -> Seq(Notice)]
    BY <1>20 DEF Crash
  <2> QED
    BY <1>20, <2>1 DEF Crash, redis, history
<1>21. ASSUME NEW u \in User, ExpireUserCache(u)
       PROVE  TypeOK'
  BY <1>21 DEF ExpireUserCache, lookups
<1>22. CASE UNCHANGED vars
  BY <1>22 DEF vars
<1> QED
  BY <1>1, <1>2, <1>3, <1>4, <1>5, <1>6, <1>7, <1>8, <1>9, <1>10, <1>11,
     <1>12, <1>13, <1>14, <1>15, <1>16, <1>17, <1>18, <1>19, <1>20, <1>21,
     <1>22
  DEF Next, LoginTask, CloseTask, LookupTask

(* Every reachable state of the registry is well typed.                    *)
THEOREM TypeCorrect == Spec => []TypeOK
BY InitTyped, NextTyped, PTL DEF Spec

-----------------------------------------------------------------------------
(* OnlineIsListed needs no strengthening: whoever overwrites the entry of  *)
(* another session's user has read it before, and either the entry has not *)
(* changed since or the user is disturbed.                                 *)

LEMMA ListedNext ==
  TypeOK /\ OnlineIsListed /\ [Next]_vars => OnlineIsListed'
<1> SUFFICES ASSUME TypeOK, OnlineIsListed, [Next]_vars PROVE OnlineIsListed'
  OBVIOUS
<1> DEFINE Before == {"open", "ignored", "closing", "found", "read"}
<1>1. CASE UNCHANGED <<login, close, userCache, disturbed>>
  BY <1>1 DEF OnlineIsListed
<1>2. ASSUME NEW s \in Session,
             \/ ReceiveOnline(s) \/ Bind(s) \/ PutLocalSession(s)
             \/ ReadForAdd(s) \/ IncBalance(s) \/ NotifyOnline(s)
      PROVE  OnlineIsListed'
  <2>1. UNCHANGED <<close, userCache, disturbed>>
    BY <1>2 DEF ReceiveOnline, Bind, PutLocalSession, ReadForAdd, IncBalance,
                NotifyOnline, redis, history
  <2>2. \A t \in Session : login'[t] \in Listed => login[t] \in Listed
    BY <1>2 DEF ReceiveOnline, Bind, PutLocalSession, ReadForAdd, IncBalance,
                NotifyOnline, LoginStep, TypeOK
  <2> QED
    BY <2>1, <2>2 DEF OnlineIsListed
<1>3. ASSUME NEW s \in Session, SaveSessionNode(s)
      PROVE  OnlineIsListed'
  <2>1. UNCHANGED <<close, userCache>> /\ disturbed \subseteq disturbed'
    BY <1>3 DEF SaveSessionNode, SetSessionCache
  <2>2. \A t \in Session : login'[t] \in Listed => login[t] \in Listed
    BY <1>3 DEF SaveSessionNode, LoginStep, TypeOK
  <2> QED
    BY <2>1, <2>2 DEF OnlineIsListed
<1>4. ASSUME NEW s \in Session, WriteForAdd(s)
      PROVE  OnlineIsListed'
  <2> SUFFICES ASSUME NEW t \in Session, login'[t] \in Listed,
                      close'[t] \in Before,
                      UserOf[t] \notin disturbed'
               PROVE  t \in userCache'[UserOf[t]]
    BY DEF OnlineIsListed
  <2>1. UserOf[s] \in User /\ UserOf[t] \in User
    BY RegistryAssumption
  <2>2. close' = close /\ login' = [login EXCEPT ![s] = "listed"]
    BY <1>4 DEF WriteForAdd, LoginStep
  <2>3. disturbed \subseteq disturbed'
    BY <1>4 DEF WriteForAdd, SaveUserCache
  <2>4. CASE UserOf[t] = UserOf[s]
    <3>1. /\ loginCopy[s] = userCache[UserOf[s]]
          /\ userCache'[UserOf[s]] = userCache[UserOf[s]] \cup {s}
      BY <1>4, <2>1, <2>4 DEF WriteForAdd, SaveUserCache, TypeOK
    <3> QED
      BY <2>2, <2>3, <2>4, <3>1 DEF OnlineIsListed, TypeOK
  <2>5. CASE UserOf[t] # UserOf[s]
    <3>1. userCache'[UserOf[t]] = userCache[UserOf[t]]
      BY <1>4, <2>1, <2>5 DEF WriteForAdd, SaveUserCache, TypeOK
    <3> QED
      BY <2>2, <2>3, <2>5, <3>1 DEF OnlineIsListed, TypeOK
  <2> QED
    BY <2>4, <2>5
<1>5. ASSUME NEW s \in Session,
             \/ ChannelInactive(s) \/ RemoveLooksUp(s) \/ ReadForRemove(s)
             \/ DropFromMap(s) \/ DecrBalance(s) \/ NotifyOffline(s)
      PROVE  OnlineIsListed'
  <2>1. UNCHANGED <<login, userCache, disturbed>>
    BY <1>5 DEF ChannelInactive, RemoveLooksUp, ReadForRemove, DropFromMap,
                DecrBalance, NotifyOffline, redis, history
  <2>2. \A t \in Session : close'[t] \in Before => close[t] \in Before
    BY <1>5 DEF ChannelInactive, RemoveLooksUp, ReadForRemove, DropFromMap,
                DecrBalance, NotifyOffline, CloseStep, TypeOK
  <2> QED
    BY <2>1, <2>2 DEF OnlineIsListed
<1>6. ASSUME NEW s \in Session, WriteForRemove(s)
      PROVE  OnlineIsListed'
  <2> SUFFICES ASSUME NEW t \in Session, login'[t] \in Listed,
                      close'[t] \in Before,
                      UserOf[t] \notin disturbed'
               PROVE  t \in userCache'[UserOf[t]]
    BY DEF OnlineIsListed
  <2>1. UserOf[s] \in User /\ UserOf[t] \in User
    BY RegistryAssumption
  <2>2. login' = login /\ close' = [close EXCEPT ![s] = "unlisted"]
    BY <1>6 DEF WriteForRemove, CloseStep
  <2>3. t # s /\ close[t] \in Before
    BY <2>2 DEF TypeOK
  <2>4. disturbed \subseteq disturbed'
    BY <1>6 DEF WriteForRemove, SaveUserCache
  <2>5. CASE UserOf[t] = UserOf[s]
    <3>1. /\ closeCopy[s] = userCache[UserOf[s]]
          /\ userCache'[UserOf[s]] = userCache[UserOf[s]] \ {s}
      BY <1>6, <2>1, <2>5 DEF WriteForRemove, SaveUserCache, TypeOK
    <3> QED
      BY <2>2, <2>3, <2>4, <2>5, <3>1 DEF OnlineIsListed, TypeOK
  <2>6. CASE UserOf[t] # UserOf[s]
    <3>1. userCache'[UserOf[t]] = userCache[UserOf[t]]
      BY <1>6, <2>1, <2>6 DEF WriteForRemove, SaveUserCache, TypeOK
    <3> QED
      BY <2>2, <2>3, <2>4, <2>6, <3>1 DEF OnlineIsListed, TypeOK
  <2> QED
    BY <2>5, <2>6
<1>7. ASSUME NEW s \in Session, DeleteSessionNode(s)
      PROVE  OnlineIsListed'
  <2>1. UNCHANGED <<login, userCache>> /\ disturbed \subseteq disturbed'
    BY <1>7 DEF DeleteSessionNode, SetSessionCache
  <2>2. \A t \in Session : close'[t] \in Before => close[t] \in Before
    BY <1>7 DEF DeleteSessionNode, CloseStep, TypeOK
  <2> QED
    BY <2>1, <2>2 DEF OnlineIsListed
<1>8. ASSUME NEW u \in User, ExpireUserCache(u)
      PROVE  OnlineIsListed'
  <2>1. /\ UNCHANGED <<login, close>>
        /\ disturbed' = disturbed \cup {u}
        /\ userCache' = [userCache EXCEPT ![u] = {}]
    BY <1>8 DEF ExpireUserCache
  <2> QED
    BY <2>1, RegistryAssumption DEF OnlineIsListed, TypeOK
<1> QED
  BY <1>1, <1>2, <1>3, <1>4, <1>5, <1>6, <1>7, <1>8
  DEF Next, LoginTask, CloseTask, LookupTask, ExpireSessionCache, LookupStart,
      LookupGet, LookupPutRemote, ReceiveNotice, Crash, vars, redis, history

(* Whoever is logged in can be found in the user's cache, unless the user  *)
(* is disturbed.                                                           *)
THEOREM ListedCorrect == Spec => []OnlineIsListed
<1>1. Init => OnlineIsListed
  BY DEF Init, OnlineIsListed
<1>2. TypeOK /\ OnlineIsListed /\ [Next]_vars => OnlineIsListed'
  BY ListedNext
<1> QED
  BY <1>1, <1>2, TypeCorrect, PTL DEF Spec

-----------------------------------------------------------------------------
(* What has been published: NoPhantom, and that every id a login, a logout *)
(* or a lookup still holds came from an entry of the right user.           *)

CopiesPublished ==
  \A s \in Session : \A t \in loginCopy[s] \cup closeCopy[s] :
    UserOf[t] = UserOf[s] /\ login[t] \in Listed

LookupsPublished ==
  \A w \in Worker : \A t \in todo[w] \cup miss[w] : login[t] \in Listed

PhantomInv == NoPhantom /\ CopiesPublished /\ LookupsPublished

LEMMA ListedForever ==
  ASSUME TypeOK, [Next]_vars, NEW t \in Session, login[t] \in Listed
  PROVE  login'[t] \in Listed
<1>1. CASE UNCHANGED login
  BY <1>1
<1>2. ASSUME NEW s \in Session, LoginTask(s) \/ ReceiveOnline(s)
      PROVE  login'[t] \in Listed
  BY <1>2 DEF LoginTask, ReceiveOnline, Bind, PutLocalSession, SaveSessionNode,
              ReadForAdd, WriteForAdd, IncBalance, NotifyOnline, LoginStep,
              TypeOK
<1> QED
  BY <1>1, <1>2
  DEF Next, CloseTask, LookupTask, ChannelInactive, RemoveLooksUp,
      ReadForRemove, WriteForRemove, DeleteSessionNode, DropFromMap,
      DecrBalance, NotifyOffline, ExpireSessionCache, LookupStart, LookupGet,
      LookupPutRemote, ReceiveNotice, Crash, ExpireUserCache, vars

LEMMA PhantomNext ==
  TypeOK /\ PhantomInv /\ [Next]_vars => PhantomInv'
<1> SUFFICES ASSUME TypeOK, PhantomInv, [Next]_vars PROVE PhantomInv'
  OBVIOUS
<1> DEFINE Kept == \A t \in Session : login[t] \in Listed => login'[t] \in Listed
<1>0. Kept
  BY ListedForever
<1> HIDE DEF Kept, Listed
<1> USE DEF PhantomInv, NoPhantom, CopiesPublished, LookupsPublished
<1>1. CASE UNCHANGED <<userCache, sessionMap, loginCopy, closeCopy, todo, miss>>
  BY <1>0, <1>1 DEF TypeOK, Kept
<1>2. ASSUME NEW s \in Session, PutLocalSession(s) \/ DropFromMap(s)
      PROVE  PhantomInv'
  <2>1. UNCHANGED <<userCache, loginCopy, closeCopy, todo, miss>>
    BY <1>2 DEF PutLocalSession, DropFromMap, redis, lookups
  <2>2. PICK new \in {"local", "none"} :
          sessionMap' = [sessionMap EXCEPT ![HomeOf[s]][s] = new]
    BY <1>2 DEF PutLocalSession, DropFromMap
  <2>3. \A n \in Node, t \in Session :
          sessionMap'[n][t] = "remote" => sessionMap[n][t] = "remote"
    BY <2>2, RegistryAssumption DEF TypeOK
  <2>4. NoPhantom'
    BY <1>0, <2>1, <2>3 DEF TypeOK, Kept
  <2>5. CopiesPublished' /\ LookupsPublished'
    BY <1>0, <2>1 DEF TypeOK, Kept
  <2> QED
    BY <2>4, <2>5
<1>3. ASSUME NEW s \in Session, ReadForAdd(s)
      PROVE  PhantomInv'
  <2>1. UNCHANGED <<userCache, sessionMap, closeCopy, todo, miss>>
    BY <1>3 DEF ReadForAdd, redis, lookups
  <2>2. PICK got \in GetUserCache(UserOf[s]) :
          loginCopy' = [loginCopy EXCEPT ![s] = got]
    BY <1>3 DEF ReadForAdd
  <2>3. \A t \in got : UserOf[t] = UserOf[s] /\ login[t] \in Listed
    BY RegistryAssumption DEF GetUserCache, TypeOK
  <2>4. NoPhantom' /\ LookupsPublished'
    BY <1>0, <2>1 DEF TypeOK, Kept
  <2>5. CopiesPublished'
    <3> SUFFICES ASSUME NEW r \in Session, NEW t \in loginCopy'[r] \cup closeCopy'[r]
                 PROVE  UserOf[t] = UserOf[r] /\ login'[t] \in Listed
      OBVIOUS
    <3>0. t \in Session
      BY NextTyped DEF TypeOK
    <3>1. CASE t \in closeCopy[r]
      BY <1>0, <3>0, <3>1 DEF Kept
    <3>2. CASE r = s /\ t \in got
      BY <1>0, <2>3, <3>0, <3>2 DEF Kept
    <3>3. CASE t \in loginCopy[r]
      BY <1>0, <3>0, <3>3 DEF Kept
    <3> QED
      BY <2>1, <2>2, <3>1, <3>2, <3>3 DEF TypeOK
  <2> QED
    BY <2>4, <2>5
<1>4. ASSUME NEW s \in Session, WriteForAdd(s)
      PROVE  PhantomInv'
  <2>1. UNCHANGED <<sessionMap, closeCopy, todo, miss>>
    BY <1>4 DEF WriteForAdd, lookups
  <2>2. loginCopy' = [loginCopy EXCEPT ![s] = {}]
    BY <1>4 DEF WriteForAdd
  <2>3. login'[s] \in Listed
    BY <1>4 DEF WriteForAdd, LoginStep, TypeOK, Listed
  <2>4. \/ UNCHANGED userCache
        \/ userCache' = [userCache EXCEPT ![UserOf[s]] = loginCopy[s] \cup {s}]
    BY <1>4 DEF WriteForAdd, SaveUserCache
  <2>5. \A u \in User : \A t \in userCache'[u] :
          UserOf[t] = u /\ login'[t] \in Listed
    <3> SUFFICES ASSUME NEW u \in User, NEW t \in userCache'[u]
                 PROVE  UserOf[t] = u /\ login'[t] \in Listed
      OBVIOUS
    <3>1. t \in Session
      BY NextTyped DEF TypeOK
    <3>2. CASE t \in userCache[u]
      BY <1>0, <3>1, <3>2 DEF Kept
    <3>3. CASE u = UserOf[s] /\ t \in loginCopy[s]
      BY <1>0, <3>1, <3>3 DEF Kept
    <3>4. CASE u = UserOf[s] /\ t = s
      BY <2>3, <3>4
    <3> QED
      BY <2>4, <3>2, <3>3, <3>4 DEF TypeOK
  <2>6. \A r \in Session : loginCopy'[r] \subseteq loginCopy[r]
    BY <2>2 DEF TypeOK
  <2> QED
    BY <1>0, <2>1, <2>5, <2>6 DEF TypeOK, Kept
<1>5. ASSUME NEW s \in Session, ReadForRemove(s)
      PROVE  PhantomInv'
  <2>1. UNCHANGED <<userCache, sessionMap, loginCopy, todo, miss>>
    BY <1>5 DEF ReadForRemove, redis, lookups
  <2>2. PICK got \in GetUserCache(UserOf[s]) :
          closeCopy' = [closeCopy EXCEPT ![s] = got]
    BY <1>5 DEF ReadForRemove
  <2>3. \A t \in got : UserOf[t] = UserOf[s] /\ login[t] \in Listed
    BY RegistryAssumption DEF GetUserCache, TypeOK
  <2>4. NoPhantom' /\ LookupsPublished'
    BY <1>0, <2>1 DEF TypeOK, Kept
  <2>5. CopiesPublished'
    <3> SUFFICES ASSUME NEW r \in Session, NEW t \in loginCopy'[r] \cup closeCopy'[r]
                 PROVE  UserOf[t] = UserOf[r] /\ login'[t] \in Listed
      OBVIOUS
    <3>0. t \in Session
      BY NextTyped DEF TypeOK
    <3>1. CASE t \in loginCopy[r]
      BY <1>0, <3>0, <3>1 DEF Kept
    <3>2. CASE r = s /\ t \in got
      BY <1>0, <2>3, <3>0, <3>2 DEF Kept
    <3>3. CASE t \in closeCopy[r]
      BY <1>0, <3>0, <3>3 DEF Kept
    <3> QED
      BY <2>1, <2>2, <3>1, <3>2, <3>3 DEF TypeOK
  <2> QED
    BY <2>4, <2>5
<1>6. ASSUME NEW s \in Session, WriteForRemove(s)
      PROVE  PhantomInv'
  <2>1. UNCHANGED <<sessionMap, loginCopy, todo, miss>>
    BY <1>6 DEF WriteForRemove, lookups
  <2>2. closeCopy' = [closeCopy EXCEPT ![s] = {}]
    BY <1>6 DEF WriteForRemove
  <2>3. \/ UNCHANGED userCache
        \/ userCache' = [userCache EXCEPT ![UserOf[s]] = closeCopy[s] \ {s}]
    BY <1>6 DEF WriteForRemove, SaveUserCache
  <2>4. \A u \in User : \A t \in userCache'[u] :
          UserOf[t] = u /\ login'[t] \in Listed
    BY <1>0, <2>3 DEF TypeOK, Kept
  <2>5. \A r \in Session : closeCopy'[r] \subseteq closeCopy[r]
    BY <2>2 DEF TypeOK
  <2> QED
    BY <1>0, <2>1, <2>4, <2>5 DEF TypeOK, Kept
<1>7. ASSUME NEW w \in Worker, NEW u \in User, LookupStart(w, u)
      PROVE  PhantomInv'
  <2>1. UNCHANGED <<userCache, sessionMap, loginCopy, closeCopy, miss>>
    BY <1>7 DEF LookupStart, redis
  <2>2. PICK got \in GetUserCache(u) : todo' = [todo EXCEPT ![w] = got]
    BY <1>7 DEF LookupStart
  <2>3. \A t \in got : login[t] \in Listed
    BY DEF GetUserCache
  <2> QED
    BY <1>0, <2>1, <2>2, <2>3 DEF TypeOK, Kept, GetUserCache
<1>8. ASSUME NEW w \in Worker, NEW s \in Session, LookupGet(w, s)
      PROVE  PhantomInv'
  <2>1. UNCHANGED <<userCache, sessionMap, loginCopy, closeCopy>>
    BY <1>8 DEF LookupGet, redis
  <2>2. \A v \in Worker : todo'[v] \cup miss'[v] \subseteq todo[v] \cup miss[v]
    BY <1>8 DEF LookupGet, TypeOK
  <2> QED
    BY <1>0, <2>1, <2>2 DEF TypeOK, Kept
<1>9. ASSUME NEW w \in Worker, NEW s \in Session, LookupPutRemote(w, s)
      PROVE  PhantomInv'
  <2>1. UNCHANGED <<userCache, loginCopy, closeCopy, todo>>
    BY <1>9 DEF LookupPutRemote, redis
  <2>2. \A v \in Worker : miss'[v] \subseteq miss[v]
    BY <1>9 DEF LookupPutRemote, TypeOK
  <2>3. login[s] \in Listed
    BY <1>9 DEF LookupPutRemote
  <2>4. \A n \in Node, t \in Session :
          sessionMap'[n][t] = "remote" => sessionMap[n][t] = "remote" \/ t = s
    BY <1>9, RegistryAssumption DEF LookupPutRemote, TypeOK
  <2> QED
    BY <1>0, <2>1, <2>2, <2>3, <2>4 DEF TypeOK, Kept
<1>10. ASSUME NEW n \in Node, Crash(n)
       PROVE  PhantomInv'
  <2>1. UNCHANGED <<userCache, loginCopy, closeCopy>>
    BY <1>10 DEF Crash, redis
  <2>2. \A v \in Worker : todo'[v] \cup miss'[v] \subseteq todo[v] \cup miss[v]
    BY <1>10 DEF Crash
  <2>3. \A m \in Node, t \in Session :
          sessionMap'[m][t] = "remote" => sessionMap[m][t] = "remote"
    BY <1>10 DEF Crash, TypeOK
  <2> QED
    BY <1>0, <2>1, <2>2, <2>3 DEF TypeOK, Kept
<1>11. ASSUME NEW u \in User, ExpireUserCache(u)
       PROVE  PhantomInv'
  <2>1. UNCHANGED <<sessionMap, loginCopy, closeCopy, todo, miss>>
    BY <1>11 DEF ExpireUserCache, lookups
  <2>2. \A v \in User : userCache'[v] \subseteq userCache[v]
    BY <1>11 DEF ExpireUserCache, TypeOK
  <2> QED
    BY <1>0, <2>1, <2>2 DEF TypeOK, Kept
<1> QED
  <2>1. ASSUME NEW l \in Linked, ReceiveNotice(l) PROVE PhantomInv'
    BY <1>1, <2>1, ReceiveNoticeKeepsMaps DEF ReceiveNotice, redis, lookups
  <2> QED
    BY <1>1, <1>2, <1>3, <1>4, <1>5, <1>6, <1>7, <1>8, <1>9, <1>10, <1>11, <2>1
    DEF Next, LoginTask, CloseTask, LookupTask, ReceiveOnline, Bind,
        SaveSessionNode, IncBalance, NotifyOnline, ChannelInactive,
        RemoveLooksUp, DeleteSessionNode, DecrBalance, NotifyOffline,
        ExpireSessionCache, vars, redis, lookups

(* Nothing is published that no login has published.                       *)
THEOREM PhantomCorrect == Spec => []NoPhantom
<1>1. Init => PhantomInv
  BY DEF Init, PhantomInv, NoPhantom, CopiesPublished, LookupsPublished
<1>2. TypeOK /\ PhantomInv /\ [Next]_vars => PhantomInv'
  BY PhantomNext
<1>3. PhantomInv => NoPhantom
  BY DEF PhantomInv
<1> QED
  BY <1>1, <1>2, <1>3, TypeCorrect, PTL DEF Spec

-----------------------------------------------------------------------------
(* The registry implements the presence directory: its initial state is    *)
(* the directory's, and every step appears to a reader of the user cache   *)
(* as a session appearing, one disappearing, a user of whom track is lost, *)
(* or nothing.                                                             *)

Status == [s \in Session |-> StatusOf(s)]

LEMMA InitImplements == Init => Directory!Init
BY RegistryAssumption DEF Init, Directory!Init, StatusOf

(* A step that changes neither cache nor history, and publishes nobody.    *)
LEMMA NothingSeen ==
  ASSUME UNCHANGED <<userCache, disturbed>>,
         \A t \in Session : login'[t] \in Listed <=> login[t] \in Listed
  PROVE  Status' = Status
BY DEF Status, StatusOf

(* A step of user u's alone that enters u among the disturbed.             *)
LEMMA TrackLost ==
  ASSUME TypeOK, NEW u \in User, disturbed' = disturbed \cup {u},
         \A v \in User : v # u => userCache'[v] = userCache[v],
         \A t \in Session : UserOf[t] # u => login'[t] = login[t]
  PROVE  Directory!LoseTrack(u)
<1> DEFINE Lost == [s \in Session |-> IF UserOf[s] = u THEN "unknown" ELSE Status[s]]
<1>1. ASSUME NEW t \in Session PROVE StatusOf(t)' = Lost[t]
  <2>1. UserOf[t] \in User
    BY RegistryAssumption
  <2>2. CASE UserOf[t] = u
    BY <2>2 DEF StatusOf
  <2>3. CASE UserOf[t] # u
    BY <2>1, <2>3 DEF StatusOf, Status
  <2> QED
    BY <2>2, <2>3
<1>2. Status' = Lost
  BY <1>1 DEF Status
<1> QED
  BY <1>2 DEF Directory!LoseTrack, Status

LEMMA NextImplements ==
  TypeOK /\ NoPhantom /\ [Next]_vars => [Directory!Next]_Status
<1> SUFFICES ASSUME TypeOK, NoPhantom, [Next]_vars
             PROVE  Directory!Next \/ Status' = Status
  OBVIOUS
<1> USE DEF TypeOK
<1>1. CASE UNCHANGED <<login, userCache, disturbed>>
  BY <1>1, NothingSeen
<1>2. ASSUME NEW s \in Session,
             \/ ReceiveOnline(s) \/ Bind(s) \/ PutLocalSession(s)
             \/ ReadForAdd(s) \/ IncBalance(s) \/ NotifyOnline(s)
      PROVE  Status' = Status
  <2>1. UNCHANGED <<userCache, disturbed>>
    BY <1>2 DEF ReceiveOnline, Bind, PutLocalSession, ReadForAdd, IncBalance,
                NotifyOnline, redis, history
  <2>2. \A t \in Session : login'[t] \in Listed <=> login[t] \in Listed
    BY <1>2 DEF ReceiveOnline, Bind, PutLocalSession, ReadForAdd, IncBalance,
                NotifyOnline, LoginStep
  <2> QED
    BY <2>1, <2>2, NothingSeen
<1>3. ASSUME NEW s \in Session, SaveSessionNode(s)
      PROVE  Directory!Next \/ Status' = Status
  <2>1. /\ userCache' = userCache
        /\ UserOf[s] \in User
        /\ login' = [login EXCEPT ![s] = "cached"] /\ login[s] = "mapped"
    BY <1>3, RegistryAssumption DEF SaveSessionNode, LoginStep
  <2>2. \A t \in Session : login'[t] \in Listed <=> login[t] \in Listed
    BY <2>1
  <2>3. CASE disturbed' = disturbed
    BY <2>1, <2>2, <2>3, NothingSeen
  <2>4. CASE disturbed' = disturbed \cup {UserOf[s]}
    <3>1. Directory!LoseTrack(UserOf[s])
      BY <2>1, <2>4, TrackLost
    <3> QED
      BY <2>1, <3>1 DEF Directory!Next
  <2> QED
    BY <1>3, <2>3, <2>4 DEF SaveSessionNode, SetSessionCache
<1>4. ASSUME NEW s \in Session, WriteForAdd(s)
      PROVE  Directory!Next \/ Status' = Status
  <2>1. /\ UserOf[s] \in User
        /\ login' = [login EXCEPT ![s] = "listed"] /\ login[s] = "read"
        /\ SaveUserCache(UserOf[s], loginCopy[s], loginCopy[s] \cup {s})
    BY <1>4, RegistryAssumption DEF WriteForAdd, LoginStep
  <2>2. \A v \in User : v # UserOf[s] => userCache'[v] = userCache[v]
    BY <2>1 DEF SaveUserCache
  <2>3. CASE disturbed' = disturbed \cup {UserOf[s]}
    <3>1. Directory!LoseTrack(UserOf[s])
      BY <2>1, <2>2, <2>3, TrackLost
    <3> QED
      BY <2>1, <3>1 DEF Directory!Next
  <2>4. CASE /\ disturbed' = disturbed
             /\ UserOf[s] \notin disturbed
             /\ userCache' = [userCache EXCEPT ![UserOf[s]] = @ \cup {s}]
    <3>1. s \notin userCache[UserOf[s]]
      BY <2>1 DEF NoPhantom
    <3>2. Status[s] = "offline" /\ StatusOf(s)' = "online"
      BY <2>1, <2>4, <3>1 DEF Status, StatusOf
    <3>3. ASSUME NEW t \in Session, t # s PROVE StatusOf(t)' = StatusOf(t)
      <4>1. UserOf[t] \in User /\ login'[t] = login[t]
        BY <2>1, <3>3, RegistryAssumption
      <4>2. t \in userCache'[UserOf[t]] <=> t \in userCache[UserOf[t]]
        BY <2>4, <3>3, <4>1
      <4> QED
        BY <2>4, <4>1, <4>2 DEF StatusOf
    <3>4. Status' = [Status EXCEPT ![s] = "online"]
      BY <3>2, <3>3 DEF Status
    <3>5. Directory!Appear(s)
      BY <3>2, <3>4 DEF Directory!Appear, Status
    <3> QED
      BY <3>5 DEF Directory!Next
  <2> QED
    BY <2>1, <2>3, <2>4 DEF SaveUserCache
<1>5. ASSUME NEW s \in Session, WriteForRemove(s)
      PROVE  Directory!Next \/ Status' = Status
  <2>1. /\ UserOf[s] \in User
        /\ login' = login
        /\ SaveUserCache(UserOf[s], closeCopy[s], closeCopy[s] \ {s})
    BY <1>5, RegistryAssumption DEF WriteForRemove
  <2>2. \A v \in User : v # UserOf[s] => userCache'[v] = userCache[v]
    BY <2>1 DEF SaveUserCache
  <2>3. CASE disturbed' = disturbed \cup {UserOf[s]}
    <3>1. Directory!LoseTrack(UserOf[s])
      BY <2>1, <2>2, <2>3, TrackLost
    <3> QED
      BY <2>1, <3>1 DEF Directory!Next
  <2>4. CASE /\ disturbed' = disturbed
             /\ UserOf[s] \notin disturbed
             /\ userCache' = [userCache EXCEPT ![UserOf[s]] = @ \ {s}]
    <3>1. ASSUME NEW t \in Session, t # s PROVE StatusOf(t)' = StatusOf(t)
      <4>1. UserOf[t] \in User
        BY RegistryAssumption
      <4>2. t \in userCache'[UserOf[t]] <=> t \in userCache[UserOf[t]]
        BY <2>4, <3>1, <4>1
      <4> QED
        BY <2>1, <2>4, <4>2 DEF StatusOf
    <3>2. CASE s \in userCache[UserOf[s]]
      <4>1. Status[s] = "online" /\ StatusOf(s)' = "gone"
        BY <2>1, <2>4, <3>2 DEF Status, StatusOf, NoPhantom
      <4>2. Status' = [Status EXCEPT ![s] = "gone"]
        BY <3>1, <4>1 DEF Status
      <4>3. Directory!Disappear(s)
        BY <4>1, <4>2 DEF Directory!Disappear, Status
      <4> QED
        BY <4>3 DEF Directory!Next
    <3>3. CASE s \notin userCache[UserOf[s]]
      <4>1. StatusOf(s)' = StatusOf(s)
        BY <2>1, <2>4, <3>3 DEF StatusOf
      <4> QED
        BY <3>1, <4>1 DEF Status
    <3> QED
      BY <3>2, <3>3
  <2> QED
    BY <2>1, <2>3, <2>4 DEF SaveUserCache
<1>6. ASSUME NEW s \in Session, DeleteSessionNode(s)
      PROVE  Directory!Next \/ Status' = Status
  <2>1. UserOf[s] \in User /\ UNCHANGED <<login, userCache>>
    BY <1>6, RegistryAssumption DEF DeleteSessionNode
  <2>2. CASE disturbed' = disturbed
    BY <2>1, <2>2, NothingSeen
  <2>3. CASE disturbed' = disturbed \cup {UserOf[s]}
    <3>1. Directory!LoseTrack(UserOf[s])
      BY <2>1, <2>3, TrackLost
    <3> QED
      BY <2>1, <3>1 DEF Directory!Next
  <2> QED
    BY <1>6, <2>2, <2>3 DEF DeleteSessionNode, SetSessionCache
<1>7. ASSUME NEW u \in User, ExpireUserCache(u)
      PROVE  Directory!Next
  <2>1. Directory!LoseTrack(u)
    BY <1>7, TrackLost DEF ExpireUserCache
  <2> QED
    BY <2>1 DEF Directory!Next
<1>8. ASSUME NEW s \in Session,
             \/ ChannelInactive(s) \/ RemoveLooksUp(s) \/ ReadForRemove(s)
             \/ DropFromMap(s) \/ DecrBalance(s) \/ NotifyOffline(s)
             \/ ExpireSessionCache(s)
      PROVE  UNCHANGED <<login, userCache, disturbed>>
  BY <1>8 DEF ChannelInactive, RemoveLooksUp, ReadForRemove, DropFromMap,
              DecrBalance, NotifyOffline, ExpireSessionCache, redis, history
<1>9. ASSUME \/ \E w \in Worker : LookupTask(w) \/ \E u \in User : LookupStart(w, u)
             \/ \E l \in Linked : ReceiveNotice(l)
             \/ \E n \in Node : Crash(n)
             \/ UNCHANGED vars
      PROVE  UNCHANGED <<login, userCache, disturbed>>
  BY <1>9 DEF LookupTask, LookupGet, LookupPutRemote, LookupStart,
              ReceiveNotice, Crash, vars, redis, history
<1> QED
  BY <1>1, <1>2, <1>3, <1>4, <1>5, <1>6, <1>7, <1>8, <1>9
  DEF Next, LoginTask, CloseTask

(* Every behaviour of the registry is one of the presence directory.       *)
THEOREM PresenceImplemented == Spec => ImplementsPresence
<1>1. TypeOK /\ NoPhantom /\ [Next]_vars => [Directory!Next]_Status
  BY NextImplements
<1> QED
  BY <1>1, InitImplements, TypeCorrect, PhantomCorrect, PTL
  DEF Spec, ImplementsPresence, Directory!Spec, Status

=============================================================================
