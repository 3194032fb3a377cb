--------------------------- MODULE SessionMapProofs ---------------------------
(***************************************************************************)
(* Proofs about the session maps: a live LocalSession is never replaced by *)
(* a RemoteSession, and a session that has logged out is forgotten;        *)
(* the load counter of a node at rest is the number of its local sessions. *)
(***************************************************************************)
EXTENDS SessionRegistryProofs

(* What keeps LocalNotShadowed: an id that a worker of the session's own   *)
(* node missed in the map has left it for good, only a mapped login is     *)
(* local, and only on its home, and a logout that got past its lookup      *)
(* found a mapped login.                                                   *)
Gone == {"unmapped", "removed", "closed"}

MissedIsGone ==
  \A w \in Worker : \A s \in miss[w] :
    WorkerOn[w] = HomeOf[s] =>
      close[s] \in Gone /\ sessionMap[HomeOf[s]][s] # "local"

LocalIsMapped ==
  \A n \in Node, s \in Session :
    sessionMap[n][s] = "local" => n = HomeOf[s] /\ login[s] \in Mapped

FoundIsMapped ==
  \A s \in Session :
    close[s] \in {"found", "read", "unlisted", "uncached", "unmapped", "removed"}
    => login[s] \in Mapped

UnmappedIsNotLocal ==
  \A s \in Session :
    close[s] \in {"unmapped", "removed"} => sessionMap[HomeOf[s]][s] # "local"

LocalInv ==
  /\ LocalNotShadowed
  /\ MissedIsGone
  /\ LocalIsMapped
  /\ FoundIsMapped
  /\ UnmappedIsNotLocal

LEMMA LocalNext ==
  TypeOK /\ PhantomInv /\ LocalInv /\ [Next]_vars => LocalInv'
<1> SUFFICES ASSUME TypeOK, PhantomInv, LocalInv, [Next]_vars PROVE LocalInv'
  OBVIOUS
<1> USE DEF LocalInv, LocalNotShadowed, MissedIsGone, LocalIsMapped,
            FoundIsMapped, UnmappedIsNotLocal, Gone
<1> HIDE DEF LoginSteps, CloseSteps, MapValues, Bound, Mapped, Listed
<1>0. /\ \A s \in Session : HomeOf[s] \in Node
      /\ \A w \in Worker : WorkerOn[w] \in Node
  BY RegistryAssumption
<1>1. CASE UNCHANGED <<alive, login, close, sessionMap, miss>>
  BY <1>1
<1>2. ASSUME NEW s \in Session,
             \/ ReceiveOnline(s) \/ Bind(s) \/ SaveSessionNode(s)
             \/ ReadForAdd(s) \/ WriteForAdd(s) \/ IncBalance(s)
             \/ NotifyOnline(s)
      PROVE  LocalInv'
  <2>1. UNCHANGED <<alive, close, sessionMap, miss>>
    BY <1>2 DEF ReceiveOnline, Bind, SaveSessionNode, ReadForAdd, WriteForAdd,
                IncBalance, NotifyOnline, lookups
  <2>2. \A t \in Session : login'[t] \in Mapped <=> login[t] \in Mapped
    BY <1>2 DEF ReceiveOnline, Bind, SaveSessionNode, ReadForAdd, WriteForAdd,
                IncBalance, NotifyOnline, LoginStep, TypeOK, Mapped, Bound,
                LoginSteps
  <2> QED
    BY <1>0, <2>1, <2>2 DEF TypeOK
<1>3. ASSUME NEW s \in Session, PutLocalSession(s)
      PROVE  LocalInv'
  <2>1. /\ UNCHANGED <<alive, close, miss>>
        /\ login[s] = "bound"
        /\ login' = [login EXCEPT ![s] = "mapped"]
        /\ sessionMap' = [sessionMap EXCEPT ![HomeOf[s]][s] = "local"]
    BY <1>3 DEF PutLocalSession, LoginStep, lookups
  <2>2. /\ login[s] \notin Mapped
        /\ \A t \in Session : login'[t] \in Mapped <=> login[t] \in Mapped \/ t = s
    BY <2>1 DEF Mapped, Bound, LoginSteps, TypeOK
  <2>3. \A w \in Worker : s \notin miss[w]
    BY <2>1 DEF PhantomInv, LookupsPublished, Listed
  <2>4. \A n \in Node, t \in Session :
          sessionMap'[n][t] = IF n = HomeOf[s] /\ t = s THEN "local"
                                                        ELSE sessionMap[n][t]
    BY <1>0, <2>1 DEF TypeOK
  <2>5. LocalNotShadowed' /\ LocalIsMapped'
    BY <1>0, <2>1, <2>2, <2>4
  <2>6. FoundIsMapped' /\ UnmappedIsNotLocal'
    BY <1>0, <2>1, <2>2, <2>4
  <2>7. MissedIsGone'
    BY <1>0, <2>1, <2>3, <2>4 DEF TypeOK
  <2> QED
    BY <2>5, <2>6, <2>7
<1>4. ASSUME NEW s \in Session,
             \/ ChannelInactive(s) \/ ReadForRemove(s) \/ WriteForRemove(s)
             \/ DeleteSessionNode(s) \/ DecrBalance(s) \/ NotifyOffline(s)
      PROVE  LocalInv'
  <2>1. UNCHANGED <<alive, login, sessionMap, miss>>
    BY <1>4 DEF ChannelInactive, ReadForRemove, WriteForRemove,
                DeleteSessionNode, DecrBalance, NotifyOffline, lookups
  <2>2. \A t \in Session :
          /\ close[t] \in Gone => close'[t] \in Gone
          /\ close'[t] \in {"unmapped", "removed"}
               => close[t] \in {"unmapped", "removed"}
          /\ close'[t] \in {"found", "read", "unlisted", "uncached"}
               => close[t] \in {"found", "read", "unlisted", "uncached"}
          /\ close'[t] = close[t] \/ close'[t] = "closed"
               \/ (close[t] \notin Gone /\ close'[t] \notin Gone)
               \/ close[t] = "unmapped"
    BY <1>4 DEF ChannelInactive, ReadForRemove, WriteForRemove,
                DeleteSessionNode, DecrBalance, NotifyOffline, CloseStep, TypeOK
  <2> QED
    BY <1>0, <2>1, <2>2 DEF TypeOK
<1>5. ASSUME NEW s \in Session, RemoveLooksUp(s)
      PROVE  LocalInv'
  <2>1. /\ UNCHANGED <<alive, login, sessionMap, miss>>
        /\ close[s] = "closing"
        /\ close' = [close EXCEPT ![s] = IF sessionMap[HomeOf[s]][s] = "none"
                                         THEN "absent" ELSE "found"]
    BY <1>5 DEF RemoveLooksUp, CloseStep, lookups
  <2>2. close'[s] = "found" => login[s] \in Mapped
    <3>1. sessionMap[HomeOf[s]][s] = "local" => login[s] \in Mapped
      BY <1>0
    <3>2. sessionMap[HomeOf[s]][s] = "remote" => login[s] \in Mapped
      BY <1>0 DEF PhantomInv, NoPhantom, Listed, Mapped, Bound, LoginSteps
    <3> QED
      BY <1>0, <2>1, <3>1, <3>2 DEF TypeOK, MapValues
  <2>3. \A t \in Session : close'[t] = close[t] \/ t = s
    BY <2>1 DEF TypeOK
  <2>4. close'[s] \in {"absent", "found"}
    BY <2>1 DEF TypeOK
  <2> QED
    BY <1>0, <2>1, <2>2, <2>3, <2>4 DEF TypeOK
<1>6. ASSUME NEW s \in Session, DropFromMap(s)
      PROVE  LocalInv'
  <2>1. /\ UNCHANGED <<alive, login, miss>>
        /\ close[s] = "uncached"
        /\ close' = [close EXCEPT ![s] = "unmapped"]
        /\ sessionMap' = [sessionMap EXCEPT ![HomeOf[s]][s] = "none"]
    BY <1>6 DEF DropFromMap, CloseStep, lookups
  <2>2. \A n \in Node, t \in Session :
          sessionMap'[n][t] = IF n = HomeOf[s] /\ t = s THEN "none"
                                                        ELSE sessionMap[n][t]
    BY <1>0, <2>1 DEF TypeOK
  <2>3. \A t \in Session : close'[t] = IF t = s THEN "unmapped" ELSE close[t]
    BY <2>1 DEF TypeOK
  <2>4. LocalNotShadowed' /\ LocalIsMapped'
    BY <1>0, <2>1, <2>2, <2>3
  <2>5. FoundIsMapped' /\ UnmappedIsNotLocal'
    BY <1>0, <2>1, <2>2, <2>3
  <2>6. MissedIsGone'
    BY <1>0, <2>1, <2>2, <2>3 DEF TypeOK
  <2> QED
    BY <2>4, <2>5, <2>6
<1>7. ASSUME NEW w \in Worker, NEW s \in Session, LookupGet(w, s)
      PROVE  LocalInv'
  <2>1. UNCHANGED <<alive, login, close, sessionMap>>
    BY <1>7 DEF LookupGet
  <2>2. /\ alive[WorkerOn[w]]
        /\ s \in todo[w]
        /\ miss' = [miss EXCEPT ![w] =
                      IF sessionMap[WorkerOn[w]][s] = "none" THEN {s} ELSE {}]
    BY <1>7 DEF LookupGet
  <2>3. login[s] \in Mapped
    BY <2>2 DEF PhantomInv, LookupsPublished, Listed, Mapped, Bound, LoginSteps
  <2>4. ASSUME WorkerOn[w] = HomeOf[s], sessionMap[WorkerOn[w]][s] = "none"
        PROVE  close[s] \in Gone
    BY <2>2, <2>3, <2>4
  <2>5. MissedIsGone'
    <3> SUFFICES ASSUME NEW v \in Worker, NEW t \in miss'[v],
                        WorkerOn[v] = HomeOf[t]
                 PROVE  close[t] \in Gone /\ sessionMap[HomeOf[t]][t] # "local"
      BY <2>1
    <3>1. CASE v = w
      BY <2>2, <2>4, <3>1 DEF TypeOK
    <3>2. CASE v # w
      BY <2>2, <3>2 DEF TypeOK
    <3> QED
      BY <3>1, <3>2
  <2> QED
    BY <2>1, <2>5
<1>8. ASSUME NEW w \in Worker, NEW s \in Session, LookupPutRemote(w, s)
      PROVE  LocalInv'
  <2>1. /\ UNCHANGED <<alive, login, close>>
        /\ s \in miss[w]
        /\ sessionMap' = [sessionMap EXCEPT ![WorkerOn[w]][s] = "remote"]
        /\ miss' = [miss EXCEPT ![w] = {}]
    BY <1>8 DEF LookupPutRemote
  <2>2. WorkerOn[w] = HomeOf[s] => close[s] \in Gone
    BY <2>1
  <2>3. \A n \in Node, t \in Session :
          sessionMap'[n][t] = IF n = WorkerOn[w] /\ t = s THEN "remote"
                                                          ELSE sessionMap[n][t]
    BY <1>0, <2>1 DEF TypeOK
  <2>4. \A v \in Worker : miss'[v] \subseteq miss[v]
    BY <2>1 DEF TypeOK
  <2>5. LocalNotShadowed' /\ LocalIsMapped'
    BY <1>0, <2>1, <2>2, <2>3
  <2>6. FoundIsMapped' /\ UnmappedIsNotLocal'
    BY <1>0, <2>1, <2>3
  <2>7. MissedIsGone'
    BY <1>0, <2>1, <2>3, <2>4 DEF TypeOK
  <2> QED
    BY <2>5, <2>6, <2>7
<1>9. ASSUME NEW n \in Node, Crash(n)
      PROVE  LocalInv'
  <2>1. /\ UNCHANGED <<login, close>>
        /\ alive' = [alive EXCEPT ![n] = FALSE]
        /\ sessionMap' = [sessionMap EXCEPT ![n] = [s \in Session |-> "none"]]
        /\ miss' = [w \in Worker |-> IF WorkerOn[w] = n THEN {} ELSE miss[w]]
    BY <1>9 DEF Crash
  <2>2. \A m \in Node, t \in Session :
          sessionMap'[m][t] = IF m = n THEN "none" ELSE sessionMap[m][t]
    BY <2>1 DEF TypeOK
  <2>3. \A m \in Node : alive'[m] => alive[m] /\ m # n
    BY <2>1 DEF TypeOK
  <2>4. \A v \in Worker : miss'[v] \subseteq miss[v]
    BY <2>1
  <2>5. LocalNotShadowed' /\ LocalIsMapped'
    BY <1>0, <2>1, <2>2, <2>3
  <2>6. FoundIsMapped' /\ UnmappedIsNotLocal'
    BY <1>0, <2>1, <2>2
  <2>7. MissedIsGone'
    BY <1>0, <2>1, <2>2, <2>4 DEF TypeOK
  <2> QED
    BY <2>5, <2>6, <2>7
<1> QED
  <2>1. ASSUME NEW l \in Linked, ReceiveNotice(l) PROVE LocalInv'
    BY <1>1, <2>1, ReceiveNoticeKeepsMaps DEF ReceiveNotice, lookups
  <2> QED
    BY <1>1, <1>2, <1>3, <1>4, <1>5, <1>6, <1>7, <1>8, <1>9, <2>1
    DEF Next, LoginTask, CloseTask, LookupTask, LookupStart, ExpireUserCache,
        ExpireSessionCache, vars, lookups

(* No lookup ever puts a RemoteSession in the place of a LocalSession that *)
(* its own logout has not yet removed.                                     *)
THEOREM LocalCorrect == Spec => []LocalNotShadowed
<1>1. Init => PhantomInv /\ LocalInv
  BY RegistryAssumption
  DEF Init, PhantomInv, NoPhantom, CopiesPublished, LookupsPublished, LocalInv,
      LocalNotShadowed, MissedIsGone, LocalIsMapped, FoundIsMapped,
      UnmappedIsNotLocal, Mapped, Bound, LoginSteps
<1>2. TypeOK /\ PhantomInv /\ LocalInv /\ [Next]_vars => (PhantomInv /\ LocalInv)'
  BY PhantomNext, LocalNext
<1>3. LocalInv => LocalNotShadowed
  BY DEF LocalInv
<1> QED
  BY <1>1, <1>2, <1>3, TypeCorrect, PTL DEF Spec

-----------------------------------------------------------------------------
(* What keeps ClosedIsForgotten: a channel that is not early closes only   *)
(* when its login has written the user cache, and its logout then finds    *)
(* the session in the map.                                                 *)

ClosedIsListed ==
  \A s \in Session :
    s \notin early /\ close[s] # "open"
    => login[s] \in Listed /\ close[s] # "absent"

ForgottenInv == ClosedIsForgotten /\ ClosedIsListed

LEMMA ForgottenNext ==
  TypeOK /\ LocalNotShadowed /\ ForgottenInv /\ [Next]_vars => ForgottenInv'
<1> SUFFICES ASSUME TypeOK, LocalNotShadowed, ForgottenInv, [Next]_vars
             PROVE  ForgottenInv'
  OBVIOUS
<1> DEFINE Unlisted == {"unlisted", "uncached", "unmapped", "removed", "closed"}
           Uncached == {"uncached", "unmapped", "removed", "closed"}
           Kept == \A t \in Session : login[t] \in Listed => login'[t] \in Listed
<1>0. Kept
  BY ListedForever
<1> USE RegistryAssumption DEF ForgottenInv, ClosedIsForgotten, ClosedIsListed
<1> HIDE DEF Listed
<1>1. CASE UNCHANGED <<close, userCache, sessionCache, early, disturbed>>
  BY <1>0, <1>1
<1>2. ASSUME NEW s \in Session, SaveSessionNode(s)
      PROVE  ForgottenInv'
  <2>1. /\ UNCHANGED <<close, userCache, early>>
        /\ login[s] = "mapped"
        /\ disturbed \subseteq disturbed'
        /\ sessionCache' \subseteq sessionCache \cup {s}
    BY <1>2 DEF SaveSessionNode, LoginStep, SetSessionCache
  <2>2. s \in early \/ close[s] = "open"
    BY <2>1 DEF Listed
  <2> QED
    BY <1>0, <2>1, <2>2
<1>3. ASSUME NEW s \in Session, WriteForAdd(s)
      PROVE  ForgottenInv'
  <2>1. /\ UNCHANGED <<close, sessionCache, early>>
        /\ login[s] = "read"
        /\ disturbed \subseteq disturbed'
    BY <1>3 DEF WriteForAdd, LoginStep, SaveUserCache
  <2>2. s \in early \/ close[s] = "open"
    BY <2>1 DEF Listed
  <2>3. ASSUME NEW t \in Session, UserOf[t] \notin disturbed',
               t \in userCache'[UserOf[t]]
        PROVE  t \in userCache[UserOf[t]] \/ t = s
    BY <1>3, <2>3 DEF WriteForAdd, SaveUserCache, TypeOK
  <2> QED
    BY <1>0, <2>1, <2>2, <2>3
<1>4. ASSUME NEW s \in Session, ChannelInactive(s)
      PROVE  ForgottenInv'
  <2>1. /\ UNCHANGED <<login, userCache, sessionCache, disturbed>>
        /\ close' = [close EXCEPT ![s] = IF login[s] \in Bound THEN "closing"
                                                               ELSE "ignored"]
        /\ early' = IF login[s] \in Listed THEN early ELSE early \cup {s}
    BY <1>4 DEF ChannelInactive, CloseStep, redis
  <2>2. close'[s] \in {"closing", "ignored"}
    BY <2>1 DEF TypeOK
  <2>3. \A t \in Session : t # s => close'[t] = close[t]
    BY <2>1 DEF TypeOK
  <2>4. early \subseteq early' /\ (s \notin early' => login[s] \in Listed)
    BY <2>1
  <2> QED
    BY <2>1, <2>2, <2>3, <2>4
<1>5. ASSUME NEW s \in Session, RemoveLooksUp(s)
      PROVE  ForgottenInv'
  <2>1. /\ UNCHANGED <<login, userCache, sessionCache, early, disturbed>>
        /\ alive[HomeOf[s]] /\ close[s] = "closing"
        /\ close' = [close EXCEPT ![s] = IF sessionMap[HomeOf[s]][s] = "none"
                                         THEN "absent" ELSE "found"]
    BY <1>5 DEF RemoveLooksUp, CloseStep, redis, history
  <2>2. close'[s] \in {"absent", "found"}
    BY <2>1 DEF TypeOK
  <2>3. \A t \in Session : t # s => close'[t] = close[t]
    BY <2>1 DEF TypeOK
  <2>4. s \notin early => close'[s] # "absent"
    <3>1. s \notin early => login[s] \in Mapped
      BY <2>1 DEF Listed, Mapped, Bound, LoginSteps
    <3>2. s \notin early => sessionMap[HomeOf[s]][s] = "local"
      BY <2>1, <3>1 DEF LocalNotShadowed
    <3> QED
      BY <2>1, <3>2 DEF TypeOK
  <2> QED
    BY <2>1, <2>2, <2>3, <2>4
<1>6. ASSUME NEW s \in Session,
             \/ ReadForRemove(s) \/ DropFromMap(s) \/ DecrBalance(s)
             \/ NotifyOffline(s)
      PROVE  ForgottenInv'
  <2>1. UNCHANGED <<login, userCache, sessionCache, early, disturbed>>
    BY <1>6 DEF ReadForRemove, DropFromMap, DecrBalance, NotifyOffline, redis,
                history
  <2>2. \A t \in Session :
          /\ close'[t] # "open" => close[t] # "open"
          /\ close'[t] = "absent" => close[t] = "absent"
          /\ close'[t] \in Unlisted => close[t] \in Unlisted \cup {"absent"}
          /\ close'[t] \in Uncached => close[t] \in Uncached \cup {"absent"}
    BY <1>6 DEF ReadForRemove, DropFromMap, DecrBalance, NotifyOffline,
                CloseStep, TypeOK
  <2> QED
    BY <2>1, <2>2
<1>7. ASSUME NEW s \in Session, WriteForRemove(s)
      PROVE  ForgottenInv'
  <2>1. /\ UNCHANGED <<login, sessionCache, early>>
        /\ close[s] = "read"
        /\ close' = [close EXCEPT ![s] = "unlisted"]
        /\ disturbed \subseteq disturbed'
    BY <1>7 DEF WriteForRemove, CloseStep, SaveUserCache
  <2>2. ASSUME NEW t \in Session, UserOf[t] \notin disturbed',
               t \in userCache'[UserOf[t]]
        PROVE  t \in userCache[UserOf[t]] /\ t # s
    BY <1>7, <2>2 DEF WriteForRemove, SaveUserCache, TypeOK
  <2>3. close'[s] = "unlisted" /\ \A t \in Session : t # s => close'[t] = close[t]
    BY <2>1 DEF TypeOK
  <2> QED
    BY <2>1, <2>2, <2>3
<1>8. ASSUME NEW s \in Session, DeleteSessionNode(s)
      PROVE  ForgottenInv'
  <2>1. /\ UNCHANGED <<login, userCache, early>>
        /\ close[s] = "unlisted"
        /\ close' = [close EXCEPT ![s] = "uncached"]
        /\ disturbed \subseteq disturbed'
        /\ sessionCache' \subseteq sessionCache
        /\ UserOf[s] \notin disturbed' => s \notin sessionCache'
    BY <1>8 DEF DeleteSessionNode, CloseStep, SetSessionCache
  <2>2. close'[s] = "uncached" /\ \A t \in Session : t # s => close'[t] = close[t]
    BY <2>1 DEF TypeOK
  <2> QED
    BY <2>1, <2>2
<1>9. ASSUME NEW u \in User, ExpireUserCache(u)
      PROVE  ForgottenInv'
  <2>1. /\ UNCHANGED <<login, close, sessionCache, early>>
        /\ disturbed \subseteq disturbed'
        /\ \A v \in User : userCache'[v] \subseteq userCache[v]
    BY <1>9 DEF ExpireUserCache, TypeOK
  <2> QED
    BY <2>1
<1>10. ASSUME NEW s \in Session, ExpireSessionCache(s)
       PROVE  ForgottenInv'
  <2>1. /\ UNCHANGED <<login, close, userCache, early, disturbed>>
        /\ sessionCache' \subseteq sessionCache
    BY <1>10 DEF ExpireSessionCache, history
  <2> QED
    BY <2>1
<1> QED
  BY <1>1, <1>2, <1>3, <1>4, <1>5, <1>6, <1>7, <1>8, <1>9, <1>10
  DEF Next, LoginTask, CloseTask, LookupTask, ReceiveOnline, Bind,
      PutLocalSession, ReadForAdd, IncBalance, NotifyOnline, LookupStart,
      LookupGet, LookupPutRemote, ReceiveNotice, Crash, vars, redis, history

(* A session that logged out after its login was written stays out of the  *)
(* user's cache and of the session cache, unless its user is disturbed.    *)
THEOREM ForgottenCorrect == Spec => []ClosedIsForgotten
<1>1. Init => ForgottenInv
  BY DEF Init, ForgottenInv, ClosedIsForgotten, ClosedIsListed
<1>2. TypeOK /\ LocalNotShadowed /\ ForgottenInv /\ [Next]_vars => ForgottenInv'
  BY ForgottenNext
<1>3. ForgottenInv => ClosedIsForgotten
  BY DEF ForgottenInv
<1> QED
  BY <1>1, <1>2, <1>3, TypeCorrect, LocalCorrect, PTL DEF Spec

-----------------------------------------------------------------------------
(* The load counter.                                                       *)

(* While logins and logouts are under way the counter is the number of the *)
(* logins counted so far less that of the logouts.  A logout that found no *)
(* map entry is never counted, and leaves the session that its login puts  *)
(* into the map afterwards there.                                          *)
Counted(n) ==
  {s \in Session : HomeOf[s] = n /\ login[s] \in {"counted", "done"}}

Uncounted(n) ==
  {s \in Session : /\ HomeOf[s] = n
                   /\ login[s] \in Mapped
                   /\ close[s] \in {"removed", "closed"}
                   /\ sessionMap[n][s] # "local"}

BalanceInv ==
  \A n \in Node :
    alive[n] => balance[n] = Cardinality(Counted(n)) - Cardinality(Uncounted(n))

LEMMA CountsFinite ==
  ASSUME NEW n \in Node
  PROVE  /\ IsFiniteSet(Counted(n)) /\ Cardinality(Counted(n)) \in Nat
         /\ IsFiniteSet(Uncounted(n)) /\ Cardinality(Uncounted(n)) \in Nat
<1>1. Counted(n) \subseteq Session /\ Uncounted(n) \subseteq Session
  BY DEF Counted, Uncounted
<1>2. IsFiniteSet(Counted(n)) /\ IsFiniteSet(Uncounted(n))
  BY <1>1, RegistryAssumption, FS_Subset
<1> QED
  BY <1>2, FS_CardinalityType

(* A step that counts nobody in or out and leaves the counter alone.       *)
LEMMA SameCounts ==
  ASSUME BalanceInv,
         \A n \in Node : alive'[n] =>
           /\ alive[n] /\ balance'[n] = balance[n]
           /\ \A s \in Session : HomeOf[s] = n =>
                /\ login'[s] \in {"counted", "done"}
                     <=> login[s] \in {"counted", "done"}
                /\ (/\ login'[s] \in Mapped
                    /\ close'[s] \in {"removed", "closed"}
                    /\ sessionMap'[n][s] # "local")
                   <=> (/\ login[s] \in Mapped
                        /\ close[s] \in {"removed", "closed"}
                        /\ sessionMap[n][s] # "local")
  PROVE  BalanceInv'
<1> SUFFICES ASSUME NEW n \in Node, alive'[n]
             PROVE  balance'[n] =
                      Cardinality(Counted(n)') - Cardinality(Uncounted(n)')
  BY DEF BalanceInv
<1>1. Counted(n)' = Counted(n)
  BY DEF Counted
<1>2. Uncounted(n)' = Uncounted(n)
  BY DEF Uncounted
<1> QED
  BY <1>1, <1>2 DEF BalanceInv

LEMMA BalanceNext ==
  TypeOK /\ LocalInv /\ BalanceInv /\ [Next]_vars => BalanceInv'
<1> SUFFICES ASSUME TypeOK, LocalInv, BalanceInv, [Next]_vars PROVE BalanceInv'
  OBVIOUS
<1> HIDE DEF LoginSteps, CloseSteps, MapValues, Bound, Mapped, Listed
<1>0. /\ \A s \in Session : HomeOf[s] \in Node
      /\ \A w \in Worker : WorkerOn[w] \in Node
  BY RegistryAssumption
<1>1. CASE UNCHANGED <<alive, login, close, sessionMap, balance>>
  BY <1>1, SameCounts
<1>2. ASSUME NEW s \in Session,
             \/ ReceiveOnline(s) \/ Bind(s) \/ SaveSessionNode(s)
             \/ ReadForAdd(s) \/ WriteForAdd(s) \/ NotifyOnline(s)
      PROVE  BalanceInv'
  <2>1. UNCHANGED <<alive, close, sessionMap, balance>>
    BY <1>2 DEF ReceiveOnline, Bind, SaveSessionNode, ReadForAdd, WriteForAdd,
                NotifyOnline
  <2>2. \A t \in Session :
          /\ login'[t] \in Mapped <=> login[t] \in Mapped
          /\ login'[t] \in {"counted", "done"} <=> login[t] \in {"counted", "done"}
    BY <1>2 DEF ReceiveOnline, Bind, SaveSessionNode, ReadForAdd, WriteForAdd,
                NotifyOnline, LoginStep, TypeOK, Mapped, Bound, LoginSteps
  <2> QED
    BY <2>1, <2>2, SameCounts
<1>3. ASSUME NEW s \in Session, PutLocalSession(s)
      PROVE  BalanceInv'
  <2>1. /\ UNCHANGED <<alive, close, balance>>
        /\ login[s] = "bound"
        /\ login' = [login EXCEPT ![s] = "mapped"]
        /\ sessionMap' = [sessionMap EXCEPT ![HomeOf[s]][s] = "local"]
    BY <1>3 DEF PutLocalSession, LoginStep
  <2>2. login[s] \notin Mapped
    BY <2>1 DEF Mapped, Bound
  <2>3. \A t \in Session : t # s => login'[t] = login[t]
    BY <2>1 DEF TypeOK
  <2>4. login'[s] = "mapped"
    BY <2>1 DEF TypeOK
  <2>5. sessionMap'[HomeOf[s]][s] = "local"
    BY <1>0, <2>1 DEF TypeOK
  <2>6. \A n \in Node, t \in Session :
          t # s => sessionMap'[n][t] = sessionMap[n][t]
    BY <1>0, <2>1 DEF TypeOK
  <2> QED
    BY <2>1, <2>2, <2>3, <2>4, <2>5, <2>6, SameCounts
<1>4. ASSUME NEW s \in Session, IncBalance(s)
      PROVE  BalanceInv'
  <2>1. /\ UNCHANGED <<alive, close, sessionMap>>
        /\ login[s] = "listed"
        /\ login' = [login EXCEPT ![s] = "counted"]
        /\ balance' = [balance EXCEPT ![HomeOf[s]] = @ + 1]
    BY <1>4 DEF IncBalance, LoginStep
  <2> SUFFICES ASSUME NEW n \in Node, alive'[n]
               PROVE  balance'[n] =
                        Cardinality(Counted(n)') - Cardinality(Uncounted(n)')
    BY DEF BalanceInv
  <2>2. \A t \in Session : login'[t] = IF t = s THEN "counted" ELSE login[t]
    BY <2>1 DEF TypeOK
  <2>3. Uncounted(n)' = Uncounted(n)
    <3>1. \A t \in Session : login'[t] \in Mapped <=> login[t] \in Mapped
      BY <2>1, <2>2 DEF Mapped, Bound, LoginSteps
    <3> QED
      BY <2>1, <3>1 DEF Uncounted
  <2>4. CASE n = HomeOf[s]
    <3>1. Counted(n)' = Counted(n) \cup {s} /\ s \notin Counted(n)
      BY <2>1, <2>2, <2>4 DEF Counted
    <3>2. Cardinality(Counted(n)') = Cardinality(Counted(n)) + 1
      BY <3>1, CountsFinite, FS_AddElement
    <3>3. balance'[n] = balance[n] + 1 /\ balance[n] \in Int
      BY <2>1, <2>4 DEF TypeOK
    <3> QED
      BY <2>1, <2>3, <3>2, <3>3, CountsFinite DEF BalanceInv
  <2>5. CASE n # HomeOf[s]
    <3>1. Counted(n)' = Counted(n)
      BY <2>2, <2>5 DEF Counted
    <3>2. balance'[n] = balance[n]
      BY <1>0, <2>1, <2>5 DEF TypeOK
    <3> QED
      BY <2>1, <2>3, <3>1, <3>2 DEF BalanceInv
  <2> QED
    BY <2>4, <2>5
<1>5. ASSUME NEW s \in Session,
             \/ ChannelInactive(s) \/ RemoveLooksUp(s) \/ ReadForRemove(s)
             \/ WriteForRemove(s) \/ DeleteSessionNode(s)
      PROVE  BalanceInv'
  <2>1. UNCHANGED <<alive, login, sessionMap, balance>>
    BY <1>5 DEF ChannelInactive, RemoveLooksUp, ReadForRemove, WriteForRemove,
                DeleteSessionNode
  <2>2. \A t \in Session :
          close'[t] \in {"removed", "closed"} <=> close[t] \in {"removed", "closed"}
    BY <1>5 DEF ChannelInactive, RemoveLooksUp, ReadForRemove, WriteForRemove,
                DeleteSessionNode, CloseStep, TypeOK
  <2> QED
    BY <2>1, <2>2, SameCounts
<1>6. ASSUME NEW s \in Session, DropFromMap(s)
      PROVE  BalanceInv'
  <2>1. /\ UNCHANGED <<alive, login, balance>>
        /\ close[s] = "uncached"
        /\ close' = [close EXCEPT ![s] = "unmapped"]
        /\ sessionMap' = [sessionMap EXCEPT ![HomeOf[s]][s] = "none"]
    BY <1>6 DEF DropFromMap, CloseStep
  <2>2. \A t \in Session : close'[t] = IF t = s THEN "unmapped" ELSE close[t]
    BY <2>1 DEF TypeOK
  <2>3. \A n \in Node, t \in Session :
          t # s => sessionMap'[n][t] = sessionMap[n][t]
    BY <1>0, <2>1 DEF TypeOK
  <2> QED
    BY <2>1, <2>2, <2>3, SameCounts
<1>7. ASSUME NEW s \in Session, DecrBalance(s)
      PROVE  BalanceInv'
  <2>1. /\ UNCHANGED <<alive, login, sessionMap>>
        /\ close[s] = "unmapped"
        /\ close' = [close EXCEPT ![s] = "removed"]
        /\ balance' = [balance EXCEPT ![HomeOf[s]] = @ - 1]
    BY <1>7 DEF DecrBalance, CloseStep
  <2> SUFFICES ASSUME NEW n \in Node, alive'[n]
               PROVE  balance'[n] =
                        Cardinality(Counted(n)') - Cardinality(Uncounted(n)')
    BY DEF BalanceInv
  <2>2. \A t \in Session : close'[t] = IF t = s THEN "removed" ELSE close[t]
    BY <2>1 DEF TypeOK
  <2>3. Counted(n)' = Counted(n)
    BY <2>1 DEF Counted
  <2>4. login[s] \in Mapped /\ sessionMap[HomeOf[s]][s] # "local"
    BY <2>1 DEF LocalInv, FoundIsMapped, UnmappedIsNotLocal
  <2>5. CASE n = HomeOf[s]
    <3>1. Uncounted(n)' = Uncounted(n) \cup {s} /\ s \notin Uncounted(n)
      BY <2>1, <2>2, <2>4, <2>5 DEF Uncounted
    <3>2. Cardinality(Uncounted(n)') = Cardinality(Uncounted(n)) + 1
      BY <3>1, CountsFinite, FS_AddElement
    <3>3. balance'[n] = balance[n] - 1 /\ balance[n] \in Int
      BY <2>1, <2>5 DEF TypeOK
    <3> QED
      BY <2>1, <2>3, <3>2, <3>3, CountsFinite DEF BalanceInv
  <2>6. CASE n # HomeOf[s]
    <3>1. Uncounted(n)' = Uncounted(n)
      BY <2>1, <2>2, <2>6 DEF Uncounted
    <3>2. balance'[n] = balance[n]
      BY <1>0, <2>1, <2>6 DEF TypeOK
    <3> QED
      BY <2>1, <2>3, <3>1, <3>2 DEF BalanceInv
  <2> QED
    BY <2>5, <2>6
<1>8. ASSUME NEW s \in Session, NotifyOffline(s)
      PROVE  BalanceInv'
  <2>1. /\ UNCHANGED <<alive, login, sessionMap, balance>>
        /\ alive[HomeOf[s]]
        /\ close[s] \in {"removed", "absent"}
        /\ close' = [close EXCEPT ![s] = "closed"]
    BY <1>8 DEF NotifyOffline, CloseStep
  <2>2. close[s] = "absent" /\ login[s] \in Mapped
          => sessionMap[HomeOf[s]][s] = "local"
    BY <2>1 DEF LocalInv, LocalNotShadowed
  <2>3. \A t \in Session : close'[t] = IF t = s THEN "closed" ELSE close[t]
    BY <2>1 DEF TypeOK
  <2> QED
    BY <2>1, <2>2, <2>3, SameCounts
<1>9. ASSUME NEW w \in Worker, NEW s \in Session, LookupPutRemote(w, s)
      PROVE  BalanceInv'
  <2>1. /\ UNCHANGED <<alive, login, close, balance>>
        /\ s \in miss[w]
        /\ sessionMap' = [sessionMap EXCEPT ![WorkerOn[w]][s] = "remote"]
    BY <1>9 DEF LookupPutRemote
  <2>2. WorkerOn[w] = HomeOf[s] => sessionMap[HomeOf[s]][s] # "local"
    BY <2>1 DEF LocalInv, MissedIsGone
  <2>3. \A n \in Node, t \in Session :
          sessionMap'[n][t] = IF n = WorkerOn[w] /\ t = s THEN "remote"
                                                          ELSE sessionMap[n][t]
    BY <1>0, <2>1 DEF TypeOK
  <2> QED
    BY <2>1, <2>2, <2>3, SameCounts
<1>10. ASSUME NEW n \in Node, Crash(n)
       PROVE  BalanceInv'
  <2>1. /\ UNCHANGED <<login, close>>
        /\ alive' = [alive EXCEPT ![n] = FALSE]
        /\ sessionMap' = [sessionMap EXCEPT ![n] = [s \in Session |-> "none"]]
        /\ balance' = [balance EXCEPT ![n] = 0]
    BY <1>10 DEF Crash
  <2>2. \A m \in Node : alive'[m] =>
          /\ alive[m] /\ balance'[m] = balance[m]
          /\ sessionMap'[m] = sessionMap[m]
    BY <2>1 DEF TypeOK
  <2> QED
    BY <2>1, <2>2, SameCounts
<1> QED
  <2>1. ASSUME NEW l \in Linked, ReceiveNotice(l) PROVE BalanceInv'
    BY <1>1, <2>1, ReceiveNoticeKeepsMaps DEF ReceiveNotice
  <2> QED
    BY <1>1, <1>2, <1>3, <1>4, <1>5, <1>6, <1>7, <1>8, <1>9, <1>10, <2>1
    DEF Next, LoginTask, CloseTask, LookupTask, LookupStart, LookupGet,
        ExpireUserCache, ExpireSessionCache, vars

LEMMA CountedAtRest ==
  ASSUME TypeOK, LocalInv, BalanceInv
  PROVE  BalanceAtRest
<1> SUFFICES ASSUME NEW n \in Node, alive[n], AtRest(n)
             PROVE  balance[n] = Cardinality(LocalSessions(n))
  BY DEF BalanceAtRest
<1>1. Mapped = {"mapped", "cached", "read", "listed", "counted", "done"}
  BY DEF Mapped, Bound, LoginSteps
<1>2. Uncounted(n) \subseteq Counted(n)
  BY <1>1 DEF AtRest, Counted, Uncounted
<1>3. LocalSessions(n) = Counted(n) \ Uncounted(n)
  <2>1. ASSUME NEW s \in LocalSessions(n)
        PROVE  s \in Counted(n) \ Uncounted(n)
    <3>1. s \in Session /\ HomeOf[s] = n /\ sessionMap[n][s] = "local"
      BY <2>1 DEF LocalSessions
    <3>2. login[s] \in Mapped
      BY <3>1 DEF LocalInv, LocalIsMapped
    <3> QED
      BY <1>1, <3>1, <3>2 DEF AtRest, Counted, Uncounted
  <2>2. ASSUME NEW s \in Counted(n) \ Uncounted(n)
        PROVE  s \in LocalSessions(n)
    <3>1. /\ s \in Session /\ HomeOf[s] = n /\ login[s] \in Mapped
          /\ close[s] \in {"open", "ignored", "closed"}
      BY <1>1, <2>2 DEF Counted, AtRest
    <3>2. CASE close[s] = "closed"
      BY <2>2, <3>1, <3>2 DEF Uncounted, LocalSessions
    <3>3. CASE close[s] # "closed"
      BY <3>1, <3>3 DEF LocalInv, LocalNotShadowed, LocalSessions
    <3> QED
      BY <3>2, <3>3
  <2> QED
    BY <2>1, <2>2
<1>4. Cardinality(Counted(n) \ Uncounted(n)) =
        Cardinality(Counted(n)) - Cardinality(Counted(n) \cap Uncounted(n))
  BY CountsFinite, FS_Difference
<1>5. Counted(n) \cap Uncounted(n) = Uncounted(n)
  BY <1>2
<1> QED
  BY <1>3, <1>4, <1>5 DEF BalanceInv

(* With no login or logout of it under way, a node's load counter is the   *)
(* number of its local sessions.                                           *)
THEOREM BalanceCorrect == Spec => []BalanceAtRest
<1>1. Init => PhantomInv /\ LocalInv /\ BalanceInv
  <2>1. Init => PhantomInv /\ LocalInv
    BY RegistryAssumption
    DEF Init, PhantomInv, NoPhantom, CopiesPublished, LookupsPublished,
        LocalInv, LocalNotShadowed, MissedIsGone, LocalIsMapped,
        FoundIsMapped, UnmappedIsNotLocal, Mapped, Bound, LoginSteps
  <2>2. ASSUME Init, NEW n \in Node
        PROVE  balance[n] = Cardinality(Counted(n)) - Cardinality(Uncounted(n))
    <3>1. Counted(n) = {} /\ Uncounted(n) = {}
      BY <2>2 DEF Init, Counted, Uncounted
    <3>2. Cardinality(Counted(n)) = 0 /\ Cardinality(Uncounted(n)) = 0
      BY <3>1, FS_EmptySet
    <3> QED
      BY <2>2, <3>2 DEF Init
  <2> QED
    BY <2>1, <2>2 DEF BalanceInv
<1>2. TypeOK /\ PhantomInv /\ LocalInv /\ BalanceInv /\ [Next]_vars
        => (PhantomInv /\ LocalInv /\ BalanceInv)'
  BY PhantomNext, LocalNext, BalanceNext
<1>3. TypeOK /\ LocalInv /\ BalanceInv => BalanceAtRest
  BY CountedAtRest
<1> QED
  BY <1>1, <1>2, <1>3, TypeCorrect, PTL DEF Spec

=============================================================================
