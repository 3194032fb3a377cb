------------------------- MODULE LoginChannelProofs --------------------------
(***************************************************************************)
(* Proofs about the life of a channel, for any channels, threads, queue    *)
(* size and numbers of frames: one with one login leaves no session behind *)
(* when it closes at rest, and a heartbeat is answered only where messages *)
(* are served.                                                             *)
(***************************************************************************)
EXTENDS LoginPipelineProofs

-----------------------------------------------------------------------------
(* The session of a channel with one login.                                *)

(* The login tasks of c that have not registered their session yet.        *)
Queued(c, k) ==
  k \in 1..Len(waiting) /\ waiting[k].chan = c /\ waiting[k].pc = "execute"

Doing(c, r) == at[r].chan = c /\ at[r].pc \in {"execute", "bind", "register"}

NoTask(c) == (\A k \in Nat : ~ Queued(c, k)) /\ (\A r \in Runner : ~ Doing(c, r))

OneTask(c) ==
  /\ \A j, k \in Nat : Queued(c, j) /\ Queued(c, k) => j = k
  /\ \A r, q \in Runner : Doing(c, r) /\ Doing(c, q) => r = q
  /\ \A k \in Nat, r \in Runner : ~ (Queued(c, k) /\ Doing(c, r))

(* The task of the only login works with session 1, and registers it once. *)
TaskInv(c) ==
  /\ field[c] = made[c] /\ OneTask(c)
  /\ made[c] = 0 => NoTask(c)
  /\ \A r \in Runner : Doing(c, r) =>
       /\ at[r].pc # "execute" => at[r].use = 1
       /\ at[r].pc = "register" => key[c] = 1

NoSession(c) == registered[c] = {} /\ balance[c] = 0

SessionInv(c) ==
  /\ logout[c] = "none" =>
       \/ NoSession(c)
       \/ /\ registered[c] = {1} /\ balance[c] = 1
          /\ made[c] = 1 /\ key[c] = 1 /\ NoTask(c)
  /\ logout[c] = "calm" => NoSession(c) /\ NoTask(c)

FirstLogin(c) == made[c] <= 1 => TaskInv(c) /\ SessionInv(c)

(* channelInactive comes once, after the socket has closed.                *)
Ending(c, k) == k \in 1..Len(loop[c]) /\ loop[c][k] = "inactive"

ClosesOnce(c) ==
  /\ \A j, k \in Nat : Ending(c, j) /\ Ending(c, k) => j = k
  /\ \A k \in Nat : Ending(c, k) => socket[c] = "closed" /\ ~ Destroyed(c)
  /\ Destroyed(c) => socket[c] = "closed"

-----------------------------------------------------------------------------
(* The end of a channel.                                                   *)

LEMMA LoopHead ==
  ASSUME TypeOK, NEW c \in Channel, loop[c] # <<>>, loop' = [loop EXCEPT ![c] = Tail(@)]
  PROVE  /\ Head(loop[c]) = "inactive" <=> Ending(c, 1)
         /\ \A k \in Nat : Ending(c, k)' <=> k # 0 /\ Ending(c, k + 1)
<1>1. /\ Len(loop[c]) \in Nat \ {0} /\ Head(loop[c]) = loop[c][1]
      /\ Len(loop'[c]) = Len(loop[c]) - 1
      /\ \A k \in 1..(Len(loop[c]) - 1) : loop'[c][k] = loop[c][k + 1]
  <2>1. loop[c] \in Seq(Handler \cup {"inactive"}) /\ loop'[c] = Tail(loop[c])
    BY DEF TypeOK
  <2>2. /\ Len(loop[c]) \in Nat \ {0} /\ Head(loop[c]) = loop[c][1]
        /\ Len(Tail(loop[c])) = Len(loop[c]) - 1
        /\ \A k \in 1..(Len(loop[c]) - 1) : Tail(loop[c])[k] = loop[c][k + 1]
    BY <2>1
  <2> QED
    BY <2>1, <2>2
<1>2. ASSUME NEW k \in Nat
      PROVE  Ending(c, k)' <=> k # 0 /\ Ending(c, k + 1)
  <2>1. k \in 1..Len(loop'[c]) <=> k # 0 /\ k + 1 \in 1..Len(loop[c])
    BY <1>1
  <2>2. k \in 1..Len(loop'[c]) => loop'[c][k] = loop[c][k + 1]
    BY <1>1
  <2> QED
    BY <2>1, <2>2 DEF Ending
<1>3. Head(loop[c]) = "inactive" <=> Ending(c, 1)
  BY <1>1 DEF Ending
<1> QED
  BY <1>2, <1>3

LEMMA LoopAppend ==
  ASSUME TypeOK, NEW c \in Channel, NEW x \in Handler \cup {"inactive"},
         loop' = [loop EXCEPT ![c] = Append(@, x)]
  PROVE  \A k \in Nat : Ending(c, k)' <=> \/ Ending(c, k)
                                          \/ x = "inactive" /\ k = Len(loop[c]) + 1
<1>1. /\ Len(loop[c]) \in Nat
      /\ loop'[c] = Append(loop[c], x) /\ Len(loop'[c]) = Len(loop[c]) + 1
      /\ loop'[c][Len(loop[c]) + 1] = x
      /\ \A k \in 1..Len(loop[c]) : loop'[c][k] = loop[c][k]
  <2>1. loop[c] \in Seq(Handler \cup {"inactive"}) /\ loop'[c] = Append(loop[c], x)
    BY DEF TypeOK
  <2> QED
    BY <2>1
<1> QED
  BY <1>1 DEF Ending

(* The steps that matter for the end of a channel.                         *)
LEMMA ClosingSteps ==
  ASSUME [Next]_vars
  PROVE  \/ UNCHANGED <<loop, socket, logout>>
         \/ \E r \in Runner : Swaps(r)
         \/ \E c \in Channel :
              \/ HandlerAdded(c) \/ Inactive(c) \/ ClientVanishes(c)
              \/ socket[c] # "closed" /\ Shut(c)
BY DEF Next, OnPool, OnLoop, OnBack, Client, Swaps, Begin, Serve, Execute, Bind,
       Register, LogsIn, LoginThrows, Answer, Hook, ReadOnline, ReadHeartBeat,
       ReadData, ReadFrame, ClientCloses, ReadIdle, vars

LEMMA ClosesOnceNext ==
  ASSUME TypeOK, [Next]_vars, NEW c \in Channel, ClosesOnce(c)
  PROVE  ClosesOnce(c)'
<1>1. CASE UNCHANGED <<loop, socket, logout>>
  BY <1>1 DEF ClosesOnce, Ending, Destroyed
<1>2. ASSUME NEW d \in Channel, Shut(d), socket[d] # "closed"
      PROVE  ClosesOnce(c)'
  <2>1. UNCHANGED logout /\ socket' = [socket EXCEPT ![d] = "closed"]
        /\ loop' = [loop EXCEPT ![d] = Append(@, "inactive")]
    BY <1>2 DEF Shut
  <2>2. CASE d # c
    BY <2>1, <2>2 DEF ClosesOnce, Ending, Destroyed, TypeOK
  <2>3. CASE d = c
    <3>1. \A k \in Nat : Ending(c, k)' <=> Ending(c, k) \/ k = Len(loop[c]) + 1
      BY <2>1, <2>3, LoopAppend
    <3>2. ~ Destroyed(c) /\ \A k \in Nat : ~ Ending(c, k)
      BY <1>2, <2>3 DEF ClosesOnce
    <3>3. socket'[c] = "closed" /\ ~ Destroyed(c)'
      BY <2>1, <2>3, <3>2 DEF TypeOK, Destroyed
    <3> QED
      BY <3>1, <3>2, <3>3 DEF ClosesOnce
  <2> QED
    BY <2>2, <2>3
<1>3. ASSUME NEW d \in Channel, ClientVanishes(d)
      PROVE  ClosesOnce(c)'
  <2>1. UNCHANGED <<loop, logout>> /\ socket[d] # "closed"
        /\ socket' = [socket EXCEPT ![d] = "gone"]
    BY <1>3 DEF ClientVanishes
  <2> QED
    BY <2>1 DEF ClosesOnce, Ending, Destroyed, TypeOK
<1>4. ASSUME NEW d \in Channel, Inactive(d) \/ HandlerAdded(d)
      PROVE  ClosesOnce(c)'
  <2>1. UNCHANGED socket /\ loop[d] # <<>> /\ loop' = [loop EXCEPT ![d] = Tail(@)]
    BY <1>4 DEF Inactive, HandlerAdded
  <2>2. CASE d # c
    <3>1. loop'[c] = loop[c] /\ logout'[c] = logout[c]
      BY <1>4, <2>1, <2>2 DEF Inactive, HandlerAdded, TypeOK
    <3> QED
      BY <2>1, <3>1 DEF ClosesOnce, Ending, Destroyed
  <2>3. CASE d = c
    <3>1. /\ Head(loop[c]) = "inactive" <=> Ending(c, 1)
          /\ \A k \in Nat : Ending(c, k)' <=> k # 0 /\ Ending(c, k + 1)
      BY <2>1, <2>3, LoopHead
    <3>2. CASE Inactive(c)
      <4>1. Ending(c, 1)
        BY <3>1, <3>2 DEF Inactive
      <4>2. \A k \in Nat : ~ Ending(c, k)'
        BY <3>1, <4>1 DEF ClosesOnce
      <4> QED
        BY <2>1, <4>1, <4>2 DEF ClosesOnce
    <3>3. CASE HandlerAdded(c)
      <4>1. UNCHANGED logout
        BY <3>3 DEF HandlerAdded
      <4> QED
        BY <2>1, <3>1, <4>1 DEF ClosesOnce, Destroyed
    <3> QED
      BY <1>4, <2>3, <3>2, <3>3
  <2> QED
    BY <2>2, <2>3
<1>5. ASSUME NEW r \in Runner, Swaps(r)
      PROVE  ClosesOnce(c)'
  <2>1. UNCHANGED <<socket, logout>>
    BY <1>5 DEF Swaps, AddBinary, AddHeartBeat, RemoveConnect, AddAfter
  <2>2. CASE UNCHANGED loop
    BY <2>1, <2>2 DEF ClosesOnce, Ending, Destroyed
  <2>3. ASSUME NEW d \in Channel, NEW h \in Handler, loop' = [loop EXCEPT ![d] = Append(@, h)]
        PROVE  \A k \in Nat : Ending(c, k)' <=> Ending(c, k)
    <3>1. CASE d # c
      BY <2>3, <3>1 DEF Ending, TypeOK
    <3>2. CASE d = c
      <4>1. h # "inactive"
        BY DEF Handler
      <4>2. loop' = [loop EXCEPT ![c] = Append(@, h)]
        BY <2>3, <3>2
      <4>3. \A k \in Nat : Ending(c, k)' <=> \/ Ending(c, k)
                                             \/ h = "inactive" /\ k = Len(loop[c]) + 1
        BY <4>2, LoopAppend
      <4> QED
        BY <4>1, <4>3
    <3> QED
      BY <3>1, <3>2
  <2>4. \/ UNCHANGED loop
        \/ \E d \in Channel, h \in Handler : loop' = [loop EXCEPT ![d] = Append(@, h)]
    BY <1>5, WorkTyped DEF Swaps, AddBinary, AddHeartBeat, RemoveConnect, AddAfter, Handler
  <2> QED
    BY <2>1, <2>2, <2>3, <2>4 DEF ClosesOnce, Destroyed
<1> QED
  BY <1>1, <1>2, <1>3, <1>4, <1>5, ClosingSteps

-----------------------------------------------------------------------------
(* The login tasks of a channel.                                           *)

LEMMA QueueHead ==
  ASSUME TypeOK, NEW c, waiting # <<>>, waiting' = Tail(waiting)
  PROVE  /\ Head(waiting) \in Submitted
         /\ Head(waiting).chan = c /\ Head(waiting).pc = "execute" <=> Queued(c, 1)
         /\ \A k \in Nat : Queued(c, k)' <=> k # 0 /\ Queued(c, k + 1)
<1>1. /\ Len(waiting) \in Nat \ {0} /\ Head(waiting) = waiting[1]
      /\ Head(waiting) \in Submitted
      /\ Len(waiting') = Len(waiting) - 1
      /\ \A k \in 1..(Len(waiting) - 1) : waiting'[k] = waiting[k + 1]
  <2>1. waiting \in Seq(Submitted)
    BY DEF TypeOK
  <2> QED
    BY <2>1
<1>2. ASSUME NEW k \in Nat
      PROVE  Queued(c, k)' <=> k # 0 /\ Queued(c, k + 1)
  <2>1. k \in 1..Len(waiting') <=> k # 0 /\ k + 1 \in 1..Len(waiting)
    BY <1>1
  <2>2. k \in 1..Len(waiting') => waiting'[k] = waiting[k + 1]
    BY <1>1
  <2> QED
    BY <2>1, <2>2 DEF Queued
<1>3. Head(waiting).chan = c /\ Head(waiting).pc = "execute" <=> Queued(c, 1)
  BY <1>1 DEF Queued
<1> QED
  BY <1>1, <1>2, <1>3

LEMMA QueueAppend ==
  ASSUME TypeOK, NEW c, NEW w \in Submitted, waiting' = Append(waiting, w)
  PROVE  \A k \in Nat :
           Queued(c, k)' => \/ Queued(c, k)
                            \/ k = Len(waiting) + 1 /\ w.chan = c /\ w.pc = "execute"
<1>1. /\ Len(waiting) \in Nat /\ Len(waiting') = Len(waiting) + 1
      /\ waiting'[Len(waiting) + 1] = w
      /\ \A k \in 1..Len(waiting) : waiting'[k] = waiting[k]
  <2>1. waiting \in Seq(Submitted)
    BY DEF TypeOK
  <2> QED
    BY <2>1
<1> QED
  BY <1>1 DEF Queued

(* A submitted task goes to the end of the queue, or nowhere.              *)
LEMMA QueueSubmit ==
  ASSUME TypeOK, NEW c, NEW d \in Channel, NEW i \in 0..MaxLogins,
         NEW pc \in {"execute", "message", "echo"}, Submit(pc, d, i)
  PROVE  \A k \in Nat :
           Queued(c, k)' => \/ Queued(c, k)
                            \/ k = Len(waiting) + 1 /\ d = c /\ pc = "execute"
<1> DEFINE w == [pc |-> pc, chan |-> d, login |-> i, use |-> 0]
<1>1. w \in Submitted /\ w.pc = pc /\ w.chan = d
  BY LoginAssumption DEF Submitted, Work
<1>2. waiting' = waiting \/ waiting' = Append(waiting, w)
  BY DEF Submit
<1> HIDE DEF w
<1>3. CASE waiting' = waiting
  BY <1>3 DEF Queued
<1>4. CASE waiting' = Append(waiting, w)
  BY <1>1, <1>4, QueueAppend
<1> QED
  BY <1>2, <1>3, <1>4

(* A runner that goes on to something else than a login task.              *)
LEMMA LeavesTask ==
  ASSUME TypeOK, NEW q \in Runner, at[q] # Idle,
         NEW to, to \notin {"execute", "bind", "register"},
         at' = [at EXCEPT ![q] = Idle] \/ at' = [at EXCEPT ![q].pc = to]
  PROVE  \A c : \A r \in Runner : Doing(c, r)' => Doing(c, r) /\ at'[r] = at[r]
<1>1. at[q] \in InProgress
  BY WorkTyped
<1>2. at'[q].pc \in {"idle", to}
  BY <1>1 DEF TypeOK, InProgress, Work, Idle
<1>3. \A r \in Runner \ {q} : at'[r] = at[r]
  BY DEF TypeOK
<1> QED
  BY <1>2, <1>3 DEF Doing

(* A step that adds no login task to those of c, and leaves its session    *)
(* alone.                                                                  *)
LEMMA SameTasks ==
  ASSUME NEW c, FirstLogin(c), NEW s \in {0, 1},
         \A k \in Nat : Queued(c, k)' => Queued(c, k + s),
         \A r \in Runner : Doing(c, r)' => Doing(c, r) /\ at'[r] = at[r],
         made'[c] = made[c], field'[c] = field[c], key'[c] = key[c],
         registered'[c] = registered[c], balance'[c] = balance[c], logout'[c] = logout[c]
  PROVE  FirstLogin(c)'
<1> SUFFICES ASSUME made[c] <= 1 PROVE TaskInv(c)' /\ SessionInv(c)'
  BY DEF FirstLogin
<1>1. TaskInv(c) /\ SessionInv(c)
  BY DEF FirstLogin
<1>2. NoTask(c) => NoTask(c)'
  BY DEF NoTask
<1>3. OneTask(c)'
  <2>1. OneTask(c)
    BY <1>1 DEF TaskInv
  <2>2. \A j, k \in Nat : Queued(c, j)' /\ Queued(c, k)' => j = k
    BY <2>1 DEF OneTask
  <2>3. \A r, p \in Runner : Doing(c, r)' /\ Doing(c, p)' => r = p
    BY <2>1 DEF OneTask
  <2>4. \A k \in Nat, r \in Runner : ~ (Queued(c, k)' /\ Doing(c, r)')
    BY <2>1 DEF OneTask
  <2> QED
    BY <2>2, <2>3, <2>4 DEF OneTask
<1>4. TaskInv(c)'
  BY <1>1, <1>2, <1>3 DEF TaskInv
<1>5. SessionInv(c)'
  BY <1>1, <1>2 DEF SessionInv, NoSession
<1> QED
  BY <1>4, <1>5

(* The steps of the pool and the loops that make or end no login task, and *)
(* do not touch sessions.                                                  *)
LEMMA OtherWork ==
  ASSUME TypeOK, NEW c \in Channel, FirstLogin(c),
         \/ \E t \in Thread : Serve(t) \/ LogsIn(t) \/ LoginThrows(t)
         \/ \E d \in Channel : Hook(d)
         \/ \E r \in Runner : Swaps(r)
  PROVE  FirstLogin(c)'
<1>1. UNCHANGED <<waiting, session, logout>>
  BY DEF Serve, LogsIn, LoginThrows, Answer, Hook, Swaps, AddBinary, AddHeartBeat,
         AddAfter, RemoveConnect
<1>2. PICK q \in Runner, to \in {"addBinary", "addHeartBeat", "remove"} :
        at[q] # Idle /\ (at' = [at EXCEPT ![q] = Idle] \/ at' = [at EXCEPT ![q].pc = to])
  BY RunnerTypes DEF Serve, LogsIn, LoginThrows, Answer, Hook, Swaps, AddBinary,
     AddHeartBeat, AddAfter, RemoveConnect
<1>3. \A r \in Runner : Doing(c, r)' => Doing(c, r) /\ at'[r] = at[r]
  BY <1>2, LeavesTask
<1>4. \A k \in Nat : Queued(c, k)' => Queued(c, k + 0)
  BY <1>1 DEF Queued
<1> QED
  BY <1>1, <1>3, <1>4, SameTasks DEF session

LEMMA BeginTask ==
  ASSUME TypeOK, NEW c \in Channel, FirstLogin(c), NEW t \in Thread, Begin(t)
  PROVE  FirstLogin(c)'
<1>1. /\ at[t] = Idle /\ waiting # <<>> /\ waiting' = Tail(waiting)
      /\ at' = [at EXCEPT ![t] = Head(waiting)] /\ UNCHANGED <<session, logout>>
      /\ t \in Runner
  BY RunnerTypes DEF Begin
<1>2. /\ Head(waiting) \in Submitted
      /\ Head(waiting).chan = c /\ Head(waiting).pc = "execute" <=> Queued(c, 1)
      /\ \A k \in Nat : Queued(c, k)' <=> k # 0 /\ Queued(c, k + 1)
  BY <1>1, QueueHead
<1>3. at'[t] = Head(waiting) /\ \A r \in Runner \ {t} : at'[r] = at[r]
  BY <1>1 DEF TypeOK
<1>4. Head(waiting).pc \in {"execute", "message", "echo"} /\ ~ Doing(c, t)
  BY <1>1, <1>2 DEF Submitted, Work, Doing, Idle
<1>5. CASE ~ Queued(c, 1)
  <2>1. \A r \in Runner : Doing(c, r)' => Doing(c, r) /\ at'[r] = at[r]
    BY <1>2, <1>3, <1>4, <1>5 DEF Doing
  <2> QED
    BY <1>1, <1>2, <2>1, SameTasks DEF session
<1>6. CASE Queued(c, 1)
  <2> SUFFICES ASSUME made[c] <= 1 PROVE TaskInv(c)' /\ SessionInv(c)'
    BY <1>1 DEF FirstLogin, session
  <2>1. TaskInv(c) /\ SessionInv(c)
    BY DEF FirstLogin
  <2>2. /\ \A k \in Nat : ~ Queued(c, k)'
        /\ \A r \in Runner : Doing(c, r)' <=> r = t
    <3>1. OneTask(c)
      BY <2>1 DEF TaskInv
    <3>2. \A k \in Nat : ~ Queued(c, k)'
      BY <1>2, <1>6, <3>1 DEF OneTask
    <3>3. \A r \in Runner : ~ Doing(c, r)
      BY <1>6, <3>1 DEF OneTask
    <3>4. \A r \in Runner \ {t} : ~ Doing(c, r)'
      BY <1>3, <3>3 DEF Doing
    <3>5. Doing(c, t)'
      BY <1>2, <1>3, <1>6 DEF Doing
    <3> QED
      BY <3>2, <3>4, <3>5
  <2>3. ~ NoTask(c)
    BY <1>6 DEF NoTask
  <2>4. TaskInv(c)'
    <3>1. OneTask(c)'
      BY <2>2 DEF OneTask
    <3>2. at'[t].pc = "execute"
      BY <1>2, <1>3, <1>6
    <3> QED
      BY <1>1, <2>1, <2>2, <2>3, <3>1, <3>2 DEF TaskInv, session
  <2>5. SessionInv(c)'
    BY <1>1, <2>1, <2>3 DEF SessionInv, NoSession, session
  <2> QED
    BY <2>4, <2>5
<1> QED
  BY <1>5, <1>6

(* A task that goes on with its login.                                     *)
LEMMA TaskGoesOn ==
  ASSUME TypeOK, NEW c \in Channel, FirstLogin(c), NEW t \in Thread,
         Execute(t) \/ Bind(t) \/ Register(t)
  PROVE  FirstLogin(c)'
<1>1. /\ t \in Runner /\ at[t] # Idle /\ at[t] \in InProgress /\ at[t].chan \in Channel
      /\ at[t].pc \in {"execute", "bind", "register"}
      /\ UNCHANGED <<waiting, made, field, logout>>
  BY RunnerTypes, WorkTyped DEF Execute, Bind, Register, Goes, session
<1>2. \A r \in Runner \ {t} : at'[r] = at[r]
  BY DEF Execute, Bind, Register, Goes, TypeOK
<1>3. /\ at'[t].chan = at[t].chan
      /\ Execute(t) => /\ at[t].pc = "execute" /\ at'[t].pc = "bind"
                       /\ at'[t].use = field[at[t].chan]
      /\ Bind(t) => /\ at[t].pc = "bind" /\ at'[t].pc = "register"
                    /\ at'[t].use = at[t].use
      /\ Register(t) => at[t].pc = "register" /\ at'[t].pc = "notify"
  BY <1>1 DEF Execute, Bind, Register, Goes, TypeOK, InProgress, Work
<1>4. \A k \in Nat : Queued(c, k)' <=> Queued(c, k)
  BY <1>1 DEF Queued
<1>5. CASE at[t].chan # c
  <2>1. \A r \in Runner : Doing(c, r)' => Doing(c, r) /\ at'[r] = at[r]
    BY <1>2, <1>3, <1>5 DEF Doing
  <2>2. /\ key'[c] = key[c] /\ registered'[c] = registered[c] /\ balance'[c] = balance[c]
    BY <1>1, <1>5 DEF Execute, Bind, Register, session, TypeOK
  <2>3. \A k \in Nat : Queued(c, k)' => Queued(c, k + 0)
    BY <1>4
  <2> QED
    BY <1>1, <2>1, <2>2, <2>3, SameTasks
<1>6. CASE at[t].chan = c
  <2> SUFFICES ASSUME made[c] <= 1 PROVE TaskInv(c)' /\ SessionInv(c)'
    BY <1>1 DEF FirstLogin
  <2>1. TaskInv(c) /\ SessionInv(c) /\ OneTask(c)
    BY DEF FirstLogin, TaskInv
  <2>2. Doing(c, t)
    BY <1>1, <1>6 DEF Doing
  <2>3. ~ NoTask(c) /\ made[c] = 1
    <3>1. ~ NoTask(c)
      BY <1>1, <2>2 DEF NoTask
    <3> QED
      BY <2>1, <3>1 DEF TaskInv, TypeOK
  <2>4. /\ \A k \in Nat : ~ Queued(c, k)'
        /\ \A r \in Runner \ {t} : ~ Doing(c, r)'
    <3>1. \A r \in Runner \ {t} : ~ Doing(c, r)
      BY <1>1, <2>1, <2>2 DEF OneTask
    <3> QED
      BY <1>1, <1>2, <1>4, <2>1, <2>2, <3>1 DEF OneTask, Doing
  <2>5. OneTask(c)'
    BY <2>4 DEF OneTask
  <2>6. logout[c] # "calm" /\ (logout[c] = "none" => NoSession(c))
    BY <2>1, <2>3 DEF SessionInv
  <2>7. CASE Execute(t) \/ Bind(t)
    <3>1. UNCHANGED <<registered, balance>>
      BY <2>7 DEF Execute, Bind, session
    <3>2. SessionInv(c)'
      BY <1>1, <2>6, <3>1 DEF SessionInv, NoSession
    <3>3. at'[t].use = 1
      BY <1>1, <1>3, <1>6, <2>1, <2>2, <2>3, <2>7 DEF TaskInv
    <3>4. at'[t].pc = "register" => key'[c] = 1
      <4>1. CASE Execute(t)
        BY <1>3, <4>1
      <4>2. CASE Bind(t)
        <5>1. at[t].use = 1
          BY <1>3, <3>3, <4>2
        <5>2. key' = [key EXCEPT ![c] = at[t].use]
          BY <1>6, <4>2 DEF Bind
        <5> QED
          BY <5>1, <5>2 DEF TypeOK
      <4> QED
        BY <2>7, <4>1, <4>2
    <3>5. TaskInv(c)'
      BY <1>1, <2>1, <2>3, <2>4, <2>5, <3>3, <3>4 DEF TaskInv
    <3> QED
      BY <3>2, <3>5
  <2>8. CASE Register(t)
    <3>1. NoTask(c)'
      <4>1. ~ Doing(c, t)'
        BY <1>3, <2>8 DEF Doing
      <4> QED
        BY <2>4, <4>1 DEF NoTask
    <3>2. at[t].use = 1 /\ key[c] = 1 /\ key' = key
      <4>1. at[t].pc = "register"
        BY <1>3, <2>8
      <4> QED
        BY <1>1, <2>1, <2>2, <2>8, <4>1 DEF TaskInv, Register
    <3>3. /\ registered'[c] = registered[c] \cup {1}
          /\ balance'[c] = balance[c] + 1
      BY <1>6, <2>8, <3>2 DEF Register, TypeOK
    <3>4. SessionInv(c)'
      BY <1>1, <2>3, <2>6, <3>1, <3>2, <3>3 DEF SessionInv, NoSession
    <3>5. TaskInv(c)'
      BY <1>1, <2>1, <2>5, <3>1 DEF TaskInv, NoTask
    <3> QED
      BY <3>4, <3>5
  <2> QED
    BY <2>7, <2>8
<1> QED
  BY <1>5, <1>6

LEMMA FirstTask ==
  ASSUME TypeOK, NEW c \in Channel, FirstLogin(c), ClosesOnce(c),
         NEW d \in Channel, ReadOnline(d)
  PROVE  FirstLogin(c)'
<1>1. /\ made[d] + 1 \in 0..MaxLogins /\ Submit("execute", d, made[d] + 1)
      /\ socket[d] = "up" /\ at[d] = Idle
      /\ made' = [made EXCEPT ![d] = made[d] + 1]
      /\ field' = [field EXCEPT ![d] = made[d] + 1]
      /\ UNCHANGED <<key, registered, balance, logout>>
  <2>1. made[d] + 1 \in 0..MaxLogins
    BY LoginAssumption DEF ReadOnline, TypeOK
  <2> QED
    BY <2>1 DEF ReadOnline, Reads
<1>2. \A k \in Nat : Queued(c, k)' => Queued(c, k) \/ (k = Len(waiting) + 1 /\ d = c)
  <2>1. ASSUME NEW i \in 0..MaxLogins, Submit("execute", d, i), NEW k \in Nat, Queued(c, k)'
        PROVE  Queued(c, k) \/ (k = Len(waiting) + 1 /\ d = c)
    BY <2>1, QueueSubmit
  <2> QED
    BY <1>1, <2>1
<1>3. \A r \in Runner : Doing(c, r)' => Doing(c, r) /\ at'[r] = at[r]
  <2>1. \/ at' = at
        \/ at' = [at EXCEPT ![d] = [pc |-> "hook", chan |-> d, login |-> made[d] + 1, use |-> 0]]
    BY DEF ReadOnline
  <2>2. CASE at' = at
    BY <2>2 DEF Doing
  <2>3. CASE at' # at
    <3>1. at'[d].pc = "hook" /\ \A r \in Runner \ {d} : at'[r] = at[r]
      BY <2>1, <2>3, RunnerTypes DEF TypeOK
    <3> QED
      BY <3>1 DEF Doing
  <2> QED
    BY <2>2, <2>3
<1>4. CASE d # c
  <2>1. made'[c] = made[c] /\ field'[c] = field[c]
    BY <1>1, <1>4 DEF TypeOK
  <2>2. \A k \in Nat : Queued(c, k)' => Queued(c, k + 0)
    BY <1>2, <1>4
  <2> QED
    BY <1>1, <1>3, <2>1, <2>2, SameTasks
<1>5. CASE d = c
  <2> SUFFICES ASSUME made'[c] <= 1 PROVE TaskInv(c)' /\ SessionInv(c)'
    BY DEF FirstLogin
  <2>1. made[c] = 0 /\ made'[c] = 1 /\ field'[c] = 1
    BY <1>1, <1>5 DEF TypeOK
  <2>2. TaskInv(c) /\ SessionInv(c) /\ NoTask(c)
    BY <2>1 DEF FirstLogin, TaskInv
  <2>3. /\ \A k \in Nat : Queued(c, k)' => k = Len(waiting) + 1
        /\ \A r \in Runner : ~ Doing(c, r)'
    BY <1>2, <1>3, <2>2 DEF NoTask
  <2>4. TaskInv(c)'
    BY <2>1, <2>3 DEF TaskInv, OneTask
  <2>5. logout[c] = "none"
    BY <1>1, <1>5 DEF ClosesOnce, Destroyed
  <2>6. SessionInv(c)'
    BY <1>1, <2>1, <2>2, <2>5 DEF SessionInv, NoSession
  <2> QED
    BY <2>4, <2>6
<1> QED
  BY <1>4, <1>5

(* channelInactive: when no login is under way the session, if there is    *)
(* one, is the channel's, and a handler is there to end it.                *)
LEMMA SessionClosed ==
  ASSUME TypeOK, HandlerPresent, NEW c \in Channel, FirstLogin(c), ClosesOnce(c),
         NEW d \in Channel, Inactive(d)
  PROVE  FirstLogin(c)'
<1>1. UNCHANGED <<waiting, at, made, field, key>> /\ loop[d] # <<>>
      /\ loop' = [loop EXCEPT ![d] = Tail(@)] /\ Head(loop[d]) = "inactive"
  BY DEF Inactive, pool
<1>2. /\ \A k \in Nat : Queued(c, k)' <=> Queued(c, k)
      /\ \A r \in Runner : (Doing(c, r)' <=> Doing(c, r)) /\ at'[r] = at[r]
  BY <1>1 DEF Queued, Doing
<1>3. CASE d # c
  <2>1. registered'[c] = registered[c] /\ balance'[c] = balance[c] /\ logout'[c] = logout[c]
    BY <1>3 DEF Inactive, TypeOK
  <2>2. \A k \in Nat : Queued(c, k)' => Queued(c, k + 0)
    BY <1>2
  <2> QED
    BY <1>1, <1>2, <2>1, <2>2, SameTasks
<1>4. CASE d = c
  <2> SUFFICES ASSUME made[c] <= 1 PROVE TaskInv(c)' /\ SessionInv(c)'
    BY <1>1 DEF FirstLogin
  <2>1. TaskInv(c) /\ SessionInv(c)
    BY DEF FirstLogin
  <2>2. TaskInv(c)'
    <3>1. OneTask(c)' <=> OneTask(c)
      BY <1>2 DEF OneTask
    <3>2. NoTask(c)' <=> NoTask(c)
      BY <1>2 DEF NoTask
    <3> QED
      BY <1>1, <1>2, <2>1, <3>1, <3>2 DEF TaskInv
  <2>3. ~ Destroyed(c)
    <3>1. Ending(c, 1)
      BY <1>1, <1>4, LoopHead
    <3> QED
      BY <3>1 DEF ClosesOnce
  <2>4. logout'[c] = IF UnderWay(c) THEN "busy" ELSE "calm"
    BY <1>4 DEF Inactive, TypeOK
  <2>5. CASE UnderWay(c)
    BY <2>2, <2>4, <2>5 DEF SessionInv
  <2>6. CASE ~ UnderWay(c)
    <3>1. NoTask(c)
      <4>1. \A k \in Nat : ~ Queued(c, k)
        BY <2>6 DEF UnderWay, Queued
      <4>2. \A r \in Runner : ~ Doing(c, r)
        BY <2>6 DEF UnderWay, Doing, Idle
      <4> QED
        BY <4>1, <4>2 DEF NoTask
    <3>2. \E h \in {"connectHandler", "binary"} : pipeline[c][h] = "added"
      <4>1. \A h \in Handler : pipeline[c][h] # "pending"
        BY <2>6 DEF UnderWay
      <4>2. pipeline[c]["connectHandler"] = "added" \/ pipeline[c]["binary"] # "absent"
        BY <2>3 DEF HandlerPresent
      <4> QED
        BY <4>1, <4>2 DEF TypeOK, Handler
    <3>3. /\ key[c] \in registered[c]
               => /\ registered'[c] = registered[c] \ {key[c]}
                  /\ balance'[c] = balance[c] - 1
          /\ key[c] \notin registered[c] => UNCHANGED <<registered, balance>>
      BY <1>4, <3>2 DEF Inactive, TypeOK
    <3>4. NoSession(c) \/ (registered[c] = {1} /\ balance[c] = 1 /\ key[c] = 1)
      BY <2>1, <2>3 DEF SessionInv, Destroyed
    <3>5. NoSession(c)'
      BY <3>3, <3>4 DEF NoSession
    <3>6. NoTask(c)'
      BY <1>2, <3>1 DEF NoTask
    <3> QED
      BY <2>2, <2>4, <2>6, <3>5, <3>6 DEF SessionInv
  <2> QED
    BY <2>2, <2>5, <2>6
<1> QED
  BY <1>3, <1>4

LEMMA FirstLoginNext ==
  ASSUME TypeOK, HandlerPresent, [Next]_vars,
         NEW c \in Channel, FirstLogin(c), ClosesOnce(c)
  PROVE  FirstLogin(c)'
<1>1. CASE UNCHANGED <<waiting, at, session, logout>>
  <2>1. /\ \A k \in Nat : Queued(c, k)' => Queued(c, k + 0)
        /\ \A r \in Runner : Doing(c, r)' => Doing(c, r) /\ at'[r] = at[r]
    BY <1>1 DEF Queued, Doing
  <2> QED
    BY <1>1, <2>1, SameTasks DEF session
<1>2. ASSUME NEW d \in Channel, ReadHeartBeat(d) \/ ReadData(d)
      PROVE  FirstLogin(c)'
  <2>1. PICK pc \in {"echo", "message"} :
          Submit(pc, d, 0) /\ UNCHANGED <<at, session, logout>>
    BY <1>2 DEF ReadHeartBeat, ReadData, ReadFrame
  <2>2. \A k \in Nat : Queued(c, k)' => Queued(c, k + 0)
    <3>1. 0 \in 0..MaxLogins
      BY LoginAssumption
    <3>2. ASSUME NEW i \in 0..MaxLogins, NEW k \in Nat, Queued(c, k)',
                 Submit("echo", d, i) \/ Submit("message", d, i)
          PROVE  Queued(c, k)
      <4>1. CASE Submit("echo", d, i)
        BY <3>2, <4>1, QueueSubmit
      <4>2. CASE Submit("message", d, i)
        BY <3>2, <4>2, QueueSubmit
      <4> QED
        BY <3>2, <4>1, <4>2
    <3> QED
      BY <2>1, <3>1, <3>2
  <2>3. \A r \in Runner : Doing(c, r)' => Doing(c, r) /\ at'[r] = at[r]
    BY <2>1 DEF Doing
  <2> QED
    BY <2>1, <2>2, <2>3, SameTasks DEF session
<1>3. ASSUME NEW d \in Channel,
             HandlerAdded(d) \/ ClientCloses(d) \/ ClientVanishes(d) \/ ReadIdle(d)
      PROVE  UNCHANGED <<waiting, at, session, logout>>
  BY <1>3 DEF HandlerAdded, ClientCloses, ClientVanishes, ReadIdle, Shut, pool
<1>4. ASSUME NEW t \in Thread, OnPool(t)
      PROVE  FirstLogin(c)'
  BY <1>4, BeginTask, TaskGoesOn, OtherWork DEF OnPool
<1>5. ASSUME NEW d \in Channel, OnLoop(d) \/ Client(d) \/ ReadIdle(d)
      PROVE  FirstLogin(c)'
  BY <1>1, <1>2, <1>3, <1>5, OtherWork, FirstTask, SessionClosed DEF OnLoop, Client
<1>6. ASSUME NEW r \in Runner, OnBack(r)
      PROVE  FirstLogin(c)'
  BY <1>6, OtherWork DEF OnBack, Swaps
<1>7. CASE UNCHANGED vars
  BY <1>1, <1>7 DEF vars, pool
<1> QED
  BY <1>4, <1>5, <1>6, <1>7 DEF Next

(* A channel that closes when its one login has run its course leaves no   *)
(* session and no load behind, whichever threads ran the login and         *)
(* exchanged the handlers, and whatever other channels do meanwhile.       *)
THEOREM SessionsEnd == Spec => []SessionEnds
<1> DEFINE I == \A c \in Channel : FirstLogin(c) /\ ClosesOnce(c)
<1>1. Init => I
  <2> SUFFICES ASSUME Init, NEW c \in Channel PROVE FirstLogin(c) /\ ClosesOnce(c)
    OBVIOUS
  <2>1. NoTask(c)
    BY DEF Init, NoTask, Queued, Doing, Idle
  <2>2. ClosesOnce(c)
    BY DEF Init, ClosesOnce, Ending, Destroyed
  <2>3. TaskInv(c)
    BY <2>1 DEF Init, TaskInv, NoTask, OneTask
  <2>4. SessionInv(c)
    BY DEF Init, SessionInv, NoSession
  <2> QED
    BY <2>2, <2>3, <2>4 DEF FirstLogin
<1>2. TypeOK /\ HandlerPresent /\ I /\ [Next]_vars => I'
  BY FirstLoginNext, ClosesOnceNext
<1>3. I => SessionEnds
  BY DEF FirstLogin, SessionInv, NoSession, SessionEnds
<1> QED
  BY <1>1, <1>2, <1>3, TypeCorrect, PresentCorrect, PTL DEF Spec

-----------------------------------------------------------------------------
(* The event loop runs handlerAdded in the order in which the handlers     *)
(* were added, so BinaryHandler gets events before HeartBeatHandler does.  *)

Binary(c) == pipeline[c]["binary"]
HeartBeat(c) == pipeline[c]["heartBeat"]

(* A channel that is gone has no handlers, and a loop works on its own.    *)
Ended ==
  \A c \in Channel : Destroyed(c) => \A h \in Handler : pipeline[c][h] = "absent"
OnOwn == \A c \in Channel : at[c] # Idle => at[c].chan = c

(* What the loop adds is there at once, what a thread adds when the loop   *)
(* comes to it; and HeartBeatHandler is behind BinaryHandler.              *)
AddedByLoop ==
  \A c \in Channel : at[c].pc = "addHeartBeat" => Destroyed(c) \/ Binary(c) = "added"
PendingIsDue ==
  \A c \in Channel : Binary(c) = "pending" => \E j \in DOMAIN loop[c] : loop[c][j] = "binary"
DueIsThere ==
  \A c \in Channel : \A j \in DOMAIN loop[c] :
    loop[c][j] = "binary" => Destroyed(c) \/ Binary(c) # "absent"
InOrder ==
  \A c \in Channel : \A i \in DOMAIN loop[c] :
    loop[c][i] = "heartBeat" => \/ Destroyed(c) \/ Binary(c) = "added"
                                \/ \E j \in 1..(i-1) : loop[c][j] = "binary"
HeartBeatSecond ==
  \A c \in Channel : HeartBeat(c) = "added" => Binary(c) = "added"

HandlersInv ==
  /\ BinaryThere /\ Ended /\ OnOwn /\ AddedByLoop
  /\ PendingIsDue /\ DueIsThere /\ InOrder /\ HeartBeatSecond

-----------------------------------------------------------------------------

LEMMA EndedNext == TypeOK /\ Ended /\ [Next]_vars => Ended'
<1> SUFFICES ASSUME TypeOK, Ended, [Next]_vars,
                    NEW c \in Channel, Destroyed(c)', NEW h \in Handler
             PROVE  pipeline'[c][h] = "absent"
  BY DEF Ended
<1>1. CASE UNCHANGED <<pipeline, loop, logout>>
  BY <1>1 DEF Ended, Destroyed
<1>2. ASSUME NEW r \in Runner, AddBinary(r) \/ AddHeartBeat(r)
      PROVE  pipeline'[c][h] = "absent"
  <2>1. PICK g \in {"binary", "heartBeat"}, from \in {"addBinary", "addHeartBeat"},
             to \in {"addHeartBeat", "remove"} : AddAfter(r, from, g, to)
    BY <1>2 DEF AddBinary, AddHeartBeat
  <2>2. UNCHANGED logout
    BY <2>1 DEF AddAfter
  <2>3. pipeline[c][h] = "absent" /\ pipeline[c]["connectHandler"] = "absent"
    BY <2>2 DEF Ended, Destroyed, Handler
  <2>4. \/ UNCHANGED pipeline
        \/ /\ at[r].chan # c
           /\ \E v : pipeline' = [pipeline EXCEPT ![at[r].chan][g] = v]
    BY <2>1, <2>3 DEF AddAfter
  <2> QED
    BY <2>3, <2>4 DEF TypeOK
<1>3. ASSUME NEW r \in Runner, RemoveConnect(r)
      PROVE  pipeline'[c][h] = "absent"
  <2>1. pipeline[c][h] = "absent"
    BY <1>3 DEF RemoveConnect, Ended, Destroyed
  <2> QED
    BY <1>3, <2>1 DEF RemoveConnect, TypeOK
<1>4. ASSUME NEW d \in Channel, HandlerAdded(d)
      PROVE  pipeline'[c][h] = "absent"
  <2>1. pipeline[c][h] = "absent"
    BY <1>4 DEF HandlerAdded, Ended, Destroyed
  <2>2. PICK g \in Handler :
          pipeline' = [pipeline EXCEPT ![d][g] = IF @ = "pending" THEN "added" ELSE @]
    BY <1>4 DEF HandlerAdded
  <2> QED
    BY <2>1, <2>2 DEF TypeOK
<1>5. ASSUME NEW d \in Channel, Inactive(d)
      PROVE  pipeline'[c][h] = "absent"
  <2>1. CASE c = d
    BY <1>5, <2>1 DEF Inactive, TypeOK
  <2>2. CASE c # d
    BY <1>5, <2>2 DEF Inactive, TypeOK, Ended, Destroyed
  <2> QED
    BY <2>1, <2>2
<1>6. ASSUME NEW d \in Channel, Shut(d)
      PROVE  pipeline'[c][h] = "absent"
  BY <1>6 DEF Shut, Ended, Destroyed
<1> QED
  BY <1>1, <1>2, <1>3, <1>4, <1>5, <1>6, PipelineSteps DEF Swaps

(* The ways in which a step may change what is seen of a channel.          *)
Same(c) ==
  Binary(c)' = Binary(c) /\ HeartBeat(c)' = HeartBeat(c) /\ Destroyed(c)' = Destroyed(c)
Kept(c) == Same(c) /\ loop'[c] = loop[c]
Closes(c) == Same(c) /\ loop'[c] = Append(loop[c], "inactive")
Goner(c) == Destroyed(c)' /\ Binary(c)' = "absent" /\ HeartBeat(c)' = "absent"

Gains(c, r, h, v) ==
  /\ ~ Destroyed(c) /\ ~ Destroyed(c)' /\ pipeline[c][h] = "absent"
  /\ pipeline'[c][h] = v
  /\ \A g \in {"binary", "heartBeat"} \ {h} : pipeline'[c][g] = pipeline[c][g]
  /\ at[r].chan = c /\ at[r].pc = IF h = "binary" THEN "addBinary" ELSE "addHeartBeat"
  /\ \/ v = "added" /\ r = c /\ loop'[c] = loop[c]
     \/ v = "pending" /\ r # c /\ loop'[c] = Append(loop[c], h)

Comes(c) ==
  /\ loop[c] # <<>> /\ loop'[c] = Tail(loop[c])
  /\ Destroyed(c)' = Destroyed(c)
  /\ \A h \in {"binary", "heartBeat"} :
       pipeline'[c][h] = IF h = Head(loop[c]) /\ pipeline[c][h] = "pending"
                         THEN "added" ELSE pipeline[c][h]

LEMMA ChannelSteps ==
  ASSUME TypeOK, Ended, [Next]_vars, NEW c \in Channel
  PROVE  \/ Kept(c) \/ Closes(c) \/ Goner(c) \/ Comes(c)
         \/ \E r \in Runner, h \in {"binary", "heartBeat"}, v \in {"added", "pending"} :
              Gains(c, r, h, v)
<1> USE DEF Same, Kept, Closes, Binary, HeartBeat
<1>1. CASE UNCHANGED <<pipeline, loop, logout>>
  BY <1>1 DEF Destroyed
<1>2. ASSUME NEW r \in Runner, AddBinary(r) \/ AddHeartBeat(r)
      PROVE  \/ Kept(c)
             \/ \E h \in {"binary", "heartBeat"}, v \in {"added", "pending"} :
                  Gains(c, r, h, v)
  <2>1. PICK h \in {"binary", "heartBeat"}, to \in {"addHeartBeat", "remove"} :
          AddAfter(r, IF h = "binary" THEN "addBinary" ELSE "addHeartBeat", h, to)
    BY <1>2 DEF AddBinary, AddHeartBeat
  <2>2. UNCHANGED logout /\ at[r] # Idle
        /\ at[r].pc = IF h = "binary" THEN "addBinary" ELSE "addHeartBeat"
    BY <2>1 DEF AddAfter
  <2>3. at[r].chan \in Channel /\ h \in Handler /\ "connectHandler" \in Handler
    BY <2>1, <2>2, WorkTyped DEF Handler
  <2>4. CASE UNCHANGED <<pipeline, loop>>
    BY <2>2, <2>4 DEF Destroyed
  <2>5. ASSUME NEW v \in {"added", "pending"},
               pipeline[at[r].chan][h] = "absent",
               pipeline[at[r].chan]["connectHandler"] # "absent",
               pipeline' = [pipeline EXCEPT ![at[r].chan][h] = v],
               \/ v = "added" /\ r = at[r].chan /\ UNCHANGED loop
               \/ v = "pending" /\ r # at[r].chan
                    /\ loop' = [loop EXCEPT ![at[r].chan] = Append(@, h)]
        PROVE  Kept(c) \/ Gains(c, r, h, v)
    <3>1. CASE at[r].chan # c
      BY <2>2, <2>3, <2>5, <3>1 DEF TypeOK, Destroyed
    <3>2. CASE at[r].chan = c
      <4>1. ~ Destroyed(c) /\ ~ Destroyed(c)'
        BY <2>2, <2>3, <2>5, <3>2 DEF Ended, Destroyed
      <4>2. /\ pipeline'[c][h] = v
            /\ \A g \in {"binary", "heartBeat"} \ {h} : pipeline'[c][g] = pipeline[c][g]
        BY <2>3, <2>5, <3>2 DEF TypeOK, Handler
      <4>3. \/ v = "added" /\ r = c /\ loop'[c] = loop[c]
            \/ v = "pending" /\ r # c /\ loop'[c] = Append(loop[c], h)
        BY <2>5, <3>2 DEF TypeOK
      <4> QED
        BY <2>2, <2>5, <3>2, <4>1, <4>2, <4>3 DEF Gains
    <3> QED
      BY <3>1, <3>2
  <2>6. \/ UNCHANGED <<pipeline, loop>>
        \/ \E v \in {"added", "pending"} :
             /\ pipeline[at[r].chan][h] = "absent"
             /\ pipeline[at[r].chan]["connectHandler"] # "absent"
             /\ pipeline' = [pipeline EXCEPT ![at[r].chan][h] = v]
             /\ \/ v = "added" /\ r = at[r].chan /\ UNCHANGED loop
                \/ v = "pending" /\ r # at[r].chan
                     /\ loop' = [loop EXCEPT ![at[r].chan] = Append(@, h)]
    BY <2>1 DEF AddAfter
  <2> QED
    BY <2>1, <2>4, <2>5, <2>6
<1>3. ASSUME NEW r \in Runner, RemoveConnect(r)
      PROVE  Kept(c)
  BY <1>3 DEF RemoveConnect, Destroyed, TypeOK, Handler
<1>4. ASSUME NEW d \in Channel, HandlerAdded(d)
      PROVE  Kept(c) \/ Comes(c)
  <2>1. CASE c = d
    BY <1>4, <2>1 DEF HandlerAdded, Comes, Destroyed, TypeOK, Handler
  <2>2. CASE c # d
    BY <1>4, <2>2 DEF HandlerAdded, Destroyed, TypeOK
  <2> QED
    BY <2>1, <2>2
<1>5. ASSUME NEW d \in Channel, Inactive(d)
      PROVE  Kept(c) \/ Goner(c)
  <2>1. CASE c = d
    BY <1>5, <2>1 DEF Inactive, Goner, Destroyed, TypeOK, Handler
  <2>2. CASE c # d
    BY <1>5, <2>2 DEF Inactive, Destroyed, TypeOK
  <2> QED
    BY <2>1, <2>2
<1>6. ASSUME NEW d \in Channel, Shut(d)
      PROVE  Kept(c) \/ Closes(c)
  BY <1>6 DEF Shut, Destroyed, TypeOK
<1> QED
  BY <1>1, <1>2, <1>3, <1>4, <1>5, <1>6, PipelineSteps DEF Swaps

-----------------------------------------------------------------------------
(* What is on the loop of a channel, and what the loop is doing.           *)

LEMMA OnOwnNext == TypeOK /\ OnOwn /\ [Next]_vars => OnOwn'
<1> SUFFICES ASSUME TypeOK, OnOwn, [Next]_vars,
                    NEW c \in Channel, at'[c] # Idle
             PROVE  at'[c].chan = c
  BY DEF OnOwn
<1> USE LoginAssumption, RunnerTypes
<1>1. CASE at'[c] = at[c]
  BY <1>1 DEF OnOwn
<1>2. ASSUME NEW t \in Thread, OnPool(t)
      PROVE  at'[c] = at[c]
  <2>1. t # c
    BY <1>2
  <2> QED
    BY <1>2, <2>1 DEF OnPool, Begin, Serve, Execute, Bind, Register, Goes, LogsIn,
                      LoginThrows, Answer, TypeOK
<1>3. ASSUME NEW d \in Channel, Hook(d)
      PROVE  at'[c].chan = c
  <2>1. at[d] # Idle /\ at[d].chan = d
    BY <1>3 DEF Hook, OnOwn
  <2>2. at' = [at EXCEPT ![d] = Idle] \/ at' = [at EXCEPT ![d].pc = "addBinary"]
    BY <1>3 DEF Hook
  <2>3. CASE c = d
    <3>1. at[d] \in InProgress
      BY <2>1, WorkTyped
    <3>2. at' = [at EXCEPT ![d].pc = "addBinary"]
      BY <2>2, <2>3 DEF TypeOK
    <3> QED
      BY <2>1, <2>3, <3>1, <3>2 DEF TypeOK, InProgress, Work
  <2>4. CASE c # d
    BY <1>1, <2>2, <2>4 DEF TypeOK
  <2> QED
    BY <2>3, <2>4
<1>4. ASSUME NEW d \in Channel, ReadOnline(d)
      PROVE  at'[c].chan = c
  <2>1. PICK i : at' = at \/ at' = [at EXCEPT ![d] =
                   [pc |-> "hook", chan |-> d, login |-> i, use |-> 0]]
    BY <1>4 DEF ReadOnline
  <2> QED
    BY <1>1, <2>1 DEF TypeOK
<1>5. ASSUME NEW r \in Runner, Swaps(r)
      PROVE  at'[c].chan = c
  <2>1. at[r] # Idle /\ \E to \in {"addHeartBeat", "remove"} :
          at' = [at EXCEPT ![r] = Idle] \/ at' = [at EXCEPT ![r].pc = to]
    BY <1>5 DEF Swaps, AddBinary, AddHeartBeat, AddAfter, RemoveConnect
  <2>2. CASE c = r
    <3>1. at[r] \in InProgress
      BY <2>1, WorkTyped
    <3>2. PICK to \in {"addHeartBeat", "remove"} : at' = [at EXCEPT ![r].pc = to]
      BY <2>1, <2>2 DEF TypeOK
    <3> QED
      BY <2>1, <2>2, <3>1, <3>2 DEF TypeOK, InProgress, Work, OnOwn
  <2>3. CASE c # r
    BY <1>1, <2>1, <2>3 DEF TypeOK
  <2> QED
    BY <2>2, <2>3
<1>6. ASSUME UNCHANGED at
      PROVE  at'[c] = at[c]
  BY <1>6
<1> QED
  BY <1>1, <1>2, <1>3, <1>4, <1>5, <1>6
  DEF Next, OnLoop, OnBack, Client, Swaps, HandlerAdded, Inactive, ReadHeartBeat,
      ReadData, ReadFrame, ClientCloses, ClientVanishes, ReadIdle, Shut, vars, pool

LEMMA AddedByLoopNext ==
  TypeOK /\ OnOwn /\ AddedByLoop /\ [Next]_vars => AddedByLoop'
<1> SUFFICES ASSUME TypeOK, OnOwn, AddedByLoop, [Next]_vars,
                    NEW c \in Channel, at'[c].pc = "addHeartBeat"
             PROVE  (Destroyed(c) \/ Binary(c) = "added")'
  BY DEF AddedByLoop
<1>0. c \in Runner
  BY RunnerTypes
<1>1. CASE at'[c] = at[c]
  BY <1>1, HandlersStay DEF AddedByLoop, Binary
<1>2. CASE AddBinary(c) /\ at' = [at EXCEPT ![c].pc = "addHeartBeat"]
  <2>1. at[c] # Idle /\ at[c].chan = c
    BY <1>2 DEF AddBinary, AddAfter, OnOwn
  <2>2. at' # [at EXCEPT ![c] = Idle]
    BY <1>0 DEF TypeOK, Idle
  <2>3. pipeline' = [pipeline EXCEPT ![c]["binary"] = "added"]
    BY <1>2, <2>1, <2>2 DEF AddBinary, AddAfter
  <2> QED
    BY <2>3 DEF Binary, TypeOK, Handler
<1>3. ~ (AddHeartBeat(c) /\ at' = [at EXCEPT ![c].pc = "remove"])
  <2> SUFFICES ASSUME AddHeartBeat(c), at' = [at EXCEPT ![c].pc = "remove"]
               PROVE  FALSE
    OBVIOUS
  <2>1. at[c] \in InProgress
    BY <1>0, WorkTyped DEF AddHeartBeat, AddAfter
  <2> QED
    BY <1>0, <2>1 DEF TypeOK, InProgress, Work
<1> QED
  BY <1>0, <1>1, <1>2, <1>3, SwapSteps

-----------------------------------------------------------------------------
(* The order in which handlers come to a channel.                          *)

LEMMA LoopTyped ==
  ASSUME TypeOK, NEW c \in Channel
  PROVE  loop[c] \in Seq(Handler \cup {"inactive"})
BY DEF TypeOK

LEMMA Appended ==
  ASSUME TypeOK, NEW c \in Channel, NEW x, loop'[c] = Append(loop[c], x)
  PROVE  /\ Len(loop[c]) \in Nat /\ DOMAIN loop[c] = 1..Len(loop[c])
         /\ DOMAIN loop'[c] = 1..(Len(loop[c]) + 1)
         /\ \A j \in 1..Len(loop[c]) : loop'[c][j] = loop[c][j]
         /\ loop'[c][Len(loop[c]) + 1] = x
<1>1. loop[c] \in Seq(Handler \cup {"inactive", x})
  <2>1. loop[c] \in Seq(Handler \cup {"inactive"})
    BY LoopTyped
  <2> QED
    BY <2>1
<1> DEFINE s == loop[c]
<1> HIDE DEF s
<1>2. s \in Seq(Handler \cup {"inactive", x})
  BY <1>1 DEF s
<1>3. /\ Len(s) \in Nat /\ DOMAIN s = 1..Len(s)
      /\ Len(Append(s, x)) = Len(s) + 1
      /\ Append(s, x) \in Seq(Handler \cup {"inactive", x})
      /\ \A j \in 1..Len(s) : Append(s, x)[j] = s[j]
      /\ Append(s, x)[Len(s) + 1] = x
  BY <1>2
<1>4. DOMAIN Append(s, x) = 1..(Len(s) + 1)
  BY <1>3
<1> QED
  BY <1>3, <1>4 DEF s

LEMMA Shifted ==
  ASSUME TypeOK, NEW c \in Channel, loop[c] # <<>>, loop'[c] = Tail(loop[c])
  PROVE  /\ Len(loop[c]) \in Nat \ {0} /\ DOMAIN loop[c] = 1..Len(loop[c])
         /\ DOMAIN loop'[c] = 1..(Len(loop[c]) - 1)
         /\ \A j \in 1..(Len(loop[c]) - 1) : loop'[c][j] = loop[c][j + 1]
         /\ Head(loop[c]) = loop[c][1]
<1> DEFINE s == loop[c]
<1> HIDE DEF s
<1>1. s \in Seq(Handler \cup {"inactive"}) /\ s # <<>>
  BY LoopTyped DEF s
<1>2. /\ Len(s) \in Nat \ {0} /\ DOMAIN s = 1..Len(s)
      /\ Tail(s) \in Seq(Handler \cup {"inactive"})
      /\ Len(Tail(s)) = Len(s) - 1
      /\ \A j \in 1..(Len(s) - 1) : Tail(s)[j] = s[j + 1]
      /\ Head(s) = s[1]
  BY <1>1
<1>3. DOMAIN Tail(s) = 1..(Len(s) - 1)
  BY <1>2
<1> QED
  BY <1>2, <1>3 DEF s

LEMMA PendingIsDueNext ==
  TypeOK /\ Ended /\ PendingIsDue /\ [Next]_vars => PendingIsDue'
<1> SUFFICES ASSUME TypeOK, Ended, PendingIsDue, [Next]_vars,
                    NEW c \in Channel, Binary(c)' = "pending"
             PROVE  \E j \in DOMAIN loop'[c] : loop'[c][j] = "binary"
  BY DEF PendingIsDue, Binary
<1>1. CASE Kept(c)
  BY <1>1 DEF Kept, Same, PendingIsDue
<1>2. CASE Closes(c)
  <2>1. PICK j \in DOMAIN loop[c] : loop[c][j] = "binary"
    BY <1>2 DEF Closes, Same, PendingIsDue
  <2> QED
    BY <1>2, <2>1, Appended DEF Closes
<1>3. CASE Goner(c)
  BY <1>3 DEF Goner
<1>4. CASE Comes(c)
  <2>1. Binary(c) = "pending" /\ Head(loop[c]) # "binary"
    BY <1>4 DEF Comes, Binary
  <2>2. PICK j \in DOMAIN loop[c] : loop[c][j] = "binary"
    BY <2>1 DEF PendingIsDue
  <2>3. j \in 2..Len(loop[c])
    BY <1>4, <2>1, <2>2, Shifted DEF Comes
  <2>4. j - 1 \in DOMAIN loop'[c] /\ loop'[c][j - 1] = "binary"
    BY <1>4, <2>2, <2>3, Shifted DEF Comes
  <2> QED
    BY <2>4
<1>5. ASSUME NEW r \in Runner, NEW h \in {"binary", "heartBeat"},
             NEW v \in {"added", "pending"}, Gains(c, r, h, v)
      PROVE  \E j \in DOMAIN loop'[c] : loop'[c][j] = "binary"
  <2>1. CASE h = "binary"
    BY <1>5, <2>1, Appended DEF Gains, Binary
  <2>2. CASE h = "heartBeat"
    <3>1. PICK j \in DOMAIN loop[c] : loop[c][j] = "binary"
      BY <1>5, <2>2 DEF Gains, PendingIsDue, Binary
    <3> QED
      BY <1>5, <3>1, Appended DEF Gains
  <2> QED
    BY <2>1, <2>2
<1> QED
  BY <1>1, <1>2, <1>3, <1>4, <1>5, ChannelSteps

LEMMA DueIsThereNext ==
  TypeOK /\ Ended /\ DueIsThere /\ [Next]_vars => DueIsThere'
<1> SUFFICES ASSUME TypeOK, Ended, DueIsThere, [Next]_vars, NEW c \in Channel,
                    NEW j \in DOMAIN loop'[c], loop'[c][j] = "binary",
                    ~ Destroyed(c)'
             PROVE  Binary(c)' # "absent"
  BY DEF DueIsThere, Destroyed, Binary
<1>1. ASSUME NEW i \in DOMAIN loop[c], loop[c][i] = "binary"
      PROVE  Binary(c)' # "absent"
  BY <1>1, HandlersStay DEF DueIsThere, Binary
<1>2. CASE Kept(c)
  BY <1>1, <1>2 DEF Kept
<1>3. CASE Closes(c)
  <2>1. j \in DOMAIN loop[c] /\ loop[c][j] = "binary"
    BY <1>3, Appended DEF Closes
  <2> QED
    BY <1>1, <2>1
<1>4. CASE Goner(c)
  BY <1>4 DEF Goner
<1>5. CASE Comes(c)
  <2>1. j + 1 \in DOMAIN loop[c] /\ loop[c][j + 1] = "binary"
    BY <1>5, Shifted DEF Comes
  <2> QED
    BY <1>1, <2>1
<1>6. ASSUME NEW r \in Runner, NEW h \in {"binary", "heartBeat"},
             NEW v \in {"added", "pending"}, Gains(c, r, h, v)
      PROVE  Binary(c)' # "absent"
  <2>1. CASE h = "binary"
    BY <1>6, <2>1 DEF Gains, Binary
  <2>2. CASE h = "heartBeat"
    <3>1. j \in DOMAIN loop[c] /\ loop[c][j] = "binary"
      BY <1>6, <2>2, Appended DEF Gains
    <3> QED
      BY <1>1, <3>1
  <2> QED
    BY <2>1, <2>2
<1> QED
  BY <1>2, <1>3, <1>4, <1>5, <1>6, ChannelSteps

LEMMA InOrderNext ==
  TypeOK /\ Ended /\ BinaryThere /\ PendingIsDue /\ DueIsThere /\ InOrder /\ [Next]_vars
    => InOrder'
<1> SUFFICES ASSUME TypeOK, Ended, BinaryThere, PendingIsDue, DueIsThere, InOrder,
                    [Next]_vars, NEW c \in Channel,
                    NEW i \in DOMAIN loop'[c], loop'[c][i] = "heartBeat",
                    ~ Destroyed(c)', Binary(c)' # "added"
             PROVE  \E j \in 1..(i-1) : loop'[c][j] = "binary"
  BY DEF InOrder, Destroyed, Binary
<1>0. ~ Destroyed(c) /\ Binary(c) # "added"
  BY HandlersStay DEF Binary
<1>1. ASSUME NEW k \in DOMAIN loop[c], loop[c][k] = "heartBeat"
      PROVE  \E j \in 1..(k-1) : loop[c][j] = "binary"
  BY <1>0, <1>1 DEF InOrder
<1>2. CASE Kept(c)
  BY <1>1, <1>2 DEF Kept
<1>3. ASSUME NEW x, loop'[c] = Append(loop[c], x), i \in DOMAIN loop[c]
      PROVE  \E j \in 1..(i-1) : loop'[c][j] = "binary"
  <2>1. i \in 1..Len(loop[c]) /\ Len(loop[c]) \in Nat /\ loop[c][i] = "heartBeat"
    BY <1>3, Appended
  <2>2. PICK j \in 1..(i-1) : loop[c][j] = "binary"
    BY <1>1, <1>3, <2>1
  <2> QED
    BY <1>3, <2>1, <2>2, Appended
<1>4. CASE Closes(c)
  <2>1. i \in DOMAIN loop[c]
    BY <1>4, Appended DEF Closes
  <2> QED
    BY <1>3, <1>4, <2>1 DEF Closes
<1>5. CASE Goner(c)
  BY <1>5 DEF Goner
<1>6. CASE Comes(c)
  <2>1. /\ i \in 1..(Len(loop[c]) - 1) /\ Len(loop[c]) \in Nat
        /\ i + 1 \in DOMAIN loop[c] /\ loop[c][i + 1] = "heartBeat"
    BY <1>6, Shifted DEF Comes
  <2>2. PICK j \in 1..i : loop[c][j] = "binary"
    BY <1>1, <2>1
  <2>3. j # 1
    <3> SUFFICES ASSUME j = 1 PROVE FALSE
      OBVIOUS
    <3>1. Head(loop[c]) = "binary" /\ j \in DOMAIN loop[c]
      BY <1>6, <2>1, <2>2, Shifted DEF Comes
    <3>2. Binary(c) # "absent"
      BY <1>0, <2>2, <3>1 DEF DueIsThere
    <3>3. Binary(c) = "pending"
      BY <1>0, <3>2 DEF Binary, TypeOK, Handler
    <3> QED
      BY <1>6, <3>1, <3>3 DEF Comes, Binary
  <2>4. j - 1 \in 1..(i-1) /\ loop'[c][j - 1] = "binary"
    BY <1>6, <2>1, <2>2, <2>3, Shifted DEF Comes
  <2> QED
    BY <2>4
<1>7. ASSUME NEW r \in Runner, NEW h \in {"binary", "heartBeat"},
             NEW v \in {"added", "pending"}, Gains(c, r, h, v)
      PROVE  \E j \in 1..(i-1) : loop'[c][j] = "binary"
  <2>1. CASE loop'[c] = loop[c]
    BY <1>1, <2>1
  <2>2. CASE loop'[c] = Append(loop[c], h) /\ i \in DOMAIN loop[c]
    BY <1>3, <2>2
  <2>3. CASE loop'[c] = Append(loop[c], h) /\ i \notin DOMAIN loop[c]
    <3>1. /\ i = Len(loop[c]) + 1 /\ Len(loop[c]) \in Nat /\ h = "heartBeat"
          /\ DOMAIN loop[c] = 1..Len(loop[c])
      BY <2>3, Appended
    <3>2. at[r].pc = "addHeartBeat" /\ at[r].chan = c
      BY <1>7, <3>1 DEF Gains
    <3>3. Binary(c) # "absent"
      BY <1>0, <3>2 DEF BinaryThere, Binary
    <3>4. Binary(c) = "pending"
      BY <1>0, <3>3 DEF Binary, TypeOK, Handler
    <3>5. PICK j \in DOMAIN loop[c] : loop[c][j] = "binary"
      BY <3>4 DEF PendingIsDue
    <3> QED
      BY <2>3, <3>1, <3>5, Appended
  <2> QED
    BY <1>7, <2>1, <2>2, <2>3 DEF Gains
<1> QED
  BY <1>2, <1>4, <1>5, <1>6, <1>7, ChannelSteps

LEMMA HeartBeatSecondNext ==
  TypeOK /\ Ended /\ AddedByLoop /\ InOrder /\ HeartBeatSecond /\ [Next]_vars
    => HeartBeatSecond'
<1> SUFFICES ASSUME TypeOK, Ended, AddedByLoop, InOrder, HeartBeatSecond,
                    [Next]_vars, NEW c \in Channel, HeartBeat(c)' = "added"
             PROVE  Binary(c)' = "added"
  BY DEF HeartBeatSecond, HeartBeat, Binary
<1>1. CASE Kept(c) \/ Closes(c)
  BY <1>1 DEF Kept, Closes, Same, HeartBeatSecond
<1>2. CASE Goner(c)
  BY <1>2 DEF Goner
<1>3. CASE Comes(c)
  <2>1. CASE HeartBeat(c) = "added"
    BY <1>3, <2>1 DEF Comes, HeartBeatSecond, HeartBeat, Binary
  <2>2. CASE HeartBeat(c) # "added"
    <3>1. HeartBeat(c) = "pending" /\ Head(loop[c]) = "heartBeat"
      BY <1>3, <2>2 DEF Comes, HeartBeat
    <3>2. 1 \in DOMAIN loop[c] /\ loop[c][1] = "heartBeat"
      BY <1>3, <3>1, Shifted DEF Comes
    <3>3. ~ Destroyed(c)
      BY <3>1 DEF Ended, HeartBeat, Handler
    <3>4. Binary(c) = "added"
      BY <3>2, <3>3 DEF InOrder
    <3> QED
      BY <1>3, <3>4 DEF Comes, Binary
  <2> QED
    BY <2>1, <2>2
<1>4. ASSUME NEW r \in Runner, NEW h \in {"binary", "heartBeat"},
             NEW v \in {"added", "pending"}, Gains(c, r, h, v)
      PROVE  Binary(c)' = "added"
  <2>1. CASE HeartBeat(c) = "added"
    <3>1. h = "heartBeat" \/ Binary(c) = "absent"
      BY <1>4 DEF Gains, Binary
    <3> QED
      BY <1>4, <2>1, <3>1 DEF Gains, HeartBeatSecond, HeartBeat
  <2>2. CASE HeartBeat(c) # "added"
    <3>1. h = "heartBeat" /\ v = "added"
      BY <1>4, <2>2 DEF Gains, HeartBeat
    <3>2. r = c /\ at[c].pc = "addHeartBeat" /\ ~ Destroyed(c)
      BY <1>4, <3>1 DEF Gains
    <3>3. Binary(c) = "added"
      BY <3>2 DEF AddedByLoop
    <3> QED
      BY <1>4, <3>1, <3>3 DEF Gains, Binary
  <2> QED
    BY <2>1, <2>2
<1> QED
  BY <1>1, <1>2, <1>3, <1>4, ChannelSteps

-----------------------------------------------------------------------------
(* EchoMeansServed: a heartbeat that is to be echoed was read by a handler *)
(* that came after BinaryHandler.                                          *)

Serves(c) == Destroyed(c) \/ Binary(c) = "added"

EchoTasks ==
  /\ \A k \in DOMAIN waiting : waiting[k].pc = "echo" => Serves(waiting[k].chan)
  /\ \A r \in Runner : at[r].pc = "echo" => Serves(at[r].chan)

LEMMA ServesStays ==
  ASSUME TypeOK, [Next]_vars, NEW c \in Channel, Serves(c)
  PROVE  Serves(c)'
BY HandlersStay DEF Serves, Binary

LEMMA QueueTyped ==
  ASSUME TypeOK
  PROVE  /\ waiting \in Seq(Submitted) /\ DOMAIN waiting = 1..Len(waiting)
         /\ \A k \in DOMAIN waiting : waiting[k].chan \in Channel
<1>1. waiting \in Seq(Submitted)
  BY DEF TypeOK
<1>2. /\ DOMAIN waiting = 1..Len(waiting)
      /\ \A k \in DOMAIN waiting : waiting[k] \in Submitted
  BY <1>1
<1>3. \A w \in Submitted : w.chan \in Channel
  BY DEF Submitted, Work
<1> QED
  BY <1>1, <1>2, <1>3

(* What may come to the queue, or leave it.                                *)
LEMMA QueueSteps ==
  ASSUME TypeOK, [Next]_vars
  PROVE  \/ UNCHANGED waiting
         \/ waiting # <<>> /\ waiting' = Tail(waiting)
         \/ \E c \in Channel, i \in 0..MaxLogins, pc \in {"execute", "message", "echo"} :
              /\ waiting' = Append(waiting, [pc |-> pc, chan |-> c, login |-> i, use |-> 0])
              /\ pc = "echo" => HeartBeat(c) = "added"
<1>1. ASSUME NEW c \in Channel, ReadOnline(c)
      PROVE  \/ UNCHANGED waiting
             \/ \E i \in 0..MaxLogins : waiting' = Append(waiting,
                   [pc |-> "execute", chan |-> c, login |-> i, use |-> 0])
  <2>1. made[c] + 1 \in 0..MaxLogins
    BY <1>1, LoginAssumption DEF ReadOnline, TypeOK
  <2> QED
    BY <1>1, <2>1 DEF ReadOnline, Submit
<1>2. ASSUME NEW c \in Channel, ReadHeartBeat(c) \/ ReadData(c)
      PROVE  \/ UNCHANGED waiting
             \/ \E pc \in {"message", "echo"} :
                  /\ waiting' = Append(waiting, [pc |-> pc, chan |-> c, login |-> 0, use |-> 0])
                  /\ pc = "echo" => HeartBeat(c) = "added"
  BY <1>2 DEF ReadHeartBeat, ReadData, ReadFrame, Submit, HeartBeat
<1>3. ASSUME NEW t \in Thread, Begin(t)
      PROVE  waiting # <<>> /\ waiting' = Tail(waiting)
  BY <1>3 DEF Begin
<1>4. 0 \in 0..MaxLogins
  BY LoginAssumption
<1>5. \/ UNCHANGED waiting
      \/ \E t \in Thread : Begin(t)
      \/ \E c \in Channel : ReadOnline(c) \/ ReadHeartBeat(c) \/ ReadData(c)
  BY DEF Next, OnPool, OnLoop, OnBack, Client, Serve, Execute, Bind, Register, LogsIn,
         LoginThrows, Answer, Hook, HandlerAdded, Inactive, ClientCloses, ClientVanishes,
         ReadIdle, Shut, AddBinary, AddHeartBeat, AddAfter, RemoveConnect, vars, pool
<1>6. ASSUME NEW c \in Channel, ReadOnline(c) \/ ReadHeartBeat(c) \/ ReadData(c)
      PROVE  \/ UNCHANGED waiting
             \/ \E i \in 0..MaxLogins, pc \in {"execute", "message", "echo"} :
                  /\ waiting' = Append(waiting, [pc |-> pc, chan |-> c, login |-> i, use |-> 0])
                  /\ pc = "echo" => HeartBeat(c) = "added"
  <2>1. CASE ReadOnline(c)
    BY <1>1, <2>1
  <2>2. CASE ReadHeartBeat(c) \/ ReadData(c)
    BY <1>2, <1>4, <2>2
  <2> QED
    BY <1>6, <2>1, <2>2
<1> QED
  BY <1>3, <1>5, <1>6

(* An echo under way was so before, or has just been taken from the queue. *)
LEMMA EchoSteps ==
  ASSUME TypeOK, [Next]_vars, NEW r \in Runner, at'[r].pc = "echo"
  PROVE  at'[r] = at[r] \/ (waiting # <<>> /\ at'[r] = Head(waiting))
<1> USE RunnerTypes
<1>1. CASE at' = at
  BY <1>1
<1>2. ASSUME NEW t \in Thread, OnPool(t)
      PROVE  at'[r] = at[r] \/ (waiting # <<>> /\ at'[r] = Head(waiting))
  <2>1. CASE Begin(t)
    BY <2>1 DEF Begin, TypeOK
  <2>2. CASE Serve(t)
    BY <2>2 DEF Serve, TypeOK, Idle
  <2>3. CASE Execute(t) \/ Bind(t) \/ Register(t)
    <3>1. at[t] # Idle
      BY <2>3 DEF Execute, Bind, Register, Goes
    <3>2. at[t] \in InProgress
      BY <3>1, WorkTyped
    <3>3. \E w \in {"bind", "register", "notify"} :
            at' = [at EXCEPT ![t].pc = w] \/ \E u : at' = [at EXCEPT ![t].pc = w, ![t].use = u]
      BY <2>3 DEF Execute, Bind, Register, Goes
    <3>4. t = r => at'[r].pc \in {"bind", "register", "notify"}
      BY <3>2, <3>3 DEF TypeOK, InProgress, Work
    <3>5. t # r
      BY <3>4
    <3> QED
      BY <3>3, <3>5 DEF TypeOK
  <2>4. CASE LogsIn(t) \/ LoginThrows(t)
    <3>1. at[t] # Idle
      BY <2>4 DEF LogsIn, LoginThrows, Answer
    <3>2. at[t] \in InProgress
      BY <3>1, WorkTyped
    <3>3. \/ at' = [at EXCEPT ![t] = Idle]
          \/ at' = [at EXCEPT ![t].pc = "addBinary"]
      BY <2>4 DEF LogsIn, LoginThrows, Answer
    <3>4. at'[t].pc # "echo"
      BY <3>2, <3>3 DEF TypeOK, InProgress, Work, Idle
    <3>5. r # t
      BY <3>4
    <3> QED
      BY <3>3, <3>5 DEF TypeOK
  <2> QED
    BY <1>2, <2>1, <2>2, <2>3, <2>4 DEF OnPool
<1>3. ASSUME NEW c \in Channel, Hook(c) \/ ReadOnline(c)
      PROVE  at'[r] = at[r]
  <2>1. CASE Hook(c)
    <3>1. at[c] # Idle
      BY <2>1 DEF Hook
    <3>2. at[c] \in InProgress
      BY <3>1, WorkTyped
    <3>3. \/ at' = [at EXCEPT ![c] = Idle]
          \/ at' = [at EXCEPT ![c].pc = "addBinary"]
      BY <2>1 DEF Hook
    <3>4. at'[c].pc # "echo"
      BY <3>2, <3>3 DEF TypeOK, InProgress, Work, Idle
    <3>5. r # c
      BY <3>4
    <3> QED
      BY <3>3, <3>5 DEF TypeOK
  <2>2. CASE ReadOnline(c)
    BY <2>2 DEF ReadOnline, TypeOK
  <2> QED
    BY <1>3, <2>1, <2>2
<1>4. ASSUME NEW t \in Runner, Swaps(t)
      PROVE  at'[r] = at[r]
  <2>1. at[t] # Idle /\ \E to \in {"addHeartBeat", "remove"} :
          at' = [at EXCEPT ![t] = Idle] \/ at' = [at EXCEPT ![t].pc = to]
    BY <1>4 DEF Swaps, AddBinary, AddHeartBeat, AddAfter, RemoveConnect
  <2>2. at[t] \in InProgress
    BY <2>1, WorkTyped
  <2> QED
    BY <2>1, <2>2 DEF TypeOK, InProgress, Work, Idle
<1> QED
  BY <1>1, <1>2, <1>3, <1>4
  DEF Next, OnLoop, OnBack, Client, Swaps, HandlerAdded, Inactive, ReadHeartBeat,
      ReadData, ReadFrame, ClientCloses, ClientVanishes, ReadIdle, Shut, vars, pool

LEMMA EchoTasksNext ==
  TypeOK /\ HeartBeatSecond /\ EchoTasks /\ [Next]_vars => EchoTasks'
<1> SUFFICES ASSUME TypeOK, HeartBeatSecond, EchoTasks, [Next]_vars PROVE EchoTasks'
  OBVIOUS
<1> DEFINE Due(w) == \E c \in Channel : w.chan = c /\ Serves(c)'
<1>1. \A c \in Channel : Serves(c) => Serves(c)'
  BY ServesStays
<1>2. ASSUME NEW k \in DOMAIN waiting, waiting[k].pc = "echo"
      PROVE  Due(waiting[k])
  <2>1. waiting[k].chan \in Channel /\ Serves(waiting[k].chan)
    BY <1>2, QueueTyped DEF EchoTasks
  <2> QED
    BY <1>1, <2>1
<1>3. ASSUME NEW r \in Runner, at[r].pc = "echo"
      PROVE  Due(at[r])
  <2>1. at[r] # Idle
    BY <1>3 DEF Idle
  <2>2. at[r].chan \in Channel
    BY <2>1, WorkTyped
  <2>3. Serves(at[r].chan)
    BY <1>3 DEF EchoTasks
  <2> QED
    BY <1>1, <2>2, <2>3
<1> HIDE DEF Due
<1>4. ASSUME NEW r \in Runner, at'[r].pc = "echo"
      PROVE  Due(at'[r])
  <2>1. CASE at'[r] = at[r]
    BY <1>3, <1>4, <2>1
  <2>2. CASE waiting # <<>> /\ at'[r] = Head(waiting)
    <3>1. 1 \in DOMAIN waiting /\ Head(waiting) = waiting[1]
      BY <2>2, QueueTyped
    <3> QED
      BY <1>2, <1>4, <2>2, <3>1
  <2> QED
    BY <1>4, <2>1, <2>2, EchoSteps
<1>5. ASSUME NEW k \in DOMAIN waiting', waiting'[k].pc = "echo"
      PROVE  Due(waiting'[k])
  <2>1. CASE UNCHANGED waiting
    BY <1>2, <1>5, <2>1
  <2>2. CASE waiting # <<>> /\ waiting' = Tail(waiting)
    <3>1. k + 1 \in DOMAIN waiting /\ waiting'[k] = waiting[k + 1]
      BY <1>5, <2>2, QueueTyped
    <3> QED
      BY <1>2, <1>5, <3>1
  <2>3. ASSUME NEW c \in Channel, NEW i \in 0..MaxLogins,
               NEW pc \in {"execute", "message", "echo"},
               waiting' = Append(waiting, [pc |-> pc, chan |-> c, login |-> i, use |-> 0]),
               pc = "echo" => HeartBeat(c) = "added"
        PROVE  Due(waiting'[k])
    <3> DEFINE w == [pc |-> pc, chan |-> c, login |-> i, use |-> 0]
    <3>1. w \in Submitted
      BY LoginAssumption DEF Submitted, Work
    <3>2. \/ k \in DOMAIN waiting /\ waiting'[k] = waiting[k]
          \/ waiting'[k] = w
      <4> HIDE DEF w
      <4>1. waiting' = Append(waiting, w)
        BY <2>3 DEF w
      <4> QED
        BY <1>5, <3>1, <4>1, QueueTyped
    <3>3. CASE waiting'[k] = w
      <4>1. pc = "echo"
        BY <1>5, <3>3
      <4>2. Serves(c)
        BY <2>3, <4>1 DEF HeartBeatSecond, Serves
      <4>3. Serves(c)'
        BY <1>1, <4>2
      <4> QED
        BY <3>3, <4>3 DEF Due
    <3> QED
      BY <1>2, <1>5, <3>2, <3>3
  <2> QED
    BY <2>1, <2>2, <2>3, QueueSteps
<1>6. \A k \in DOMAIN waiting' : waiting'[k].pc = "echo" => Serves(waiting[k].chan)'
  BY <1>5 DEF Due, Serves, Destroyed, Binary
<1>7. \A r \in Runner : at'[r].pc = "echo" => Serves(at[r].chan)'
  BY <1>4 DEF Due, Serves, Destroyed, Binary
<1> QED
  BY <1>6, <1>7 DEF EchoTasks

LEMMA EchoedNext ==
  TypeOK /\ EchoTasks /\ EchoMeansServed /\ [Next]_vars => EchoMeansServed'
<1> SUFFICES ASSUME TypeOK, EchoTasks, EchoMeansServed, [Next]_vars,
                    NEW c \in echoed'
             PROVE  Serves(c)'
  BY DEF EchoMeansServed, Serves, Destroyed, Binary
<1>1. c \in echoed \/ \E t \in Thread : at[t].pc = "echo" /\ at[t] # Idle /\ at[t].chan = c
  BY DEF Next, OnPool, OnLoop, OnBack, Client, Begin, Serve, Execute, Bind, Register,
         LogsIn, LoginThrows, Answer, Hook, ReadOnline, ReadHeartBeat, ReadData,
         ReadFrame, HandlerAdded, Inactive, ClientCloses, ClientVanishes, ReadIdle,
         Shut, AddBinary, AddHeartBeat, AddAfter, RemoveConnect, vars, frames
<1>2. CASE c \in echoed
  <2>1. c \in Channel /\ Serves(c)
    BY <1>2 DEF TypeOK, EchoMeansServed, Serves, Binary
  <2> QED
    BY <2>1, ServesStays
<1>3. ASSUME NEW t \in Thread, at[t].pc = "echo", at[t] # Idle, at[t].chan = c
      PROVE  Serves(c)'
  <2>1. c \in Channel
    BY <1>3, WorkTyped, RunnerTypes
  <2>2. Serves(c)
    BY <1>3, RunnerTypes DEF EchoTasks
  <2> QED
    BY <2>1, <2>2, ServesStays
<1> QED
  BY <1>1, <1>2, <1>3

(* A heartbeat is answered only on a channel whose messages are served, or *)
(* that is gone: HeartBeatHandler never gets an event before BinaryHandler *)
(* does, whichever thread has added them.                                  *)
THEOREM EchoCorrect == Spec => []EchoMeansServed
<1> DEFINE Inv == HandlersInv /\ EchoTasks /\ EchoMeansServed
<1>1. Init => Inv
  <2> SUFFICES ASSUME Init PROVE Inv
    OBVIOUS
  <2>1. OnOwn /\ AddedByLoop /\ BinaryThere /\ (\A r \in Runner : at[r].pc # "echo")
    BY RunnerTypes DEF Init, OnOwn, AddedByLoop, BinaryThere, Idle
  <2>2. Ended /\ EchoMeansServed
    BY DEF Init, Ended, Destroyed, EchoMeansServed
  <2>3. \A c \in Channel : /\ Binary(c) = "absent" /\ HeartBeat(c) = "absent"
                           /\ DOMAIN loop[c] = {}
    <3>1. \A c \in Channel : /\ Binary(c) = "absent" /\ HeartBeat(c) = "absent"
                             /\ loop[c] = <<>>
      BY DEF Init, Binary, HeartBeat, Handler
    <3>2. DOMAIN <<>> = {}
      OBVIOUS
    <3> QED
      BY <3>1, <3>2
  <2>4. PendingIsDue /\ DueIsThere /\ InOrder /\ HeartBeatSecond
    BY <2>3 DEF PendingIsDue, DueIsThere, InOrder, HeartBeatSecond
  <2>5. EchoTasks
    BY <2>1 DEF Init, EchoTasks
  <2> QED
    BY <2>1, <2>2, <2>4, <2>5 DEF HandlersInv
<1>2. TypeOK /\ Inv /\ [Next]_vars => Inv'
  BY BinaryThereNext, EndedNext, OnOwnNext, AddedByLoopNext, PendingIsDueNext,
     DueIsThereNext, InOrderNext, HeartBeatSecondNext, EchoTasksNext, EchoedNext
  DEF HandlersInv
<1> QED
  BY <1>1, <1>2, TypeCorrect, PTL DEF Spec

==============================================================================
