------------------------ MODULE LoginPipelineProofs ------------------------
(***************************************************************************)
(* Proofs about LoginPipeline, for any channels, threads, queue size and   *)
(* numbers of logins and frames.                                           *)
(***************************************************************************)
EXTENDS LoginPipeline, TLAPS

-----------------------------------------------------------------------------
(* Type correctness.                                                       *)

LEMMA RunnerTypes ==
  /\ Channel \subseteq Runner /\ Thread \subseteq Runner
  /\ Submitted \subseteq InProgress /\ Idle \notin InProgress
BY DEF Runner, Submitted, InProgress, Idle, Work

(* What a runner is at, and what it goes on to.                            *)
LEMMA WorkTyped ==
  ASSUME TypeOK, NEW r \in Runner, at[r] # Idle
  PROVE  /\ at[r] \in InProgress
         /\ at[r].chan \in Channel /\ at[r].login \in 0..MaxLogins
         /\ at[r].use \in 0..MaxLogins
         /\ [at EXCEPT ![r] = Idle] \in [Runner -> InProgress \cup {Idle}]
<1>1. at[r] \in InProgress
  BY DEF TypeOK
<1> QED
  BY <1>1 DEF TypeOK, InProgress, Work

LEMMA GoesTyped ==
  ASSUME TypeOK, NEW r \in Runner, at[r] # Idle,
         NEW to \in {"execute", "bind", "register", "notify", "hook", "message",
                     "echo", "addBinary", "addHeartBeat", "remove"}
  PROVE  [at EXCEPT ![r].pc = to] \in [Runner -> InProgress \cup {Idle}]
<1>1. at[r] \in InProgress
  BY DEF TypeOK
<1> QED
  BY <1>1 DEF TypeOK, InProgress, Work

LEMMA SubmitTyped ==
  ASSUME TypeOK, NEW c \in Channel, NEW i \in 0..MaxLogins,
         NEW pc \in {"execute", "message", "echo"}, Submit(pc, c, i)
  PROVE  waiting' \in Seq(Submitted) /\ Len(waiting') <= QueueSize
<1>1. [pc |-> pc, chan |-> c, login |-> i, use |-> 0] \in Submitted
  BY LoginAssumption DEF Submitted, Work
<1> QED
  BY <1>1, LoginAssumption DEF Submit, TypeOK

LEMMA InitTyped == Init => TypeOK
BY LoginAssumption DEF Init, TypeOK, Handler, Login

LEMMA NextTyped == TypeOK /\ [Next]_vars => TypeOK'
<1> SUFFICES ASSUME TypeOK, [Next]_vars PROVE TypeOK'
  OBVIOUS
<1> USE LoginAssumption, RunnerTypes
<1>1. ASSUME NEW t \in Thread, Begin(t)
      PROVE  TypeOK'
  <2>1. Head(waiting) \in Submitted /\ Tail(waiting) \in Seq(Submitted)
        /\ Len(Tail(waiting)) <= QueueSize
    BY <1>1 DEF Begin, TypeOK
  <2> QED
    BY <1>1, <2>1 DEF Begin, TypeOK, session, frames
<1>2. ASSUME NEW t \in Thread, Serve(t)
      PROVE  TypeOK'
  <2>1. /\ at' \in [Runner -> InProgress \cup {Idle}]
        /\ at[t].chan \in Channel
    BY <1>2, WorkTyped DEF Serve
  <2> QED
    BY <1>2, <2>1 DEF Serve, TypeOK, session
<1>3. ASSUME NEW t \in Thread, Execute(t)
      PROVE  TypeOK'
  <2>1. at[t] \in InProgress /\ at[t].chan \in Channel
    BY <1>3, WorkTyped DEF Execute
  <2>2. at' \in [Runner -> InProgress \cup {Idle}]
    BY <1>3, <2>1 DEF Execute, TypeOK, InProgress, Work
  <2> QED
    BY <1>3, <2>2 DEF Execute, TypeOK, session, frames
<1>4. ASSUME NEW t \in Thread, Bind(t)
      PROVE  TypeOK'
  <2>1. Goes(t, "bind", "register")
    BY <1>4 DEF Bind
  <2>2. at' \in [Runner -> InProgress \cup {Idle}]
    BY <2>1, GoesTyped DEF Goes
  <2>3. at[t].chan \in Channel /\ at[t].use \in 0..MaxLogins
    BY <2>1, WorkTyped DEF Goes
  <2> QED
    BY <1>4, <2>2, <2>3 DEF Bind, TypeOK, frames
<1>5. ASSUME NEW t \in Thread, Register(t)
      PROVE  TypeOK'
  <2>1. Goes(t, "register", "notify")
    BY <1>5 DEF Register
  <2>2. at' \in [Runner -> InProgress \cup {Idle}]
    BY <2>1, GoesTyped DEF Goes
  <2>3. at[t].chan \in Channel /\ at[t].use \in 0..MaxLogins
    BY <2>1, WorkTyped DEF Goes
  <2>4. registered' \in [Channel -> SUBSET (0..MaxLogins)]
        /\ balance' \in [Channel -> Int]
    BY <1>5, <2>3 DEF Register, TypeOK
  <2> QED
    BY <1>5, <2>2, <2>4 DEF Register, TypeOK, frames
<1>6. ASSUME NEW t \in Thread, LogsIn(t) \/ LoginThrows(t)
      PROVE  TypeOK'
  <2>1. PICK r \in {"true", "null"} : Answer(t, r)
    BY <1>6 DEF LogsIn, LoginThrows
  <2>2. at' \in [Runner -> InProgress \cup {Idle}]
    BY <2>1, GoesTyped, WorkTyped DEF Answer
  <2>3. at[t].chan \in Channel
    BY <2>1, WorkTyped DEF Answer
  <2>4. future' \in [Channel -> [Login -> {"none", "true", "null"}]]
    BY <2>1, <2>3 DEF Answer, TypeOK
  <2> QED
    BY <2>1, <2>2, <2>4 DEF Answer, TypeOK, session, frames
<1>7. ASSUME NEW c \in Channel, Hook(c)
      PROVE  TypeOK'
  <2>1. at' \in [Runner -> InProgress \cup {Idle}]
    BY <1>7, GoesTyped, WorkTyped DEF Hook
  <2>2. at[c].login \in 0..MaxLogins
    BY <1>7, WorkTyped DEF Hook
  <2>3. hooked' \in [Channel -> SUBSET (0..MaxLogins)]
    BY <1>7, <2>2 DEF Hook, TypeOK
  <2> QED
    BY <1>7, <2>1, <2>3 DEF Hook, TypeOK, session, frames
<1>8. ASSUME NEW c \in Channel, HandlerAdded(c)
      PROVE  TypeOK'
  <2>1. Head(loop[c]) \in Handler
        /\ loop' \in [Channel -> Seq(Handler \cup {"inactive"})]
    <3>1. Tail(loop[c]) \in Seq(Handler \cup {"inactive"})
      BY <1>8 DEF HandlerAdded, TypeOK
    <3> QED
      BY <1>8, <3>1 DEF HandlerAdded, TypeOK
  <2>2. pipeline' \in [Channel -> [Handler -> {"absent", "pending", "added"}]]
    BY <1>8, <2>1 DEF HandlerAdded, TypeOK
  <2> QED
    BY <1>8, <2>1, <2>2 DEF HandlerAdded, TypeOK, pool, session, frames
<1>9. ASSUME NEW c \in Channel, Inactive(c)
      PROVE  TypeOK'
  <2>1. loop' \in [Channel -> Seq(Handler \cup {"inactive"})]
    <3>0. loop[c] \in Seq(Handler \cup {"inactive"}) /\ loop[c] # <<>>
      BY <1>9 DEF Inactive, TypeOK
    <3>1. Tail(loop[c]) \in Seq(Handler \cup {"inactive"})
      BY <3>0
    <3>2. loop' = [loop EXCEPT ![c] = Tail(@)]
      BY <1>9 DEF Inactive
    <3> QED
      BY <3>1, <3>2 DEF TypeOK
  <2>2. registered' \in [Channel -> SUBSET (0..MaxLogins)] /\ balance' \in [Channel -> Int]
    <3>1. \/ UNCHANGED <<registered, balance>>
          \/ /\ registered' = [registered EXCEPT ![c] = @ \ {key[c]}]
             /\ balance' = [balance EXCEPT ![c] = @ - 1]
      BY <1>9 DEF Inactive
    <3>2. registered[c] \ {key[c]} \in SUBSET (0..MaxLogins)
      BY DEF TypeOK
    <3>3. balance[c] - 1 \in Int
      BY DEF TypeOK
    <3>4. registered' \in [Channel -> SUBSET (0..MaxLogins)]
      BY <3>1, <3>2 DEF TypeOK
    <3>5. balance' \in [Channel -> Int]
      BY <3>1, <3>3 DEF TypeOK
    <3> QED
      BY <3>4, <3>5
  <2>3. pipeline' \in [Channel -> [Handler -> {"absent", "pending", "added"}]]
        /\ logout' \in [Channel -> {"none", "calm", "busy"}]
    BY <1>9 DEF Inactive, TypeOK
  <2> QED
    BY <1>9, <2>1, <2>2, <2>3 DEF Inactive, TypeOK, pool, frames
<1>10. ASSUME NEW c \in Channel, ReadOnline(c)
       PROVE  TypeOK'
  <2>1. made[c] + 1 \in 0..MaxLogins /\ Submit("execute", c, made[c] + 1)
    BY <1>10 DEF ReadOnline, TypeOK
  <2>2. waiting' \in Seq(Submitted) /\ Len(waiting') <= QueueSize
    BY <2>1, SubmitTyped
  <2>3. at' \in [Runner -> InProgress \cup {Idle}]
    BY <1>10, <2>1 DEF ReadOnline, TypeOK, InProgress, Work
  <2> QED
    BY <1>10, <2>1, <2>2, <2>3 DEF ReadOnline, TypeOK, frames
<1>11. ASSUME NEW c \in Channel, ReadHeartBeat(c) \/ ReadData(c)
       PROVE  TypeOK'
  <2>1. PICK h \in Handler, pc \in {"message", "echo"} : ReadFrame(c, h, pc)
    BY <1>11 DEF ReadHeartBeat, ReadData, Handler
  <2>2. waiting' \in Seq(Submitted) /\ Len(waiting') <= QueueSize
    BY <2>1, SubmitTyped DEF ReadFrame
  <2>3. served' \in [Channel -> 0..MaxFrames]
    BY <2>1 DEF ReadFrame, TypeOK
  <2> QED
    BY <2>1, <2>2, <2>3 DEF ReadFrame, TypeOK, session
<1>12. ASSUME NEW c \in Channel, ClientCloses(c) \/ ReadIdle(c)
       PROVE  TypeOK'
  <2>1. Shut(c)
    BY <1>12 DEF ClientCloses, ReadIdle
  <2>2. loop' \in [Channel -> Seq(Handler \cup {"inactive"})]
    <3>1. Append(loop[c], "inactive") \in Seq(Handler \cup {"inactive"})
      BY DEF TypeOK
    <3> QED
      BY <2>1, <3>1 DEF Shut, TypeOK
  <2> QED
    BY <2>1, <2>2 DEF Shut, TypeOK, pool, session, frames
<1>13. ASSUME NEW c \in Channel, ClientVanishes(c)
       PROVE  TypeOK'
  BY <1>13 DEF ClientVanishes, TypeOK, pool, session, frames
<1>14. ASSUME NEW r \in Runner, AddBinary(r) \/ AddHeartBeat(r)
       PROVE  TypeOK'
  <2>1. PICK h \in {"binary", "heartBeat"}, from \in {"addBinary", "addHeartBeat"},
             to \in {"addHeartBeat", "remove"} : AddAfter(r, from, h, to)
    BY <1>14 DEF AddBinary, AddHeartBeat
  <2> DEFINE c == at[r].chan
  <2>2. c \in Channel
    BY <2>1, WorkTyped DEF AddAfter
  <2>5. at' \in [Runner -> InProgress \cup {Idle}]
    <3>1. at' \in {[at EXCEPT ![r] = Idle], [at EXCEPT ![r].pc = to]} /\ at[r] # Idle
      BY <2>1 DEF AddAfter
    <3>2. [at EXCEPT ![r] = Idle] \in [Runner -> InProgress \cup {Idle}]
      BY <3>1, WorkTyped
    <3>3. [at EXCEPT ![r].pc = to] \in [Runner -> InProgress \cup {Idle}]
      BY <2>1, <3>1, GoesTyped
    <3> QED
      BY <3>1, <3>2, <3>3
  <2> HIDE DEF c
  <2>3. pipeline' \in [Channel -> [Handler -> {"absent", "pending", "added"}]]
    <3>1. h \in Handler
      BY <2>1 DEF Handler
    <3>2. CASE UNCHANGED pipeline
      BY <3>2 DEF TypeOK
    <3>3. ASSUME NEW v \in {"pending", "added"}, pipeline' = [pipeline EXCEPT ![c][h] = v]
          PROVE  pipeline' \in [Channel -> [Handler -> {"absent", "pending", "added"}]]
      BY <2>2, <3>1, <3>3 DEF TypeOK
    <3>4. \/ UNCHANGED pipeline
          \/ \E v \in {"pending", "added"} : pipeline' = [pipeline EXCEPT ![c][h] = v]
      BY <2>1 DEF AddAfter, c
    <3> QED
      BY <3>2, <3>3, <3>4
  <2>4. loop' \in [Channel -> Seq(Handler \cup {"inactive"})]
    <3>1. Append(loop[c], h) \in Seq(Handler \cup {"inactive"})
      BY <2>1, <2>2 DEF TypeOK, Handler
    <3>2. \/ UNCHANGED loop
          \/ loop' = [loop EXCEPT ![c] = Append(@, h)]
      BY <2>1 DEF AddAfter, c
    <3> QED
      BY <2>2, <3>1, <3>2 DEF TypeOK
  <2> QED
    BY <2>1, <2>3, <2>4, <2>5 DEF AddAfter, TypeOK, session, frames
<1>15. ASSUME NEW r \in Runner, RemoveConnect(r)
       PROVE  TypeOK'
  <2>1. at' \in [Runner -> InProgress \cup {Idle}] /\ at[r].chan \in Channel
    BY <1>15, WorkTyped DEF RemoveConnect
  <2> QED
    BY <1>15, <2>1 DEF RemoveConnect, TypeOK, session, frames
<1>16. CASE UNCHANGED vars
  BY <1>16 DEF vars, pool, session, frames, TypeOK
<1> QED
  BY <1>1, <1>2, <1>3, <1>4, <1>5, <1>6, <1>7, <1>8, <1>9, <1>10, <1>11, <1>12,
     <1>13, <1>14, <1>15, <1>16
  DEF Next, OnPool, OnLoop, OnBack, Client

(* Every step of the login pipeline keeps its types, and the pool's queue  *)
(* its capacity.                                                           *)
THEOREM TypeCorrect == Spec => []TypeOK
BY InitTyped, NextTyped, PTL DEF Spec

-----------------------------------------------------------------------------
(* What a step does to the handlers of a channel.                          *)

Swaps(r) == AddBinary(r) \/ AddHeartBeat(r) \/ RemoveConnect(r)

(* Nothing else touches a pipeline, or what its loop has been given.       *)
LEMMA PipelineSteps ==
  ASSUME TypeOK, [Next]_vars
  PROVE  \/ UNCHANGED <<pipeline, loop, logout>>
         \/ \E r \in Runner : Swaps(r)
         \/ \E c \in Channel : HandlerAdded(c) \/ Inactive(c) \/ Shut(c)
BY DEF Next, OnPool, OnLoop, OnBack, Client, Swaps, Begin, Serve, Execute, Bind,
       Register, LogsIn, LoginThrows, Answer, Hook, ReadOnline, ReadHeartBeat,
       ReadData, ReadFrame, ClientCloses, ClientVanishes, ReadIdle, vars

(* The successors of connectHandler stay as long as the channel does.      *)
LEMMA HandlersStay ==
  ASSUME TypeOK, [Next]_vars, NEW c \in Channel
  PROVE  /\ Destroyed(c) => Destroyed(c)'
         /\ \/ Destroyed(c)'
            \/ \A h \in {"binary", "heartBeat"} :
                 /\ pipeline[c][h] # "absent" => pipeline'[c][h] # "absent"
                 /\ pipeline[c][h] = "added" => pipeline'[c][h] = "added"
<1>1. CASE UNCHANGED <<pipeline, loop, logout>>
  BY <1>1 DEF Destroyed
<1>2. ASSUME NEW r \in Runner, AddBinary(r) \/ AddHeartBeat(r)
      PROVE  /\ Destroyed(c)' <=> Destroyed(c)
             /\ \A h \in {"binary", "heartBeat"} :
                  /\ pipeline[c][h] # "absent" => pipeline'[c][h] # "absent"
                  /\ pipeline[c][h] = "added" => pipeline'[c][h] = "added"
  <2>1. PICK h \in {"binary", "heartBeat"}, from \in {"addBinary", "addHeartBeat"},
             to \in {"addHeartBeat", "remove"} : AddAfter(r, from, h, to)
    BY <1>2 DEF AddBinary, AddHeartBeat
  <2>2. UNCHANGED logout
    BY <2>1 DEF AddAfter
  <2>3. \/ UNCHANGED pipeline
        \/ /\ at[r].chan \in Channel /\ pipeline[at[r].chan][h] = "absent"
           /\ \E v \in {"added", "pending"} :
                pipeline' = [pipeline EXCEPT ![at[r].chan][h] = v]
    BY <2>1, WorkTyped DEF AddAfter
  <2>4. h \in {"binary", "heartBeat"}
    BY <2>1
  <2>5. CASE UNCHANGED pipeline
    BY <2>2, <2>5 DEF Destroyed
  <2>6. ASSUME NEW v \in {"added", "pending"}, at[r].chan \in Channel,
               pipeline[at[r].chan][h] = "absent",
               pipeline' = [pipeline EXCEPT ![at[r].chan][h] = v]
        PROVE  \A g \in {"binary", "heartBeat"} :
                  /\ pipeline[c][g] # "absent" => pipeline'[c][g] # "absent"
                  /\ pipeline[c][g] = "added" => pipeline'[c][g] = "added"
    BY <2>4, <2>6 DEF TypeOK, Handler
  <2> QED
    BY <2>2, <2>3, <2>5, <2>6 DEF Destroyed
<1>3. ASSUME NEW r \in Runner, RemoveConnect(r)
      PROVE  /\ Destroyed(c)' <=> Destroyed(c)
             /\ \A h \in {"binary", "heartBeat"} : pipeline'[c][h] = pipeline[c][h]
  <2>1. at[r].chan \in Channel
    BY <1>3, WorkTyped DEF RemoveConnect
  <2> QED
    BY <1>3, <2>1 DEF RemoveConnect, Destroyed, TypeOK, Handler
<1>4. ASSUME NEW d \in Channel, HandlerAdded(d)
      PROVE  /\ Destroyed(c)' <=> Destroyed(c)
             /\ \A h \in {"binary", "heartBeat"} :
                  /\ pipeline[c][h] # "absent" => pipeline'[c][h] # "absent"
                  /\ pipeline[c][h] = "added" => pipeline'[c][h] = "added"
  <2>1. UNCHANGED logout
    BY <1>4 DEF HandlerAdded
  <2>2. PICK g \in Handler :
          pipeline' = [pipeline EXCEPT ![d][g] = IF @ = "pending" THEN "added" ELSE @]
    BY <1>4 DEF HandlerAdded
  <2> QED
    BY <2>1, <2>2 DEF Destroyed, TypeOK, Handler
<1>5. ASSUME NEW d \in Channel, Inactive(d)
      PROVE  /\ Destroyed(c) => Destroyed(c)'
             /\ d = c => Destroyed(c)'
             /\ d # c => pipeline'[c] = pipeline[c]
  BY <1>5 DEF Inactive, Destroyed, TypeOK
<1>6. ASSUME NEW d \in Channel, Shut(d)
      PROVE  UNCHANGED <<pipeline, logout>>
  BY <1>6 DEF Shut
<1> QED
  BY <1>1, <1>2, <1>3, <1>4, <1>5, <1>6, PipelineSteps DEF Swaps, Destroyed

-----------------------------------------------------------------------------
(* HandlerPresent: what onBack has added when it goes on.                  *)

BinaryThere ==
  \A r \in Runner :
    at[r].pc \in {"addHeartBeat", "remove"}
      => Destroyed(at[r].chan) \/ pipeline[at[r].chan]["binary"] # "absent"

HeartBeatThere ==
  \A r \in Runner :
    at[r].pc = "remove"
      => Destroyed(at[r].chan) \/ pipeline[at[r].chan]["heartBeat"] # "absent"

(* Whoever is about to go on with the exchange was already, or has just    *)
(* added a handler.                                                        *)
LEMMA SwapSteps ==
  ASSUME TypeOK, [Next]_vars, NEW r \in Runner,
         at'[r].pc \in {"addHeartBeat", "remove"}
  PROVE  \/ at'[r] = at[r]
         \/ AddBinary(r) /\ at' = [at EXCEPT ![r].pc = "addHeartBeat"]
         \/ AddHeartBeat(r) /\ at' = [at EXCEPT ![r].pc = "remove"]
<1>1. CASE at' = at
  BY <1>1
<1>2. ASSUME NEW t \in Runner, NEW w \in InProgress \cup {Idle},
             w.pc \notin {"addHeartBeat", "remove"}, at' = [at EXCEPT ![t] = w]
      PROVE  at'[r] = at[r]
  BY <1>2 DEF TypeOK
<1>3. ASSUME NEW t \in Thread, OnPool(t)
      PROVE  at'[r] = at[r]
  <2>1. CASE Begin(t)
    <3>1. Head(waiting) \in Submitted
      BY <2>1 DEF Begin, TypeOK
    <3>2. Head(waiting).pc \notin {"addHeartBeat", "remove"}
      BY <3>1 DEF Submitted, Work
    <3> QED
      BY <2>1, <3>2, RunnerTypes DEF Begin, TypeOK
  <2>2. CASE Serve(t)
    BY <2>2, RunnerTypes DEF Serve, TypeOK, Idle
  <2>3. CASE Execute(t) \/ Bind(t) \/ Register(t)
    <3>1. t \in Runner /\ at[t] # Idle
      BY <2>3, RunnerTypes DEF Execute, Bind, Register, Goes
    <3>2. at[t] \in InProgress
      BY <3>1, WorkTyped
    <3>3. \E w \in {"bind", "register", "notify"} :
            at' = [at EXCEPT ![t].pc = w] \/ \E u : at' = [at EXCEPT ![t].pc = w, ![t].use = u]
      BY <2>3 DEF Execute, Bind, Register, Goes
    <3>4. CASE t = r
      <4>1. at'[r].pc \in {"bind", "register", "notify"}
        BY <3>1, <3>2, <3>3, <3>4 DEF TypeOK, InProgress, Work
      <4> QED
        BY <4>1
    <3>5. CASE t # r
      BY <3>1, <3>3, <3>5 DEF TypeOK
    <3> QED
      BY <3>4, <3>5
  <2>4. CASE LogsIn(t) \/ LoginThrows(t)
    BY <2>4, WorkTyped, RunnerTypes DEF LogsIn, LoginThrows, Answer, TypeOK, InProgress, Work, Idle
  <2> QED
    BY <1>3, <2>1, <2>2, <2>3, <2>4 DEF OnPool
<1>4. ASSUME NEW c \in Channel, Hook(c) \/ ReadOnline(c)
      PROVE  at'[r] = at[r]
  <2>1. CASE Hook(c)
    BY <2>1, WorkTyped, RunnerTypes DEF Hook, TypeOK, InProgress, Work, Idle
  <2>2. CASE ReadOnline(c)
    BY <2>2, RunnerTypes DEF ReadOnline, TypeOK
  <2> QED
    BY <1>4, <2>1, <2>2
<1>5. ASSUME NEW t \in Runner, Swaps(t)
      PROVE  \/ at'[r] = at[r]
             \/ AddBinary(r) /\ at' = [at EXCEPT ![r].pc = "addHeartBeat"]
             \/ AddHeartBeat(r) /\ at' = [at EXCEPT ![r].pc = "remove"]
  <2>1. CASE AddBinary(t)
    <3>1. /\ at[t] # Idle
          /\ at' \in {[at EXCEPT ![t] = Idle], [at EXCEPT ![t].pc = "addHeartBeat"]}
      BY <2>1 DEF AddBinary, AddAfter
    <3> QED
      BY <2>1, <3>1 DEF TypeOK, Idle
  <2>2. CASE AddHeartBeat(t)
    <3>1. /\ at[t] # Idle
          /\ at' \in {[at EXCEPT ![t] = Idle], [at EXCEPT ![t].pc = "remove"]}
      BY <2>2 DEF AddHeartBeat, AddAfter
    <3> QED
      BY <2>2, <3>1 DEF TypeOK, Idle
  <2>3. CASE RemoveConnect(t)
    BY <2>3 DEF RemoveConnect, TypeOK, Idle
  <2> QED
    BY <1>5, <2>1, <2>2, <2>3 DEF Swaps
<1> QED
  BY <1>1, <1>3, <1>4, <1>5
  DEF Next, OnLoop, OnBack, Client, Swaps, HandlerAdded, Inactive, ReadHeartBeat,
      ReadData, ReadFrame, ClientCloses, ClientVanishes, ReadIdle, Shut, vars, pool

LEMMA BinaryThereNext ==
  TypeOK /\ BinaryThere /\ [Next]_vars => BinaryThere'
<1> SUFFICES ASSUME TypeOK, BinaryThere, [Next]_vars,
                    NEW r \in Runner, at'[r].pc \in {"addHeartBeat", "remove"}
             PROVE  (Destroyed(at[r].chan) \/ pipeline[at[r].chan]["binary"] # "absent")'
  BY DEF BinaryThere
<1>1. CASE at'[r] = at[r]
  <2>1. at[r] # Idle
    BY <1>1 DEF Idle
  <2>2. at[r].chan \in Channel
    BY <2>1, WorkTyped
  <2> QED
    BY <1>1, <2>2, HandlersStay DEF BinaryThere, Destroyed
<1>2. CASE AddBinary(r) /\ at' = [at EXCEPT ![r].pc = "addHeartBeat"]
  <2>1. at[r] # Idle /\ at[r].chan \in Channel
    BY <1>2, WorkTyped DEF AddBinary, AddAfter
  <2>4. at' # [at EXCEPT ![r] = Idle]
    BY DEF TypeOK, Idle
  <2>2. \E v \in {"added", "pending"} :
          pipeline' = [pipeline EXCEPT ![at[r].chan]["binary"] = v]
    BY <1>2, <2>4 DEF AddBinary, AddAfter
  <2>3. at'[r].chan = at[r].chan
    BY <1>2 DEF TypeOK
  <2> QED
    BY <2>1, <2>2, <2>3 DEF TypeOK, Handler
<1>3. CASE AddHeartBeat(r) /\ at' = [at EXCEPT ![r].pc = "remove"]
  <2>1. at[r] # Idle /\ at[r].pc = "addHeartBeat" /\ at[r].chan \in Channel
    BY <1>3, WorkTyped DEF AddHeartBeat, AddAfter
  <2>2. at'[r].chan = at[r].chan
    BY <1>3 DEF TypeOK
  <2> QED
    BY <2>1, <2>2, HandlersStay DEF BinaryThere, Destroyed
<1> QED
  BY <1>1, <1>2, <1>3, SwapSteps

LEMMA HeartBeatThereNext ==
  TypeOK /\ HeartBeatThere /\ [Next]_vars => HeartBeatThere'
<1> SUFFICES ASSUME TypeOK, HeartBeatThere, [Next]_vars,
                    NEW r \in Runner, at'[r].pc = "remove"
             PROVE  (Destroyed(at[r].chan) \/ pipeline[at[r].chan]["heartBeat"] # "absent")'
  BY DEF HeartBeatThere
<1>1. CASE at'[r] = at[r]
  <2>1. at[r] # Idle
    BY <1>1 DEF Idle
  <2>2. at[r].chan \in Channel
    BY <2>1, WorkTyped
  <2> QED
    BY <1>1, <2>2, HandlersStay DEF HeartBeatThere, Destroyed
<1>2. CASE AddHeartBeat(r) /\ at' = [at EXCEPT ![r].pc = "remove"]
  <2>1. at[r] # Idle /\ at[r].chan \in Channel
    BY <1>2, WorkTyped DEF AddHeartBeat, AddAfter
  <2>4. at' # [at EXCEPT ![r] = Idle]
    BY DEF TypeOK, Idle
  <2>2. \E v \in {"added", "pending"} :
          pipeline' = [pipeline EXCEPT ![at[r].chan]["heartBeat"] = v]
    BY <1>2, <2>4 DEF AddHeartBeat, AddAfter
  <2>3. at'[r].chan = at[r].chan
    BY <1>2 DEF TypeOK
  <2> QED
    BY <2>1, <2>2, <2>3 DEF TypeOK, Handler
<1>3. ~ (AddBinary(r) /\ at' = [at EXCEPT ![r].pc = "addHeartBeat"])
  <2> SUFFICES ASSUME AddBinary(r), at' = [at EXCEPT ![r].pc = "addHeartBeat"]
               PROVE  FALSE
    OBVIOUS
  <2>1. at[r] \in InProgress
    BY WorkTyped DEF AddBinary, AddAfter
  <2> QED
    BY <2>1 DEF TypeOK, InProgress, Work
<1> QED
  BY <1>1, <1>2, <1>3, SwapSteps

LEMMA PresentNext ==
  TypeOK /\ BinaryThere /\ HeartBeatThere /\ HandlerPresent /\ [Next]_vars
    => HandlerPresent'
<1> SUFFICES ASSUME TypeOK, BinaryThere, HeartBeatThere, HandlerPresent,
                    [Next]_vars, NEW c \in Channel, ~ Destroyed(c)'
             PROVE  \/ pipeline'[c]["connectHandler"] = "added"
                    \/ \A h \in {"heartBeat", "binary"} : pipeline'[c][h] # "absent"
  BY DEF HandlerPresent, Destroyed
<1>1. CASE \A h \in {"heartBeat", "binary"} : pipeline[c][h] # "absent"
  BY <1>1, HandlersStay
<1>2. CASE pipeline[c]["connectHandler"] = "added"
  <2>1. CASE UNCHANGED <<pipeline, loop, logout>>
    BY <1>2, <2>1
  <2>2. ASSUME NEW r \in Runner, AddBinary(r) \/ AddHeartBeat(r)
        PROVE  pipeline'[c]["connectHandler"] = "added"
    <3>1. PICK h \in {"binary", "heartBeat"}, from \in {"addBinary", "addHeartBeat"},
               to \in {"addHeartBeat", "remove"} : AddAfter(r, from, h, to)
      BY <2>2 DEF AddBinary, AddHeartBeat
    <3>2. \/ UNCHANGED pipeline
          \/ \E v \in {"added", "pending"} :
               pipeline' = [pipeline EXCEPT ![at[r].chan][h] = v]
      BY <3>1 DEF AddAfter
    <3>3. h # "connectHandler"
      BY <3>1
    <3>4. ASSUME NEW v, pipeline' = [pipeline EXCEPT ![at[r].chan][h] = v]
          PROVE  pipeline'[c]["connectHandler"] = pipeline[c]["connectHandler"]
      BY <3>3, <3>4 DEF TypeOK, Handler
    <3> QED
      BY <1>2, <3>2, <3>4
  <2>3. ASSUME NEW r \in Runner, RemoveConnect(r)
        PROVE  \/ pipeline'[c]["connectHandler"] = "added"
               \/ \A h \in {"heartBeat", "binary"} : pipeline'[c][h] # "absent"
    <3>1. CASE at[r].chan = c
      BY <2>3, <3>1, HandlersStay DEF RemoveConnect, BinaryThere, HeartBeatThere
    <3>2. CASE at[r].chan # c
      BY <1>2, <2>3, <3>2 DEF RemoveConnect, TypeOK
    <3> QED
      BY <3>1, <3>2
  <2>4. ASSUME NEW d \in Channel, HandlerAdded(d)
        PROVE  pipeline'[c]["connectHandler"] = "added"
    BY <1>2, <2>4 DEF HandlerAdded, TypeOK, Handler
  <2>5. ASSUME NEW d \in Channel, Inactive(d)
        PROVE  pipeline'[c]["connectHandler"] = "added"
    BY <1>2, <2>5 DEF Inactive, Destroyed, TypeOK
  <2>6. ASSUME NEW d \in Channel, Shut(d)
        PROVE  pipeline'[c]["connectHandler"] = "added"
    BY <1>2, <2>6 DEF Shut
  <2> QED
    BY <2>1, <2>2, <2>3, <2>4, <2>5, <2>6, PipelineSteps DEF Swaps
<1>3. ~ Destroyed(c)
  BY HandlersStay
<1> QED
  BY <1>1, <1>2, <1>3 DEF HandlerPresent

(* A live channel always has connectHandler or both of its successors,     *)
(* however many logins run on it and however they are interleaved.         *)
THEOREM PresentCorrect == Spec => []HandlerPresent
<1> DEFINE Inv == BinaryThere /\ HeartBeatThere /\ HandlerPresent
<1>1. Init => Inv
  <2> SUFFICES ASSUME Init PROVE Inv
    OBVIOUS
  <2>1. BinaryThere /\ HeartBeatThere
    BY DEF Init, BinaryThere, HeartBeatThere, Idle
  <2>2. HandlerPresent
    BY DEF Init, HandlerPresent, Handler
  <2> QED
    BY <2>1, <2>2
<1>2. TypeOK /\ Inv /\ [Next]_vars => Inv'
  BY BinaryThereNext, HeartBeatThereNext, PresentNext
<1> QED
  BY <1>1, <1>2, TypeCorrect, PTL DEF Spec
=============================================================================
