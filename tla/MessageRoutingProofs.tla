-------------------------- MODULE MessageRoutingProofs --------------------------
(***************************************************************************)
(* Proofs about MessageRouting, for any nodes, users, sessions, messages   *)
(* and links: its types, and how often a session is given a message.  The  *)
(* copies of a message are counted wherever they are: waiting for a task,  *)
(* held by tasks, on the way between two nodes, delivered, and still owed  *)
(* by the node that the client sent it to.                                 *)
(***************************************************************************)
EXTENDS MessageRouting, FiniteSetTheorems, TLAPS

(* Each copy in a bag of the elements of S, as an element of its own.      *)
Tokens(B, S) == UNION {{t} \X (1..B[t]) : t \in BagToSet(B) \cap S}

(* The tasks at n for the message m, and those that still write to s.      *)
TasksFor(n, m) == {t \in Task : t.node = n /\ t.msg = m}
TasksWith(n, m, s) == {t \in TasksFor(n, m) : s \in t.todo}

Begun(n, m) == Cardinality(Tokens(running, TasksFor(n, m)))
Writing(n, m, s) == Cardinality(Tokens(running, TasksWith(n, m, s)))

Fresh(m) == IF m \in sent THEN 0 ELSE 1

DevicesAt(m, n) == {d \in Devices(To[m]) : HomeOf[d] = n}
DeviceCount(m, n) == Cardinality(DevicesAt(m, n))

(* The positions of m among what has been written to the link l.           *)
Places(m, l) == {i \in 1..Len(pipe[l]) : pipe[l][i] = m}
Piped(m, l) == IF l \in Linked THEN Cardinality(Places(m, l)) ELSE 0

(* The devices at n to which the sender's node has yet to forward m.       *)
Owed(m, n) ==
  IF m \notin sent \/ queued[From[m]][m] > 0 THEN DevicesAt(m, n)
  ELSE {d \in DevicesAt(m, n) :
          \E t \in BagToSet(running) : t \in TasksWith(From[m], m, d)}

Owing(m, n) == Cardinality(Owed(m, n))

(* Where a message gets to.                                                *)
Holds(m, n) == n = From[m] \/ \E d \in Devices(To[m]) : HomeOf[d] = n

Whereabouts(m) ==
  /\ \A t \in BagToSet(running) :
       t.msg = m => t.todo \subseteq Devices(To[m]) /\ Holds(m, t.node)
  /\ \A n \in Node : queued[n][m] > 0 => Holds(m, n)
  /\ \A l \in Linked : Piped(m, l) > 0 => l[1] = From[m] /\ Holds(m, l[2])

Origin(m) == Fresh(m) + queued[From[m]][m] + Begun(From[m], m) <= 1

HereCount(m, s) ==
  got[s][m] + Fresh(m) + queued[HomeOf[s]][m] + Writing(HomeOf[s], m, s)

ThereCount(m, s) ==
  got[s][m] + queued[HomeOf[s]][m] + Writing(HomeOf[s], m, s)
    + Piped(m, <<From[m], HomeOf[s]>>) + Owing(m, HomeOf[s])

Delivered(m, s) ==
  IF s \notin Devices(To[m]) THEN got[s][m] = 0
  ELSE IF HomeOf[s] = From[m] THEN HereCount(m, s) <= 1
  ELSE ThereCount(m, s) <= DeviceCount(m, HomeOf[s])

FinitelyBegun == IsFiniteSet(Tokens(running, Task))

CopiesOf(m) == Whereabouts(m) /\ Origin(m) /\ \A s \in Session : Delivered(m, s)

CopiesInv == \A m \in Message : StaysThere(m) => CopiesOf(m)

-----------------------------------------------------------------------------
(* Bags.                                                                   *)

Plus(B, e) == B (+) SetToBag({e})
Minus(B, e) == B (-) SetToBag({e})

LEMMA BagPlus ==
  ASSUME NEW B, IsABag(B), NEW e
  PROVE  /\ IsABag(Plus(B, e)) /\ BagToSet(Plus(B, e)) = BagToSet(B) \cup {e}
         /\ Plus(B, e)[e] = IF e \in BagToSet(B) THEN B[e] + 1 ELSE 1
         /\ \A t \in BagToSet(B) \ {e} : Plus(B, e)[t] = B[t]
BY DEF Plus, IsABag, BagToSet, SetToBag, (+)

LEMMA BagPlusNothing ==
  ASSUME NEW B, IsABag(B)
  PROVE  B (+) EmptyBag = B
<1>1. DOMAIN (B (+) EmptyBag) = DOMAIN B /\ \A t \in DOMAIN B : (B (+) EmptyBag)[t] = B[t]
  BY DEF IsABag, EmptyBag, SetToBag, (+)
<1> QED
  BY <1>1 DEF IsABag, (+)

LEMMA BagMinus ==
  ASSUME NEW B, IsABag(B), NEW e \in BagToSet(B)
  PROVE  /\ IsABag(Minus(B, e))
         /\ BagToSet(Minus(B, e)) = IF B[e] = 1 THEN BagToSet(B) \ {e} ELSE BagToSet(B)
         /\ e \in BagToSet(Minus(B, e)) => Minus(B, e)[e] = B[e] - 1
         /\ \A t \in BagToSet(B) \ {e} :
              t \in BagToSet(Minus(B, e)) /\ Minus(B, e)[t] = B[t]
<1> DEFINE D == [t \in DOMAIN B |-> IF t \in {e} THEN B[t] - 1 ELSE B[t]]
           C == Minus(B, e)
<1>1. D = [t \in DOMAIN B |-> IF t \in DOMAIN SetToBag({e}) THEN B[t] - SetToBag({e})[t]
                                                           ELSE B[t]]
  BY DEF SetToBag, IsABag
<1>2. C = [t \in {d \in DOMAIN D : D[d] > 0} |-> D[t]]
  BY <1>1 DEF (-), Minus
<1>3. e \in DOMAIN B /\ \A t \in DOMAIN B : B[t] \in Nat /\ B[t] > 0
  BY DEF IsABag, BagToSet
<1>4. DOMAIN D = DOMAIN B /\ D[e] = B[e] - 1 /\ \A t \in DOMAIN B \ {e} : D[t] = B[t]
  BY <1>3
<1> HIDE DEF C, D
<1>5. /\ \A t : t \in DOMAIN C <=> t \in DOMAIN B /\ D[t] > 0
      /\ \A t \in DOMAIN C : C[t] = D[t]
  BY <1>2, <1>4
<1>6. IsABag(C)
  <2>1. \A t \in DOMAIN C : C[t] \in {n \in Nat : n > 0}
    BY <1>3, <1>4, <1>5
  <2>2. C = [t \in DOMAIN C |-> C[t]]
    BY <1>2
  <2> QED
    BY <2>1, <2>2 DEF IsABag
<1>7. DOMAIN C = IF B[e] = 1 THEN DOMAIN B \ {e} ELSE DOMAIN B
  <2>1. \A t \in DOMAIN B \ {e} : t \in DOMAIN C
    BY <1>3, <1>4, <1>5
  <2>2. e \in DOMAIN C <=> B[e] # 1
    BY <1>3, <1>4, <1>5
  <2> QED
    BY <1>3, <1>5, <2>1, <2>2
<1>8. /\ e \in DOMAIN C => C[e] = B[e] - 1
      /\ \A t \in DOMAIN B \ {e} : t \in DOMAIN C /\ C[t] = B[t]
  BY <1>3, <1>4, <1>5
<1> QED
  BY <1>6, <1>7, <1>8 DEF BagToSet, C

LEMMA TokensAre ==
  ASSUME NEW B, NEW S
  PROVE  \A c : c \in Tokens(B, S)
                  <=> \E t \in BagToSet(B) \cap S : \E k \in 1..B[t] : c = <<t, k>>
BY DEF Tokens

LEMMA TokenIs ==
  ASSUME NEW B, NEW S, NEW t, NEW k
  PROVE  <<t, k>> \in Tokens(B, S) <=> t \in BagToSet(B) /\ t \in S /\ k \in 1..B[t]
BY TokensAre

(* One copy more of e, and one less.                                       *)
LEMMA TokensPlus ==
  ASSUME NEW B, IsABag(B), NEW e, NEW C, C = Plus(B, e), NEW S,
         IsFiniteSet(Tokens(B, S))
  PROVE  /\ IsFiniteSet(Tokens(C, S))
         /\ Cardinality(Tokens(C, S))
              = Cardinality(Tokens(B, S)) + (IF e \in S THEN 1 ELSE 0)
<1>1. /\ BagToSet(C) = BagToSet(B) \cup {e}
      /\ C[e] = IF e \in BagToSet(B) THEN B[e] + 1 ELSE 1
      /\ \A t \in BagToSet(B) \ {e} : C[t] = B[t]
  BY BagPlus
<1>2. \A t \in BagToSet(B) : B[t] \in Nat /\ B[t] > 0
  BY DEF IsABag, BagToSet
<1>3. CASE e \in S
  <2> DEFINE c == <<e, C[e]>>
  <2>1. c \notin Tokens(B, S)
    <3>1. \A k \in 1..B[e] : e \in BagToSet(B) => k # C[e]
      BY <1>1, <1>2
    <3> QED
      BY <3>1, TokensAre
  <2>2. Tokens(C, S) = Tokens(B, S) \cup {c}
    <3>1. \A t \in BagToSet(B) \ {e} : 1..C[t] = 1..B[t]
      BY <1>1
    <3>2. e \in BagToSet(B) => 1..C[e] = 1..B[e] \cup {C[e]}
      BY <1>1, <1>2
    <3>3. e \notin BagToSet(B) => 1..C[e] = {C[e]}
      BY <1>1
    <3>4. ASSUME NEW x
          PROVE  x \in Tokens(C, S) <=> x \in Tokens(B, S) \/ x = c
      <4>1. CASE \E t \in BagToSet(B) \ {e} : \E k : x = <<t, k>>
        BY <1>1, <3>1, <4>1, TokensAre
      <4>2. ASSUME NEW k, x = <<e, k>>
            PROVE  x \in Tokens(C, S) <=> x \in Tokens(B, S) \/ x = c
        BY <1>1, <1>3, <3>2, <3>3, <4>2, TokensAre
      <4>3. CASE ~ \E t \in BagToSet(B) \cup {e} : \E k : x = <<t, k>>
        BY <1>1, <4>3, TokensAre
      <4> QED
        BY <4>1, <4>2, <4>3
    <3> QED
      BY <3>4
  <2> HIDE DEF c
  <2> QED
    BY <1>3, <2>1, <2>2, FS_AddElement
<1>4. CASE e \notin S
  <2>1. Tokens(C, S) = Tokens(B, S)
    BY <1>1, <1>4 DEF Tokens
  <2>2. Cardinality(Tokens(B, S)) \in Nat
    BY FS_CardinalityType
  <2> QED
    BY <1>4, <2>1, <2>2
<1> QED
  BY <1>3, <1>4

LEMMA TokensMinus ==
  ASSUME NEW B, IsABag(B), NEW e \in BagToSet(B), NEW C, C = Minus(B, e), NEW S,
         IsFiniteSet(Tokens(B, S))
  PROVE  /\ IsFiniteSet(Tokens(C, S))
         /\ Cardinality(Tokens(C, S))
              = Cardinality(Tokens(B, S)) - (IF e \in S THEN 1 ELSE 0)
<1>1. /\ BagToSet(C) = IF B[e] = 1 THEN BagToSet(B) \ {e} ELSE BagToSet(B)
      /\ e \in BagToSet(C) => C[e] = B[e] - 1
      /\ \A t \in BagToSet(B) \ {e} : t \in BagToSet(C) /\ C[t] = B[t]
  BY BagMinus
<1>2. \A t \in BagToSet(B) : B[t] \in Nat /\ B[t] > 0
  BY DEF IsABag, BagToSet
<1>3. CASE e \in S
  <2> DEFINE c == <<e, B[e]>>
  <2>1. c \in Tokens(B, S)
    <3>1. B[e] \in 1..B[e]
      BY <1>2
    <3> QED
      BY <1>3, <3>1, TokensAre
  <2>2. Tokens(C, S) = Tokens(B, S) \ {c}
    <3>1. \A t \in BagToSet(B) \ {e} : 1..C[t] = 1..B[t] /\ t \in BagToSet(C)
      BY <1>1
    <3>2. e \in BagToSet(C) => 1..C[e] = 1..B[e] \ {B[e]}
      BY <1>1, <1>2
    <3>3. e \notin BagToSet(C) => 1..B[e] = {B[e]}
      BY <1>1, <1>2
    <3>4. BagToSet(C) \subseteq BagToSet(B)
      BY <1>1
    <3>5. ASSUME NEW x
          PROVE  x \in Tokens(C, S) <=> x \in Tokens(B, S) /\ x # c
      <4>1. ASSUME NEW t \in BagToSet(B) \ {e}, NEW k, x = <<t, k>>
            PROVE  x \in Tokens(C, S) <=> x \in Tokens(B, S) /\ x # c
        <5>1. x # c /\ t \in BagToSet(B) /\ t \in BagToSet(C) /\ 1..C[t] = 1..B[t]
          BY <3>1, <4>1
        <5> QED
          BY <4>1, <5>1, TokenIs
      <4>2. ASSUME NEW k, x = <<e, k>>
            PROVE  x \in Tokens(C, S) <=> x \in Tokens(B, S) /\ x # c
        BY <1>3, <3>2, <3>3, <4>2, TokensAre
      <4>3. CASE ~ \E t \in BagToSet(B) : \E k : x = <<t, k>>
        BY <3>4, <4>3, TokensAre
      <4> QED
        BY <4>1, <4>2, <4>3
    <3> QED
      BY <3>5
  <2> HIDE DEF c
  <2> QED
    BY <1>3, <2>1, <2>2, FS_RemoveElement
<1>4. CASE e \notin S
  <2>1. Tokens(C, S) = Tokens(B, S)
    BY <1>1, <1>4 DEF Tokens
  <2>2. Cardinality(Tokens(B, S)) \in Nat
    BY FS_CardinalityType
  <2> QED
    BY <1>4, <2>1, <2>2
<1> QED
  BY <1>3, <1>4

LEMMA TokensPart ==
  ASSUME NEW B, NEW S, NEW T, S \subseteq T, IsFiniteSet(Tokens(B, T))
  PROVE  IsFiniteSet(Tokens(B, S)) /\ Cardinality(Tokens(B, S)) \in Nat
<1>1. Tokens(B, S) \subseteq Tokens(B, T)
  BY DEF Tokens
<1> QED
  BY <1>1, FS_Subset, FS_CardinalityType

-----------------------------------------------------------------------------
(* Type correctness.                                                       *)

(* A lookup begins a task; a write ends one, or goes on with what is left. *)
Begins(n, m) == [node |-> n, msg |-> m, todo |-> listed \cap Devices(To[m])]
Rest(t, r) == [t EXCEPT !.todo = r]

LEMMA LookupBag ==
  ASSUME TypeOK, NEW n \in Node, NEW m \in Message, Lookup(n, m)
  PROVE  /\ Begins(n, m) \in Task
         /\ running' = IF listed \cap Devices(To[m]) = {} THEN running
                       ELSE Plus(running, Begins(n, m))
BY DEF TypeOK, Lookup, Begins, Plus, Task, Devices

LEMMA WriteBag ==
  ASSUME TypeOK, NEW t \in BagToSet(running), NEW s \in t.todo, running' = AfterWrite(t, s)
  PROVE  \E r \in SUBSET (t.todo \ {s}) :
           /\ Rest(t, r) \in Task
           /\ running' = IF r = {} THEN Minus(running, t)
                         ELSE Plus(Minus(running, t), Rest(t, r))
<1> DEFINE r == IF Throws(t.node, s) THEN {} ELSE t.todo \ {s}
<1>1. t \in Task
  BY DEF TypeOK
<1>2. r \in SUBSET (t.todo \ {s})
  OBVIOUS
<1>3. Rest(t, r) \in Task
  BY <1>1, <1>2 DEF Task, Rest
<1>4. IsABag(Minus(running, t))
  BY BagMinus DEF TypeOK
<1>5. running' = Minus(running, t)
                   (+) (IF r = {} THEN EmptyBag ELSE SetToBag({Rest(t, r)}))
  BY DEF AfterWrite, Minus, Rest
<1> HIDE DEF r
<1>6. CASE r = {}
  BY <1>2, <1>3, <1>4, <1>5, <1>6, BagPlusNothing
<1>7. CASE r # {}
  BY <1>2, <1>3, <1>5, <1>7 DEF Plus
<1> QED
  BY <1>6, <1>7

LEMMA BagTyped ==
  ASSUME NEW B, IsABag(B), BagToSet(B) \subseteq Task
  PROVE  /\ \A e \in Task : IsABag(Plus(B, e)) /\ BagToSet(Plus(B, e)) \subseteq Task
         /\ \A e \in BagToSet(B) : IsABag(Minus(B, e)) /\ BagToSet(Minus(B, e)) \subseteq Task
BY BagPlus, BagMinus

LEMMA PipeHead ==
  ASSUME TypeOK, NEW l \in Linked, pipe[l] # <<>>
  PROVE  /\ Head(pipe[l]) \in Message \cup {"hello"}
         /\ Tail(pipe[l]) \in Seq(Message \cup {"hello"})
<1>1. pipe[l] \in Seq(Message \cup {"hello"})
  BY DEF TypeOK
<1> QED
  BY <1>1

LEMMA PipeAppend ==
  ASSUME TypeOK, NEW l \in Linked, NEW x \in Message \cup {"hello"}
  PROVE  Append(pipe[l], x) \in Seq(Message \cup {"hello"})
<1>1. pipe[l] \in Seq(Message \cup {"hello"})
  BY DEF TypeOK
<1> QED
  BY <1>1

LEMMA LinkEnds == \A l \in Linked : l = <<l[1], l[2]>> /\ l[1] \in Node /\ l[2] \in Node /\ l[1] # l[2]
BY RoutingAssumption

LEMMA InitTyped == Init => TypeOK
<1>1. IsABag(EmptyBag) /\ BagToSet(EmptyBag) \subseteq Task
  BY DEF IsABag, BagToSet, EmptyBag, SetToBag
<1> QED
  BY <1>1, RoutingAssumption DEF Init, TypeOK

LEMMA NextTyped == TypeOK /\ [Next]_vars => TypeOK'
<1> SUFFICES ASSUME TypeOK, [Next]_vars PROVE TypeOK'
  OBVIOUS
<1>1. ASSUME NEW m \in Message, ClientSends(m)
      PROVE  TypeOK'
  BY <1>1, RoutingAssumption DEF ClientSends, TypeOK
<1>2. ASSUME NEW n \in Node, NEW m \in Message, Lookup(n, m)
      PROVE  TypeOK'
  <2>1. IsABag(running') /\ BagToSet(running') \subseteq Task
    BY <1>2, LookupBag, BagTyped DEF TypeOK
  <2>2. queued' \in [Node -> [Message -> Nat]]
    BY <1>2 DEF Lookup, TypeOK
  <2> QED
    BY <1>2, <2>1, <2>2 DEF Lookup, TypeOK
<1>3. ASSUME NEW t \in BagToSet(running), NEW s \in Session, Write(t, s)
      PROVE  TypeOK'
  <2>1. t \in Task
    BY DEF TypeOK
  <2>2. IsABag(running') /\ BagToSet(running') \subseteq Task
    <3>1. PICK r : /\ Rest(t, r) \in Task
                   /\ running' = IF r = {} THEN Minus(running, t)
                                 ELSE Plus(Minus(running, t), Rest(t, r))
      BY <1>3, WriteBag DEF Write
    <3>2. IsABag(Minus(running, t)) /\ BagToSet(Minus(running, t)) \subseteq Task
      BY BagTyped DEF TypeOK
    <3> QED
      BY <3>1, <3>2, BagTyped
  <2>3. got' \in [Session -> [Message -> 0..GotCap]]
    <3>1. \/ got' = got
          \/ \E k \in {got[s][t.msg], got[s][t.msg] + 1} :
               k <= GotCap /\ got' = [got EXCEPT ![s][t.msg] = k]
      <4>1. t.msg \in Message /\ got[s][t.msg] \in 0..GotCap /\ GotCap \in Nat
        BY <2>1, RoutingAssumption DEF TypeOK, Task
      <4>2. CASE got[s][t.msg] < GotCap
        BY <1>3, <4>1, <4>2 DEF Write
      <4>3. CASE ~ (got[s][t.msg] < GotCap)
        BY <1>3, <4>1, <4>3 DEF Write
      <4> QED
        BY <4>2, <4>3
    <3>2. t.msg \in Message /\ got[s][t.msg] \in 0..GotCap /\ GotCap \in Nat
      BY <2>1, RoutingAssumption DEF TypeOK, Task
    <3>3. ASSUME NEW k \in {got[s][t.msg], got[s][t.msg] + 1}, k <= GotCap,
                 got' = [got EXCEPT ![s][t.msg] = k]
          PROVE  got' \in [Session -> [Message -> 0..GotCap]]
      <4>1. k \in 0..GotCap
        BY <3>2, <3>3
      <4> QED
        BY <3>2, <3>3, <4>1 DEF TypeOK
    <3> QED
      BY <3>1, <3>3 DEF TypeOK
  <2>4. pipe' \in [Linked -> Seq(Message \cup {"hello"})]
    <3>1. CASE HomeOf[s] # t.node /\ Routed(t.node, s)
      <4>1. PICK l \in Linked : pipe' = [pipe EXCEPT ![l] = Append(@, t.msg)]
        BY <1>3, <3>1 DEF Write, Routed, Behind
      <4>2. Append(pipe[l], t.msg) \in Seq(Message \cup {"hello"})
        BY <2>1, PipeAppend DEF Task
      <4> QED
        BY <4>1, <4>2 DEF TypeOK
    <3>2. CASE ~ (HomeOf[s] # t.node /\ Routed(t.node, s))
      BY <1>3, <3>2 DEF Write, TypeOK
    <3> QED
      BY <3>1, <3>2
  <2> QED
    BY <1>3, <2>2, <2>3, <2>4 DEF Write, TypeOK
<1>4. ASSUME NEW l \in Linked, Connect(l), link[l] = "down"
      PROVE  TypeOK'
  BY <1>4 DEF Connect, TypeOK
<1>5. ASSUME NEW l \in Linked, Connect(l), link[l] # "down"
      PROVE  TypeOK'
  <2>1. Append(pipe[l], "hello") \in Seq(Message \cup {"hello"})
    BY PipeAppend
  <2> QED
    BY <1>5, <2>1 DEF Connect, TypeOK
<1>6. ASSUME NEW l \in Linked, Lose(l)
      PROVE  TypeOK'
  <2>1. link' \in [Linked -> {"down", "flagged", "up", "losing", "lost"}]
    BY <1>6 DEF Lose, TypeOK
  <2>2. pipe' \in [Linked -> Seq(Message \cup {"hello"})]
    BY <1>6 DEF Lose, TypeOK
  <2> QED
    BY <1>6, <2>1, <2>2 DEF Lose, TypeOK
<1>7. ASSUME NEW l \in Linked, ReceiveHello(l)
      PROVE  TypeOK'
  <2>1. Tail(pipe[l]) \in Seq(Message \cup {"hello"})
    BY <1>7, PipeHead DEF ReceiveHello
  <2> QED
    BY <1>7, <2>1 DEF ReceiveHello, TypeOK
<1>8. ASSUME NEW l \in Linked, Receive(l)
      PROVE  TypeOK'
  <2>1. Tail(pipe[l]) \in Seq(Message \cup {"hello"}) /\ Head(pipe[l]) \in Message
    BY <1>8, PipeHead DEF Receive
  <2>2. queued' \in [Node -> [Message -> Nat]]
    BY <1>8, <2>1, LinkEnds DEF Receive, TypeOK
  <2> QED
    BY <1>8, <2>1, <2>2 DEF Receive, TypeOK
<1>9. ASSUME NEW s \in Session, CloseChannel(s) \/ Unlist(s)
      PROVE  TypeOK'
  BY <1>9 DEF CloseChannel, Unlist, TypeOK
<1>10. CASE UNCHANGED vars
  BY <1>10 DEF vars, TypeOK
<1> QED
  BY <1>1, <1>2, <1>3, <1>4, <1>5, <1>6, <1>7, <1>8, <1>9, <1>10 DEF Next, Writes

(* Every state of the routing is well typed, for any nodes, devices,       *)
(* messages and links: a node forwards messages and nothing else, and what *)
(* it reads from a connection is a message or the notice.                  *)
THEOREM RoutingTyped == Spec => []TypeOK
  BY InitTyped, NextTyped, PTL DEF Spec

-----------------------------------------------------------------------------
(* The counts.                                                             *)

LEMMA CountsTyped ==
  ASSUME TypeOK, FinitelyBegun, NEW m \in Message, NEW n, NEW s, NEW l
  PROVE  /\ Fresh(m) \in 0..1
         /\ Begun(n, m) \in Nat /\ Writing(n, m, s) \in Nat
         /\ Piped(m, l) \in Nat /\ (l \in Linked => IsFiniteSet(Places(m, l)))
         /\ IsFiniteSet(DevicesAt(m, n)) /\ DeviceCount(m, n) \in Nat
         /\ IsFiniteSet(Owed(m, n)) /\ Owing(m, n) \in Nat
         /\ Owed(m, n) \subseteq DevicesAt(m, n)
<1>1. Begun(n, m) \in Nat /\ Writing(n, m, s) \in Nat
  <2>1. TasksFor(n, m) \subseteq Task /\ TasksWith(n, m, s) \subseteq Task
    BY DEF TasksFor, TasksWith
  <2> QED
    BY <2>1, TokensPart DEF Begun, Writing, FinitelyBegun
<1>2. l \in Linked => IsFiniteSet(Places(m, l)) /\ Cardinality(Places(m, l)) \in Nat
  <2>1. ASSUME l \in Linked
        PROVE  IsFiniteSet(1..Len(pipe[l])) /\ Places(m, l) \subseteq 1..Len(pipe[l])
    <3>1. Len(pipe[l]) \in Nat
      BY <2>1 DEF TypeOK
    <3> QED
      BY <3>1, FS_Interval DEF Places
  <2> QED
    BY <2>1, FS_Subset, FS_CardinalityType
<1>3. IsFiniteSet(DevicesAt(m, n)) /\ Cardinality(DevicesAt(m, n)) \in Nat
  <2>1. DevicesAt(m, n) \subseteq Session /\ IsFiniteSet(Session)
    BY RoutingAssumption DEF DevicesAt, Devices
  <2> QED
    BY <2>1, FS_Subset, FS_CardinalityType
<1>4. Owed(m, n) \subseteq DevicesAt(m, n)
  BY DEF Owed
<1>5. IsFiniteSet(Owed(m, n)) /\ Cardinality(Owed(m, n)) \in Nat
  BY <1>3, <1>4, FS_Subset, FS_CardinalityType
<1> QED
  BY <1>1, <1>2, <1>3, <1>4, <1>5 DEF Piped, Fresh, Owing, DeviceCount

(* No two tasks where there is at most one copy, and none where there is   *)
(* no copy.                                                                *)
LEMMA FewTokens ==
  ASSUME NEW B, IsABag(B), NEW S, IsFiniteSet(Tokens(B, S)),
         NEW t \in BagToSet(B) \cap S
  PROVE  /\ Cardinality(Tokens(B, S)) # 0
         /\ Cardinality(Tokens(B, S)) <= 1 => BagToSet(B) \cap S = {t}
<1>1. \A u \in BagToSet(B) \cap S : <<u, 1>> \in Tokens(B, S)
  <2>1. \A u \in BagToSet(B) : 1 \in 1..B[u]
    BY DEF IsABag, BagToSet
  <2> QED
    BY <2>1, TokenIs
<1>2. Cardinality(Tokens(B, S)) # 0
  BY <1>1, FS_EmptySet
<1>3. ASSUME Cardinality(Tokens(B, S)) <= 1, NEW u \in BagToSet(B) \cap S
      PROVE  u = t
  <2>1. Cardinality(Tokens(B, S)) = 1
    BY <1>2, <1>3, FS_CardinalityType
  <2>2. PICK x : Tokens(B, S) = {x}
    BY <2>1, FS_Singleton
  <2>3. <<u, 1>> = <<t, 1>>
    BY <1>1, <2>2
  <2> QED
    BY <2>3
<1> QED
  BY <1>2, <1>3

LEMMA LookupCount ==
  ASSUME TypeOK, FinitelyBegun, NEW n \in Node, NEW m \in Message, Lookup(n, m),
         NEW S \in SUBSET Task
  PROVE  /\ IsFiniteSet(Tokens(running', S))
         /\ Cardinality(Tokens(running', S)) \in Nat
         /\ Cardinality(Tokens(running', S))
              <= Cardinality(Tokens(running, S)) + (IF Begins(n, m) \in S THEN 1 ELSE 0)
<1>1. IsFiniteSet(Tokens(running, S)) /\ Cardinality(Tokens(running, S)) \in Nat
  BY TokensPart DEF FinitelyBegun
<1>2. CASE running' = running
  BY <1>1, <1>2
<1>3. CASE running' = Plus(running, Begins(n, m))
  BY <1>1, <1>3, TokensPlus DEF TypeOK
<1> QED
  BY <1>2, <1>3, LookupBag

LEMMA WriteCount ==
  ASSUME TypeOK, FinitelyBegun, NEW t \in BagToSet(running), NEW s \in t.todo,
         running' = AfterWrite(t, s)
  PROVE  \E r \in SUBSET (t.todo \ {s}) :
           /\ Rest(t, r) \in Task
           /\ BagToSet(running')
                \subseteq BagToSet(running) \cup (IF r = {} THEN {} ELSE {Rest(t, r)})
           /\ r # {} => Rest(t, r) \in BagToSet(running')
           /\ \A S \in SUBSET Task :
                /\ IsFiniteSet(Tokens(running', S))
                /\ Cardinality(Tokens(running', S)) \in Nat
                /\ Cardinality(Tokens(running', S))
                     = Cardinality(Tokens(running, S)) - (IF t \in S THEN 1 ELSE 0)
                         + (IF r # {} /\ Rest(t, r) \in S THEN 1 ELSE 0)
<1>1. PICK r \in SUBSET (t.todo \ {s}) :
        /\ Rest(t, r) \in Task
        /\ running' = IF r = {} THEN Minus(running, t)
                      ELSE Plus(Minus(running, t), Rest(t, r))
  BY WriteBag
<1> DEFINE B == Minus(running, t)
<1>2. IsABag(B) /\ BagToSet(B) \subseteq BagToSet(running)
  BY BagMinus DEF TypeOK
<1>3. ASSUME NEW S \in SUBSET Task
      PROVE  /\ IsFiniteSet(Tokens(running, S)) /\ IsFiniteSet(Tokens(B, S))
             /\ Cardinality(Tokens(running, S)) \in Nat /\ Cardinality(Tokens(B, S)) \in Nat
             /\ Cardinality(Tokens(B, S))
                  = Cardinality(Tokens(running, S)) - (IF t \in S THEN 1 ELSE 0)
  <2>1. IsFiniteSet(Tokens(running, S)) /\ Cardinality(Tokens(running, S)) \in Nat
    BY TokensPart DEF FinitelyBegun
  <2> QED
    BY <2>1, TokensMinus, FS_CardinalityType DEF TypeOK
<1> HIDE DEF B
<1>4. CASE r = {}
  <2>1. running' = B
    BY <1>1, <1>4 DEF B
  <2> QED
    BY <1>1, <1>2, <1>3, <1>4, <2>1
<1>5. CASE r # {}
  <2>1. running' = Plus(B, Rest(t, r))
    BY <1>1, <1>5 DEF B
  <2>2. BagToSet(running') = BagToSet(B) \cup {Rest(t, r)}
    BY <1>2, <2>1, BagPlus
  <2>3. ASSUME NEW S \in SUBSET Task
        PROVE  /\ IsFiniteSet(Tokens(running', S))
               /\ Cardinality(Tokens(running', S)) \in Nat
               /\ Cardinality(Tokens(running', S))
                    = Cardinality(Tokens(B, S)) + (IF Rest(t, r) \in S THEN 1 ELSE 0)
    BY <1>2, <1>3, <2>1, TokensPlus, FS_CardinalityType
  <2> QED
    BY <1>1, <1>2, <1>3, <1>5, <2>2, <2>3
<1> QED
  BY <1>4, <1>5

-----------------------------------------------------------------------------
(* What the steps do to the counts.                                        *)

LEMMA FinitelyBegunNext ==
  ASSUME TypeOK, FinitelyBegun, [Next]_vars
  PROVE  FinitelyBegun'
<1> Task \in SUBSET Task
  OBVIOUS
<1>1. ASSUME NEW n \in Node, NEW m \in Message, Lookup(n, m)
      PROVE  FinitelyBegun'
  BY <1>1, LookupCount DEF FinitelyBegun
<1>2. ASSUME NEW t \in BagToSet(running), NEW s \in Session, Write(t, s)
      PROVE  FinitelyBegun'
  <2>1. s \in t.todo /\ running' = AfterWrite(t, s)
    BY <1>2 DEF Write
  <2> QED
    BY <2>1, WriteCount DEF FinitelyBegun
<1>3. CASE UNCHANGED running
  BY <1>3 DEF FinitelyBegun
<1> QED
  BY <1>1, <1>2, <1>3 DEF Next, Writes, ClientSends, Connect, Lose,
     ReceiveHello, Receive, CloseChannel, Unlist, vars

LEMMA LookupEffect ==
  ASSUME TypeOK, FinitelyBegun, NEW n \in Node, NEW m \in Message, Lookup(n, m)
  PROVE  /\ \A k \in Node, x \in Message :
              /\ Begun(k, x)' \in 0..(Begun(k, x) + (IF k = n /\ x = m THEN 1 ELSE 0))
              /\ \A s \in Session :
                   Writing(k, x, s)' \in 0..(Writing(k, x, s) + (IF k = n /\ x = m THEN 1 ELSE 0))
         /\ \A u \in BagToSet(running') :
              \/ u \in BagToSet(running)
              \/ u.node = n /\ u.msg = m /\ u.todo \subseteq Devices(To[m])
<1>1. Begins(n, m).node = n /\ Begins(n, m).msg = m
  BY DEF Begins
<1>2. ASSUME NEW k \in Node, NEW x \in Message
      PROVE  Begun(k, x)' \in 0..(Begun(k, x) + (IF k = n /\ x = m THEN 1 ELSE 0))
  <2>1. TasksFor(k, x) \in SUBSET Task
    BY DEF TasksFor
  <2>2. Begins(n, m) \in TasksFor(k, x) => k = n /\ x = m
    BY <1>1 DEF TasksFor
  <2>3. Begun(k, x)' = Cardinality(Tokens(running', TasksFor(k, x)))
    BY DEF Begun
  <2>4. Begun(k, x) \in Nat
    BY CountsTyped
  <2> QED
    BY <2>1, <2>2, <2>3, <2>4, LookupCount DEF Begun
<1>3. ASSUME NEW k \in Node, NEW x \in Message, NEW s \in Session
      PROVE  Writing(k, x, s)' \in 0..(Writing(k, x, s) + (IF k = n /\ x = m THEN 1 ELSE 0))
  <2>1. TasksWith(k, x, s) \in SUBSET Task
    BY DEF TasksFor, TasksWith
  <2>2. Begins(n, m) \in TasksWith(k, x, s) => k = n /\ x = m
    BY <1>1 DEF TasksFor, TasksWith
  <2>3. Writing(k, x, s)' = Cardinality(Tokens(running', TasksWith(k, x, s)))
    BY DEF Writing
  <2>4. Writing(k, x, s) \in Nat
    BY CountsTyped
  <2> QED
    BY <2>1, <2>2, <2>3, <2>4, LookupCount DEF Writing
<1>4. ASSUME NEW u \in BagToSet(running'), u \notin BagToSet(running)
      PROVE  u.node = n /\ u.msg = m /\ u.todo \subseteq Devices(To[m])
  <2>1. BagToSet(running') \subseteq BagToSet(running) \cup {Begins(n, m)}
    <3>1. IsABag(running) /\ (running' = running \/ running' = Plus(running, Begins(n, m)))
      BY LookupBag DEF TypeOK
    <3> QED
      BY <3>1, BagPlus
  <2> QED
    BY <1>1, <1>4, <2>1 DEF Begins
<1> QED
  BY <1>2, <1>3, <1>4

LEMMA WriteEffect ==
  ASSUME TypeOK, FinitelyBegun, NEW t \in BagToSet(running), NEW s \in Session, Write(t, s)
  PROVE  /\ \A k \in Node, x \in Message :
              /\ Begun(k, x)' \in 0..Begun(k, x)
              /\ \A d \in Session : Writing(k, x, d)' \in 0..Writing(k, x, d)
         /\ Writing(t.node, t.msg, s)' \in 0..(Writing(t.node, t.msg, s) - 1)
         /\ \A u \in BagToSet(running') :
              \/ u \in BagToSet(running)
              \/ u.node = t.node /\ u.msg = t.msg /\ u.todo \subseteq t.todo
         /\ Begun(t.node, t.msg) <= 1 =>
              \A u \in BagToSet(running') :
                u \in TasksFor(t.node, t.msg) => u.todo \subseteq t.todo \ {s}
<1>1. s \in t.todo /\ running' = AfterWrite(t, s) /\ t \in Task
  BY DEF Write, TypeOK
<1>2. PICK r \in SUBSET (t.todo \ {s}) :
        /\ Rest(t, r) \in Task
        /\ BagToSet(running')
             \subseteq BagToSet(running) \cup (IF r = {} THEN {} ELSE {Rest(t, r)})
        /\ r # {} => Rest(t, r) \in BagToSet(running')
        /\ \A S \in SUBSET Task :
             /\ IsFiniteSet(Tokens(running', S))
             /\ Cardinality(Tokens(running', S)) \in Nat
             /\ Cardinality(Tokens(running', S))
                  = Cardinality(Tokens(running, S)) - (IF t \in S THEN 1 ELSE 0)
                      + (IF r # {} /\ Rest(t, r) \in S THEN 1 ELSE 0)
  BY <1>1, WriteCount
<1>3. Rest(t, r).node = t.node /\ Rest(t, r).msg = t.msg /\ Rest(t, r).todo = r
  BY <1>1 DEF Rest, Task
<1>4. ASSUME NEW k \in Node, NEW x \in Message
      PROVE  Begun(k, x)' \in 0..Begun(k, x)
  <2>1. TasksFor(k, x) \in SUBSET Task
    BY DEF TasksFor
  <2>2. Rest(t, r) \in TasksFor(k, x) => t \in TasksFor(k, x)
    BY <1>1, <1>3 DEF TasksFor
  <2>3. Begun(k, x)' = Cardinality(Tokens(running', TasksFor(k, x)))
    BY DEF Begun
  <2>4. Begun(k, x) \in Nat
    BY CountsTyped
  <2> QED
    BY <1>2, <2>1, <2>2, <2>3, <2>4 DEF Begun
<1>5. ASSUME NEW k \in Node, NEW x \in Message, NEW d \in Session
      PROVE  /\ Writing(k, x, d)' \in 0..Writing(k, x, d)
             /\ k = t.node /\ x = t.msg /\ d = s
                  => Writing(k, x, d)' \in 0..(Writing(k, x, d) - 1)
  <2>1. TasksWith(k, x, d) \in SUBSET Task
    BY DEF TasksFor, TasksWith
  <2>2. Rest(t, r) \in TasksWith(k, x, d) => t \in TasksWith(k, x, d) /\ d # s
    BY <1>1, <1>2, <1>3 DEF TasksFor, TasksWith
  <2>3. k = t.node /\ x = t.msg /\ d = s => t \in TasksWith(k, x, d)
    BY <1>1 DEF TasksFor, TasksWith
  <2>4. Writing(k, x, d)' = Cardinality(Tokens(running', TasksWith(k, x, d)))
    BY DEF Writing
  <2>5. Writing(k, x, d) \in Nat
    BY CountsTyped
  <2> QED
    BY <1>2, <2>1, <2>2, <2>3, <2>4, <2>5 DEF Writing
<1>6. Writing(t.node, t.msg, s)' \in 0..(Writing(t.node, t.msg, s) - 1)
  <2>1. PICK k \in Node, x \in Message : k = t.node /\ x = t.msg
    BY <1>1 DEF Task
  <2> QED
    BY <1>5, <2>1
<1>7. ASSUME NEW u \in BagToSet(running'), u \notin BagToSet(running)
      PROVE  u.node = t.node /\ u.msg = t.msg /\ u.todo \subseteq t.todo
  BY <1>2, <1>3, <1>7
<1>8. ASSUME Begun(t.node, t.msg) <= 1, NEW u \in BagToSet(running'),
             u \in TasksFor(t.node, t.msg)
      PROVE  u.todo \subseteq t.todo \ {s}
  <2> DEFINE S == TasksFor(t.node, t.msg)
  <2>1. S \in SUBSET Task /\ t \in S
    BY <1>1 DEF TasksFor
  <2>2. /\ Cardinality(Tokens(running, S)) \in Nat
        /\ Cardinality(Tokens(running, S)) <= 1
    BY <1>8, <2>1, TokensPart DEF Begun, FinitelyBegun
  <2>3. r # {} => Rest(t, r) \in S
    BY <1>2, <1>3 DEF TasksFor
  <2> HIDE DEF S
  <2>4. u \in BagToSet(running') \cap S
    BY <1>8 DEF S
  <2>5. IsABag(running')
    BY <1>1, NextTyped DEF TypeOK, Next, Writes, Task
  <2>6. Cardinality(Tokens(running', S)) # 0
    BY <1>2, <2>1, <2>4, <2>5, FewTokens
  <2>7. r # {}
    BY <1>2, <2>1, <2>2, <2>6
  <2>8. Cardinality(Tokens(running', S)) <= 1
    BY <1>2, <2>1, <2>2, <2>3
  <2>9. u = Rest(t, r)
    BY <1>2, <2>1, <2>3, <2>4, <2>5, <2>7, <2>8, FewTokens
  <2> QED
    BY <1>2, <1>3, <2>9
<1> QED
  BY <1>4, <1>5, <1>6, <1>7, <1>8

(* Reading from a pipe takes one message out of it, writing adds one.      *)
LEMMA PipedTail ==
  ASSUME TypeOK, FinitelyBegun, NEW l \in Linked, pipe[l] # <<>>,
         pipe' = [pipe EXCEPT ![l] = Tail(@)], NEW m \in Message, NEW k
  PROVE  /\ Piped(m, k) \in Nat
         /\ k = l /\ Head(pipe[l]) = m => Piped(m, k)' \in 0..(Piped(m, k) - 1)
         /\ k # l \/ Head(pipe[l]) # m => Piped(m, k)' \in 0..Piped(m, k)
<1>1. CASE k # l
  <2>1. k \in Linked => Places(m, k)' = Places(m, k)
    BY <1>1 DEF Places, TypeOK
  <2>2. Piped(m, k)' = Piped(m, k) /\ Piped(m, k) \in Nat
    BY <2>1, CountsTyped DEF Piped
  <2> QED
    BY <1>1, <2>2
<1>2. CASE k = l
  <2> DEFINE P == Places(m, l)
             Q == IF Head(pipe[l]) = m THEN P \ {1} ELSE P
             R == {i \in 1..(Len(pipe[l]) - 1) : pipe[l][i + 1] = m}
             f == [i \in R |-> i + 1]
  <2>1. /\ Len(pipe[l]) \in Nat \ {0} /\ Head(pipe[l]) = pipe[l][1]
        /\ pipe'[l] = Tail(pipe[l]) /\ Len(Tail(pipe[l])) = Len(pipe[l]) - 1
        /\ \A i \in 1..(Len(pipe[l]) - 1) : Tail(pipe[l])[i] = pipe[l][i + 1]
    <3>1. pipe[l] \in Seq(Message \cup {"hello"}) /\ pipe'[l] = Tail(pipe[l])
      BY DEF TypeOK
    <3> QED
      BY <3>1
  <2>2. Places(m, l)' = R
    BY <2>1 DEF Places
  <2>3. IsFiniteSet(P) /\ Cardinality(P) \in Nat
    BY CountsTyped, FS_CardinalityType
  <2>4. /\ IsFiniteSet(Q) /\ Cardinality(Q) \in Nat
        /\ Cardinality(Q) = Cardinality(P) - (IF Head(pipe[l]) = m THEN 1 ELSE 0)
    <3>1. Head(pipe[l]) = m => 1 \in P
      BY <2>1 DEF Places
    <3> HIDE DEF P
    <3> QED
      BY <2>3, <3>1, FS_RemoveElement, FS_CardinalityType
  <2>5. f \in Injection(R, Q)
    <3>1. \A i \in R : i + 1 \in Q
      BY <2>1 DEF Places
    <3>2. \A i, j \in R : i + 1 = j + 1 => i = j
      OBVIOUS
    <3> HIDE DEF R, Q
    <3>3. f \in [R -> Q]
      BY <3>1
    <3>4. \A i, j \in R : f[i] = f[j] => i = j
      BY <3>2
    <3> HIDE DEF f
    <3> QED
      BY <3>3, <3>4 DEF Injection, IsInjective
  <2> HIDE DEF P, Q, R, f
  <2>6. Cardinality(R) \in 0..Cardinality(Q)
    BY <2>4, <2>5, FS_Injection, FS_CardinalityType
  <2> QED
    BY <1>2, <2>2, <2>3, <2>4, <2>6 DEF Piped, P
<1> QED
  BY <1>1, <1>2

LEMMA PipedAppend ==
  ASSUME TypeOK, FinitelyBegun, NEW l \in Linked, NEW x \in Message \cup {"hello"},
         pipe' = [pipe EXCEPT ![l] = Append(@, x)], NEW m \in Message, NEW k
  PROVE  /\ Piped(m, k) \in Nat
         /\ k = l /\ x = m => Piped(m, k)' = Piped(m, k) + 1
         /\ k # l \/ x # m => Piped(m, k)' = Piped(m, k)
<1>1. CASE k # l
  <2>1. k \in Linked => Places(m, k)' = Places(m, k)
    BY <1>1 DEF Places, TypeOK
  <2>2. Piped(m, k)' = Piped(m, k) /\ Piped(m, k) \in Nat
    BY <2>1, CountsTyped DEF Piped
  <2> QED
    BY <1>1, <2>2
<1>2. CASE k = l
  <2> DEFINE P == Places(m, l)
             e == Len(pipe[l]) + 1
  <2>1. /\ Len(pipe[l]) \in Nat /\ pipe'[l] = Append(pipe[l], x)
        /\ Len(Append(pipe[l], x)) = e /\ Append(pipe[l], x)[e] = x
        /\ \A i \in 1..Len(pipe[l]) : Append(pipe[l], x)[i] = pipe[l][i]
    <3>1. pipe[l] \in Seq(Message \cup {"hello"}) /\ pipe'[l] = Append(pipe[l], x)
      BY DEF TypeOK
    <3> QED
      BY <3>1
  <2>2. Places(m, l)' = IF x = m THEN P \cup {e} ELSE P
    BY <2>1 DEF Places
  <2>3. e \notin P
    BY <2>1 DEF Places
  <2>4. IsFiniteSet(P) /\ Cardinality(P) \in Nat
    BY CountsTyped, FS_CardinalityType
  <2> HIDE DEF P, e
  <2>5. Cardinality(P \cup {e}) = Cardinality(P) + 1
    BY <2>3, <2>4, FS_AddElement
  <2>6. Piped(m, k)' = Cardinality(Places(m, l)') /\ Piped(m, k) = Cardinality(P)
    BY <1>2 DEF Piped, P
  <2> QED
    BY <1>2, <2>2, <2>4, <2>5, <2>6
<1> QED
  BY <1>1, <1>2

LEMMA PipedNone ==
  ASSUME TypeOK, FinitelyBegun, NEW l \in Linked,
         pipe' = [pipe EXCEPT ![l] = <<>>], NEW m \in Message, NEW k
  PROVE  Piped(m, k)' \in 0..Piped(m, k)
<1>1. k \in Linked /\ k # l => Places(m, k)' = Places(m, k)
  BY DEF Places, TypeOK
<1>2. Places(m, l)' = {}
  BY DEF Places, TypeOK
<1>3. Piped(m, k)' = Piped(m, k) \/ Piped(m, k)' = 0
  BY <1>1, <1>2, FS_EmptySet DEF Piped
<1>4. Piped(m, k) \in Nat
  BY CountsTyped
<1> QED
  BY <1>3, <1>4

-----------------------------------------------------------------------------
(* The counts of one message in each step.                                 *)

LEMMA DeviceCountFixed == \A m, n : DeviceCount(m, n)' = DeviceCount(m, n)
BY DEF DeviceCount, DevicesAt, Devices

LEMMA OwedLess ==
  ASSUME TypeOK, FinitelyBegun, NEW m \in Message, NEW n,
         Owed(m, n)' \subseteq Owed(m, n)
  PROVE  Owing(m, n)' \in 0..Owing(m, n)
<1>1. IsFiniteSet(Owed(m, n)) /\ Cardinality(Owed(m, n)) \in Nat
  BY CountsTyped DEF Owing
<1>2. Cardinality(Owed(m, n)') \in 0..Cardinality(Owed(m, n))
  BY <1>1, FS_Subset, FS_CardinalityType
<1> QED
  BY <1>2 DEF Owing

LEMMA DeliveredKept ==
  ASSUME TypeOK, FinitelyBegun, NEW m \in Message, NEW s \in Session, Delivered(m, s),
         s \notin Devices(To[m]) => got'[s][m] = got[s][m],
         s \in Devices(To[m]) /\ HomeOf[s] = From[m]
           => HereCount(m, s)' <= HereCount(m, s) /\ HereCount(m, s)' \in Int,
         s \in Devices(To[m]) /\ HomeOf[s] # From[m]
           => ThereCount(m, s)' <= ThereCount(m, s) /\ ThereCount(m, s)' \in Int
  PROVE  Delivered(m, s)'
<1>1. HereCount(m, s) \in Int /\ ThereCount(m, s) \in Int
  <2>1. /\ HomeOf[s] \in Node /\ got[s][m] \in Nat /\ queued[HomeOf[s]][m] \in Nat
    BY RoutingAssumption DEF TypeOK
  <2>2. /\ Fresh(m) \in Nat /\ Writing(HomeOf[s], m, s) \in Nat
        /\ Piped(m, <<From[m], HomeOf[s]>>) \in Nat /\ Owing(m, HomeOf[s]) \in Nat
    BY CountsTyped
  <2> QED
    BY <2>1, <2>2 DEF HereCount, ThereCount
<1>2. /\ DeviceCount(m, HomeOf[s]) \in Nat
      /\ DeviceCount(m, HomeOf[s])' = DeviceCount(m, HomeOf[s])
  BY CountsTyped, DeviceCountFixed
<1>3. CASE s \notin Devices(To[m])
  BY <1>3 DEF Delivered, Devices
<1>4. CASE s \in Devices(To[m]) /\ HomeOf[s] = From[m]
  BY <1>1, <1>4 DEF Delivered, Devices
<1>5. CASE s \in Devices(To[m]) /\ HomeOf[s] # From[m]
  BY <1>1, <1>2, <1>5 DEF Delivered, Devices
<1> QED
  BY <1>3, <1>4, <1>5

(* A step that moves no copy of m, or loses some.                          *)
LEMMA NoneAdded ==
  ASSUME TypeOK, FinitelyBegun, NEW m \in Message, CopiesOf(m),
         m \in sent' <=> m \in sent,
         \A n \in Node : queued'[n][m] = queued[n][m],
         \A n \in Node : Begun(n, m)' \in 0..Begun(n, m),
         \A n \in Node, s \in Session : Writing(n, m, s)' \in 0..Writing(n, m, s),
         \A u \in BagToSet(running') :
           \/ u.msg # m \/ u \in BagToSet(running)
           \/ \E t \in BagToSet(running) :
                u.node = t.node /\ t.msg = m /\ u.todo \subseteq t.todo,
         \A l : Piped(m, l)' \in 0..Piped(m, l),
         \A s \in Session : got'[s][m] = got[s][m],
         BagToSet(running') \subseteq Task
  PROVE  CopiesOf(m)'
<1>1. ASSUME NEW n \in Node
      PROVE  /\ Owing(m, n)' \in 0..Owing(m, n)
             /\ Begun(n, m) \in Nat
             /\ queued[n][m] \in Nat /\ Owing(m, n) \in Nat
             /\ DeviceCount(m, n) \in Nat
  <2>1. BagToSet(running) \subseteq Task
    BY DEF TypeOK
  <2>2. \A d, u : u \in BagToSet(running') /\ u \in TasksWith(From[m], m, d)
           => \E t \in BagToSet(running) : t \in TasksWith(From[m], m, d)
    BY <2>1 DEF TasksWith, TasksFor
  <2>3. Owed(m, n)' \subseteq Owed(m, n)
    BY <2>2, RoutingAssumption DEF Owed
  <2>4. queued[n][m] \in Nat
    BY DEF TypeOK
  <2> QED
    BY <2>3, <2>4, OwedLess, CountsTyped
<1>2. Whereabouts(m)'
  <2>1. \A u \in BagToSet(running') :
          u.msg = m => u.todo \subseteq Devices(To[m]) /\ Holds(m, u.node)
    BY DEF CopiesOf, Whereabouts
  <2>2. \A n \in Node : queued'[n][m] > 0 => Holds(m, n)
    BY DEF CopiesOf, Whereabouts
  <2>3. \A l \in Linked : Piped(m, l)' > 0 => l[1] = From[m] /\ Holds(m, l[2])
    <3>1. \A l \in Linked : Piped(m, l) \in Nat
      BY CountsTyped
    <3> QED
      BY <3>1 DEF CopiesOf, Whereabouts
  <2> QED
    BY <2>1, <2>2, <2>3 DEF Whereabouts, Holds
<1>3. Origin(m)'
  BY <1>1, RoutingAssumption DEF CopiesOf, Origin, Fresh
<1>4. ASSUME NEW s \in Session
      PROVE  Delivered(m, s)'
  <2>1. HomeOf[s] \in Node /\ From[m] \in Node /\ Fresh(m)' = Fresh(m) /\ Fresh(m) \in 0..1
    BY RoutingAssumption DEF Fresh
  <2>2. got[s][m] \in Nat
    BY RoutingAssumption DEF TypeOK
  <2>3. Piped(m, <<From[m], HomeOf[s]>>) \in Nat /\ Writing(HomeOf[s], m, s) \in Nat
    BY CountsTyped
  <2>4. /\ queued'[HomeOf[s]][m] = queued[HomeOf[s]][m]
        /\ Writing(HomeOf[s], m, s)' \in 0..Writing(HomeOf[s], m, s)
        /\ Piped(m, <<From[m], HomeOf[s]>>)' \in 0..Piped(m, <<From[m], HomeOf[s]>>)
        /\ Owing(m, HomeOf[s])' \in 0..Owing(m, HomeOf[s])
        /\ DeviceCount(m, HomeOf[s])' = DeviceCount(m, HomeOf[s])
    BY <1>1, <2>1, DeviceCountFixed
  <2>5. Owing(m, HomeOf[s]) \in Nat /\ queued[HomeOf[s]][m] \in Nat
    BY <1>1, <2>1
  <2>6. HereCount(m, s)' <= HereCount(m, s) /\ HereCount(m, s)' \in Int
    BY <2>1, <2>2, <2>3, <2>4, <2>5 DEF HereCount
  <2>7. ThereCount(m, s)' <= ThereCount(m, s) /\ ThereCount(m, s)' \in Int
    BY <2>1, <2>2, <2>3, <2>4, <2>5 DEF ThereCount
  <2> QED
    BY <2>6, <2>7, DeliveredKept DEF CopiesOf
<1> QED
  BY <1>2, <1>3, <1>4 DEF CopiesOf

LEMMA SameTasks ==
  ASSUME TypeOK, FinitelyBegun, UNCHANGED running, NEW m \in Message
  PROVE  /\ \A n \in Node : Begun(n, m)' = Begun(n, m) /\ Begun(n, m) \in Nat
         /\ \A n \in Node, s \in Session :
              Writing(n, m, s)' = Writing(n, m, s) /\ Writing(n, m, s) \in Nat
         /\ BagToSet(running') \subseteq Task
BY CountsTyped DEF Begun, Writing, TypeOK

LEMMA SamePipes ==
  ASSUME TypeOK, FinitelyBegun, UNCHANGED pipe, NEW m \in Message
  PROVE  \A l : Piped(m, l)' = Piped(m, l) /\ Piped(m, l) \in Nat
BY CountsTyped DEF Piped, Places

LEMMA Homes ==
  ASSUME TypeOK, NEW m \in Message, NEW s \in Session
  PROVE  /\ HomeOf[s] \in Node /\ From[m] \in Node /\ got[s][m] \in Nat
         /\ queued[HomeOf[s]][m] \in Nat /\ queued[From[m]][m] \in Nat
BY RoutingAssumption DEF TypeOK

LEMMA SendCopies ==
  ASSUME TypeOK, FinitelyBegun, NEW m \in Message, CopiesOf(m), ClientSends(m)
  PROVE  CopiesOf(m)'
<1>1. /\ m \notin sent /\ m \in sent' /\ UNCHANGED <<running, pipe, got>>
      /\ From[m] \in Node
      /\ queued' = [queued EXCEPT ![From[m]][m] = @ + 1]
  BY RoutingAssumption DEF ClientSends
<1>2. /\ \A n \in Node : queued[n][m] \in Nat
      /\ queued'[From[m]][m] = queued[From[m]][m] + 1
      /\ \A n \in Node \ {From[m]} : queued'[n][m] = queued[n][m]
  BY <1>1 DEF TypeOK
<1>3. Fresh(m) = 1 /\ Fresh(m)' = 0
  BY <1>1 DEF Fresh
<1>4. /\ \A n \in Node : Begun(n, m)' = Begun(n, m) /\ Begun(n, m) \in Nat
      /\ \A n \in Node, s \in Session :
           Writing(n, m, s)' = Writing(n, m, s) /\ Writing(n, m, s) \in Nat
  BY <1>1, SameTasks
<1>5. \A l : Piped(m, l)' = Piped(m, l) /\ Piped(m, l) \in Nat
  BY <1>1, SamePipes
<1>6. \A n \in Node : Owing(m, n)' = Owing(m, n)
  BY <1>1, <1>2 DEF Owing, Owed, DevicesAt, Devices
<1>7. Whereabouts(m)'
  BY <1>1, <1>2, <1>5 DEF CopiesOf, Whereabouts, Holds, Devices
<1>8. Origin(m)'
  BY <1>1, <1>2, <1>3, <1>4 DEF CopiesOf, Origin
<1>9. ASSUME NEW s \in Session
      PROVE  Delivered(m, s)'
  <2>1. HomeOf[s] \in Node /\ got[s][m] \in Nat /\ got' = got
    BY <1>1, Homes
  <2>2. /\ Writing(HomeOf[s], m, s)' = Writing(HomeOf[s], m, s)
        /\ Writing(HomeOf[s], m, s) \in Nat
    BY <1>4, <2>1
  <2>3. HomeOf[s] = From[m]
          => HereCount(m, s)' <= HereCount(m, s) /\ HereCount(m, s)' \in Int
    BY <1>2, <1>3, <2>1, <2>2 DEF HereCount
  <2>4. ASSUME HomeOf[s] # From[m]
        PROVE  ThereCount(m, s)' <= ThereCount(m, s) /\ ThereCount(m, s)' \in Int
    <3>1. /\ Owing(m, HomeOf[s])' = Owing(m, HomeOf[s]) /\ Owing(m, HomeOf[s]) \in Nat
          /\ queued'[HomeOf[s]][m] = queued[HomeOf[s]][m] /\ queued[HomeOf[s]][m] \in Nat
      BY <1>2, <1>6, <2>1, <2>4, CountsTyped
    <3> QED
      BY <1>5, <2>1, <2>2, <3>1 DEF ThereCount
  <2> QED
    BY <2>1, <2>3, <2>4, DeliveredKept DEF CopiesOf
<1> QED
  BY <1>7, <1>8, <1>9 DEF CopiesOf

LEMMA LookupCopies ==
  ASSUME TypeOK, FinitelyBegun, NEW n \in Node, NEW m \in Message, CopiesOf(m), Lookup(n, m)
  PROVE  CopiesOf(m)'
<1>1. /\ queued[n][m] > 0 /\ queued' = [queued EXCEPT ![n][m] = @ - 1]
      /\ UNCHANGED <<sent, pipe, got>>
  BY DEF Lookup
<1>2. /\ \A k \in Node : queued[k][m] \in Nat
      /\ queued'[n][m] = queued[n][m] - 1
      /\ \A k \in Node \ {n} : queued'[k][m] = queued[k][m]
  BY <1>1 DEF TypeOK
<1>3. /\ \A k \in Node : /\ Begun(k, m)' \in 0..(Begun(k, m) + (IF k = n THEN 1 ELSE 0))
                         /\ Begun(k, m) \in Nat
      /\ \A k \in Node, s \in Session :
           /\ Writing(k, m, s)' \in 0..(Writing(k, m, s) + (IF k = n THEN 1 ELSE 0))
           /\ Writing(k, m, s) \in Nat
      /\ \A u \in BagToSet(running') :
           \/ u \in BagToSet(running)
           \/ u.node = n /\ u.msg = m /\ u.todo \subseteq Devices(To[m])
  BY LookupEffect, CountsTyped
<1>4. \A l : Piped(m, l)' = Piped(m, l) /\ Piped(m, l) \in Nat
  BY <1>1, SamePipes
<1>5. Fresh(m)' = Fresh(m) /\ Fresh(m) \in 0..1 /\ From[m] \in Node
  BY <1>1, RoutingAssumption DEF Fresh
<1>6. ASSUME NEW k \in Node
      PROVE  Owing(m, k)' \in 0..Owing(m, k) /\ Owing(m, k) \in Nat
  <2>1. ASSUME n = From[m]
        PROVE  Owed(m, k)' \subseteq Owed(m, k)
    BY <1>1, <2>1 DEF Owed, DevicesAt, Devices
  <2>2. ASSUME n # From[m]
        PROVE  Owed(m, k)' \subseteq Owed(m, k)
    <3>1. \A d, u : u \in BagToSet(running') /\ u \in TasksWith(From[m], m, d)
                      => u \in BagToSet(running)
      BY <1>3, <2>2 DEF TasksWith, TasksFor
    <3> QED
      BY <1>1, <1>2, <1>5, <2>2, <3>1 DEF Owed, DevicesAt, Devices
  <2>3. Owed(m, k)' \subseteq Owed(m, k)
    BY <2>1, <2>2
  <2> QED
    BY <2>3, OwedLess, CountsTyped
<1>7. Whereabouts(m)'
  <2>1. Holds(m, n)
    BY <1>1 DEF CopiesOf, Whereabouts
  <2> QED
    BY <1>2, <1>3, <1>4, <2>1 DEF CopiesOf, Whereabouts, Holds, Devices
<1>8. Origin(m)'
  <2>1. CASE n = From[m]
    BY <1>2, <1>3, <1>5, <2>1 DEF CopiesOf, Origin
  <2>2. CASE n # From[m]
    BY <1>2, <1>3, <1>5, <2>2 DEF CopiesOf, Origin
  <2> QED
    BY <2>1, <2>2
<1>9. ASSUME NEW s \in Session
      PROVE  Delivered(m, s)'
  <2> DEFINE k == HomeOf[s]
  <2>1. k \in Node /\ got[s][m] \in Nat /\ got' = got
    BY <1>1, Homes
  <2>2. queued'[k][m] + Writing(k, m, s)' <= queued[k][m] + Writing(k, m, s)
    <3>1. CASE k = n
      BY <1>1, <1>2, <1>3, <2>1, <3>1
    <3>2. CASE k # n
      BY <1>2, <1>3, <2>1, <3>2
    <3> QED
      BY <3>1, <3>2
  <2>3. queued'[k][m] \in Int /\ Writing(k, m, s)' \in Int /\ Writing(k, m, s) \in Nat
    BY <1>2, <1>3, <2>1
  <2>4. HereCount(m, s)' <= HereCount(m, s) /\ HereCount(m, s)' \in Int
    BY <1>2, <1>5, <2>1, <2>2, <2>3 DEF HereCount
  <2>5. ThereCount(m, s)' <= ThereCount(m, s) /\ ThereCount(m, s)' \in Int
    <3>1. Owing(m, k)' \in 0..Owing(m, k) /\ Owing(m, k) \in Nat
      BY <1>6, <2>1
    <3> QED
      BY <1>2, <1>4, <2>1, <2>2, <2>3, <3>1 DEF ThereCount
  <2> QED
    BY <2>1, <2>4, <2>5, DeliveredKept DEF CopiesOf
<1> QED
  BY <1>7, <1>8, <1>9 DEF CopiesOf

(* A node that gets m forwarded does not forward it itself.                *)
LEMMA OnlyOriginForwards ==
  ASSUME TypeOK, NEW t \in BagToSet(running), NEW s \in Session, Write(t, s),
         HomeOf[s] # t.node, Routed(t.node, s), StaysThere(t.msg), CopiesOf(t.msg)
  PROVE  /\ t.node = From[t.msg] /\ <<t.node, HomeOf[s]>> \in Linked
         /\ s \in Devices(To[t.msg])
<1>1. s \in Devices(To[t.msg]) /\ Holds(t.msg, t.node)
  BY DEF CopiesOf, Whereabouts, Write
<1>2. <<t.node, HomeOf[s]>> \in Linked
  BY DEF Routed, Behind
<1> QED
  BY <1>1, <1>2 DEF Holds, StaysThere

LEMMA WriteCopies ==
  ASSUME TypeOK, FinitelyBegun, NEW t \in BagToSet(running), NEW w \in Session,
         Write(t, w), NEW m \in Message, m = t.msg, StaysThere(m), CopiesOf(m)
  PROVE  CopiesOf(m)'
<1> DEFINE n == t.node
           h == HomeOf[w]
<1>1. /\ t \in Task /\ n \in Node /\ h \in Node /\ From[m] \in Node /\ w \in t.todo
      /\ UNCHANGED <<sent, queued>>
  BY RoutingAssumption DEF TypeOK, Task, Write
<1>2. w \in Devices(To[m]) /\ Holds(m, n) /\ t.todo \subseteq Devices(To[m])
  BY <1>1 DEF CopiesOf, Whereabouts
<1>3. /\ \A k \in Node : Begun(k, m)' \in 0..Begun(k, m) /\ Begun(k, m) \in Nat
      /\ \A k \in Node, s \in Session :
           Writing(k, m, s)' \in 0..Writing(k, m, s) /\ Writing(k, m, s) \in Nat
      /\ Writing(n, m, w)' \in 0..(Writing(n, m, w) - 1)
      /\ \A u \in BagToSet(running') :
           \/ u \in BagToSet(running)
           \/ u.node = n /\ u.msg = m /\ u.todo \subseteq t.todo
      /\ Begun(n, m) <= 1 =>
           \A u \in BagToSet(running') :
             u \in TasksFor(n, m) => u.todo \subseteq t.todo \ {w}
  BY WriteEffect, CountsTyped
<1>4. Fresh(m)' = Fresh(m) /\ Fresh(m) \in 0..1
  BY <1>1 DEF Fresh
<1>5. ASSUME NEW k \in Node
      PROVE  /\ Owed(m, k)' \subseteq Owed(m, k)
             /\ Owing(m, k)' \in 0..Owing(m, k) /\ Owing(m, k) \in Nat
             /\ queued'[k][m] = queued[k][m] /\ queued[k][m] \in Nat
  <2>1. \A d, u : u \in BagToSet(running') /\ u \in TasksWith(From[m], m, d)
           => \E v \in BagToSet(running) : v \in TasksWith(From[m], m, d)
    BY <1>1, <1>3 DEF TasksWith, TasksFor
  <2>2. Owed(m, k)' \subseteq Owed(m, k)
    BY <1>1, <2>1 DEF Owed, DevicesAt, Devices
  <2>3. queued[k][m] \in Nat
    BY DEF TypeOK
  <2> QED
    BY <1>1, <2>2, <2>3, OwedLess, CountsTyped
<1>6. \A l : Piped(m, l) \in Nat
  BY CountsTyped
<1>7. Origin(m)'
  BY <1>1, <1>3, <1>4, <1>5 DEF CopiesOf, Origin
<1>8. ASSUME \A l \in Linked :
               Piped(m, l)' = Piped(m, l) \/ (l[1] = From[m] /\ Holds(m, l[2]))
      PROVE  Whereabouts(m)'
  <2>1. \A u \in BagToSet(running') :
          u.msg = m => u.todo \subseteq Devices(To[m]) /\ Holds(m, u.node)
    BY <1>2, <1>3 DEF CopiesOf, Whereabouts
  <2> QED
    BY <1>1, <1>8, <2>1 DEF CopiesOf, Whereabouts, Holds, Devices
<1>9. CASE h = n
  <2>1. pipe' = pipe /\ \A s \in Session \ {w} : got'[s][m] = got[s][m]
    BY <1>1, <1>9 DEF Write, TypeOK
  <2>2. \A l : Piped(m, l)' = Piped(m, l)
    BY <2>1 DEF Piped, Places
  <2>3. Whereabouts(m)'
    BY <1>8, <2>2
  <2>4. ASSUME NEW s \in Session
        PROVE  got'[s][m] \in Nat /\ got'[s][m] + Writing(HomeOf[s], m, s)'
                                       <= got[s][m] + Writing(HomeOf[s], m, s)
    <3>1. got[s][m] \in Nat /\ HomeOf[s] \in Node
      BY Homes
    <3>2. CASE s # w
      BY <1>3, <2>1, <3>1, <3>2
    <3>3. CASE s = w
      <4>1. got'[w][m] \in {got[w][m], got[w][m] + 1}
        BY <1>1, <3>1, <3>3 DEF Write, TypeOK
      <4>2. /\ Writing(HomeOf[s], m, s)' \in 0..(Writing(HomeOf[s], m, s) - 1)
            /\ Writing(HomeOf[s], m, s) \in Nat
        BY <1>1, <1>3, <1>9, <3>3
      <4> QED
        BY <3>1, <3>3, <4>1, <4>2
    <3> QED
      BY <3>2, <3>3
  <2>5. ASSUME NEW s \in Session
        PROVE  Delivered(m, s)'
    <3>1. /\ HomeOf[s] \in Node /\ got[s][m] \in Nat
          /\ (s \notin Devices(To[m]) => s # w)
      BY <1>2, Homes
    <3>2. /\ Writing(HomeOf[s], m, s)' \in Nat /\ Writing(HomeOf[s], m, s) \in Nat
          /\ queued'[HomeOf[s]][m] = queued[HomeOf[s]][m] /\ queued[HomeOf[s]][m] \in Nat
          /\ Owing(m, HomeOf[s])' \in 0..Owing(m, HomeOf[s]) /\ Owing(m, HomeOf[s]) \in Nat
      BY <1>3, <1>5, <3>1
    <3>3. HereCount(m, s)' <= HereCount(m, s) /\ HereCount(m, s)' \in Int
      BY <1>4, <2>4, <3>1, <3>2 DEF HereCount
    <3>4. ThereCount(m, s)' <= ThereCount(m, s) /\ ThereCount(m, s)' \in Int
      BY <1>6, <2>2, <2>4, <3>1, <3>2 DEF ThereCount
    <3> QED
      BY <2>1, <3>1, <3>3, <3>4, DeliveredKept DEF CopiesOf
  <2> QED
    BY <1>7, <2>3, <2>5 DEF CopiesOf
<1>10. CASE h # n /\ Routed(n, w)
  <2>1. n = From[m] /\ <<n, h>> \in Linked
    BY <1>10, OnlyOriginForwards
  <2>2. got' = got /\ pipe' = [pipe EXCEPT ![<<n, h>>] = Append(@, m)]
    BY <1>10 DEF Write
  <2>3. /\ Piped(m, <<n, h>>)' = Piped(m, <<n, h>>) + 1
        /\ \A l : l # <<n, h>> => Piped(m, l)' = Piped(m, l)
    <3>1. PICK k \in Linked : k = <<n, h>>
      BY <2>1
    <3>2. pipe' = [pipe EXCEPT ![k] = Append(@, m)]
      BY <2>2, <3>1
    <3>3. m \in Message \cup {"hello"}
      OBVIOUS
    <3>4. Piped(m, k)' = Piped(m, k) + 1
      BY <3>2, <3>3, PipedAppend
    <3>5. \A l : l # k => Piped(m, l)' = Piped(m, l)
      BY <3>2, <3>3, PipedAppend
    <3> QED
      BY <3>1, <3>4, <3>5
  <2>4. Whereabouts(m)'
    <3>1. Holds(m, h)
      BY <1>2 DEF Holds
    <3>2. \A l \in Linked : l = <<n, h>> => l[1] = From[m] /\ l[2] = h
      BY <2>1
    <3> QED
      BY <1>6, <1>8, <2>3, <3>1, <3>2
  <2>5. Begun(n, m) = 1 /\ queued[n][m] = 0 /\ m \in sent
    <3>1. TasksFor(n, m) \subseteq Task /\ t \in BagToSet(running) \cap TasksFor(n, m)
      BY <1>1 DEF TasksFor
    <3>2. Begun(n, m) # 0
      BY <3>1, FewTokens, TokensPart DEF Begun, FinitelyBegun, TypeOK
    <3>3. queued[n][m] \in Nat
      BY <1>1, <1>5
    <3>4. Fresh(m) + queued[n][m] + Begun(n, m) <= 1
      BY <2>1 DEF CopiesOf, Origin
    <3>5. Begun(n, m) = 1 /\ queued[n][m] = 0 /\ Fresh(m) = 0
      BY <1>1, <1>3, <1>4, <3>2, <3>3, <3>4
    <3> QED
      BY <3>5 DEF Fresh
  <2>6. Owing(m, h)' + 1 <= Owing(m, h)
    <3>1. w \in Owed(m, h)
      <4>1. t \in TasksWith(From[m], m, w)
        BY <1>1, <2>1 DEF TasksWith, TasksFor
      <4> QED
        BY <1>2, <4>1 DEF Owed, DevicesAt
    <3>2. w \notin Owed(m, h)'
      <4>1. \A u \in BagToSet(running') : u \notin TasksWith(From[m], m, w)
        BY <1>3, <2>1, <2>5 DEF TasksWith
      <4>2. m \in sent' /\ queued'[From[m]][m] = 0
        BY <1>1, <2>1, <2>5
      <4> QED
        BY <4>1, <4>2 DEF Owed
    <3>3. IsFiniteSet(Owed(m, h)) /\ Owed(m, h)' \subseteq Owed(m, h)
      BY <1>1, <1>5, CountsTyped
    <3>4. /\ Cardinality(Owed(m, h) \ {w}) = Cardinality(Owed(m, h)) - 1
          /\ IsFiniteSet(Owed(m, h) \ {w})
      BY <3>1, <3>3, FS_RemoveElement
    <3>5. Cardinality(Owed(m, h)') <= Cardinality(Owed(m, h) \ {w})
      BY <3>2, <3>3, <3>4, FS_Subset
    <3>6. Cardinality(Owed(m, h)') \in Nat /\ Cardinality(Owed(m, h)) \in Nat
      BY <3>3, FS_Subset, FS_CardinalityType
    <3> QED
      BY <3>4, <3>5, <3>6 DEF Owing
  <2>7. ASSUME NEW s \in Session
        PROVE  Delivered(m, s)'
    <3>1. HomeOf[s] \in Node /\ got[s][m] \in Nat /\ got'[s][m] = got[s][m]
      BY <2>2, Homes
    <3>2. /\ Writing(HomeOf[s], m, s)' \in 0..Writing(HomeOf[s], m, s)
          /\ Writing(HomeOf[s], m, s) \in Nat
          /\ queued'[HomeOf[s]][m] = queued[HomeOf[s]][m] /\ queued[HomeOf[s]][m] \in Nat
          /\ Owing(m, HomeOf[s])' \in 0..Owing(m, HomeOf[s]) /\ Owing(m, HomeOf[s]) \in Nat
      BY <1>3, <1>5, <3>1
    <3>3. HereCount(m, s)' <= HereCount(m, s) /\ HereCount(m, s)' \in Int
      BY <1>4, <3>1, <3>2 DEF HereCount
    <3>4. Piped(m, <<From[m], HomeOf[s]>>)' + Owing(m, HomeOf[s])'
            <= Piped(m, <<From[m], HomeOf[s]>>) + Owing(m, HomeOf[s])
      <4>1. CASE HomeOf[s] = h
        BY <1>6, <2>1, <2>3, <2>6, <3>2, <4>1
      <4>2. CASE HomeOf[s] # h
        BY <1>6, <2>1, <2>3, <3>2, <4>2
      <4> QED
        BY <4>1, <4>2
    <3>5. /\ Piped(m, <<From[m], HomeOf[s]>>)' \in Nat
          /\ Piped(m, <<From[m], HomeOf[s]>>) \in Nat
      BY <1>6, <2>3
    <3>6. ThereCount(m, s)' <= ThereCount(m, s) /\ ThereCount(m, s)' \in Int
      BY <3>1, <3>2, <3>4, <3>5 DEF ThereCount
    <3> QED
      BY <3>1, <3>3, <3>6, DeliveredKept DEF CopiesOf
  <2> QED
    BY <1>7, <2>4, <2>7 DEF CopiesOf
<1>11. CASE h # n /\ ~ Routed(n, w)
  <2>1. got' = got /\ pipe' = pipe
    BY <1>11 DEF Write
  <2>2. \A l : Piped(m, l)' = Piped(m, l)
    BY <2>1 DEF Piped, Places
  <2>3. BagToSet(running') \subseteq Task
    <3>1. Next
      BY <1>1 DEF Next, Writes, Task
    <3> QED
      BY <3>1, NextTyped DEF TypeOK
  <2>4. \A l : Piped(m, l)' \in 0..Piped(m, l)
    BY <1>6, <2>2
  <2> QED
    BY <1>1, <1>3, <2>1, <2>3, <2>4, NoneAdded
<1> QED
  BY <1>9, <1>10, <1>11

LEMMA ReceiveCopies ==
  ASSUME TypeOK, FinitelyBegun, NEW l \in Linked, Receive(l), NEW m \in Message,
         Head(pipe[l]) = m, l \in serving, CopiesOf(m)
  PROVE  CopiesOf(m)'
<1>1. /\ pipe[l] # <<>> /\ pipe' = [pipe EXCEPT ![l] = Tail(@)]
      /\ queued' = [queued EXCEPT ![l[2]][m] = @ + 1]
      /\ UNCHANGED <<sent, running, got>>
  BY DEF Receive
<1>2. /\ Piped(m, l)' \in 0..(Piped(m, l) - 1)
      /\ \A k : Piped(m, k) \in Nat
      /\ \A k : k # l => Piped(m, k)' \in 0..Piped(m, k)
  BY <1>1, PipedTail
<1>3. l[1] = From[m] /\ Holds(m, l[2])
  BY <1>2 DEF CopiesOf, Whereabouts
<1>4. l = <<From[m], l[2]>> /\ l[2] # From[m] /\ l[2] \in Node /\ From[m] \in Node
  BY <1>3, LinkEnds
<1>5. /\ \A n \in Node : queued[n][m] \in Nat
      /\ queued'[l[2]][m] = queued[l[2]][m] + 1
      /\ \A n \in Node \ {l[2]} : queued'[n][m] = queued[n][m]
  BY <1>1, <1>4 DEF TypeOK
<1>6. Fresh(m)' = Fresh(m) /\ Fresh(m) \in 0..1
  BY <1>1 DEF Fresh
<1>7. /\ \A n \in Node : Begun(n, m)' = Begun(n, m)
      /\ \A n \in Node, s \in Session :
           Writing(n, m, s)' = Writing(n, m, s) /\ Writing(n, m, s) \in Nat
  BY <1>1, SameTasks
<1>8. \A n \in Node : Owing(m, n)' = Owing(m, n) /\ Owing(m, n) \in Nat
  <2>1. \A n \in Node : Owing(m, n)' = Owing(m, n)
    BY <1>1, <1>4, <1>5 DEF Owing, Owed, DevicesAt, Devices
  <2> QED
    BY <2>1, CountsTyped
<1>9. Whereabouts(m)'
  <2>1. \A k \in Linked : Piped(m, k)' > 0 => Piped(m, k) > 0
    BY <1>2
  <2> QED
    BY <1>1, <1>3, <1>5, <2>1 DEF CopiesOf, Whereabouts, Holds, Devices
<1>10. Origin(m)'
  BY <1>4, <1>5, <1>6, <1>7 DEF CopiesOf, Origin
<1>11. ASSUME NEW s \in Session
       PROVE  Delivered(m, s)'
  <2>1. HomeOf[s] \in Node /\ got[s][m] \in Nat /\ got' = got
    BY <1>1, Homes
  <2>2. /\ Writing(HomeOf[s], m, s)' = Writing(HomeOf[s], m, s)
        /\ Writing(HomeOf[s], m, s) \in Nat
        /\ Owing(m, HomeOf[s])' = Owing(m, HomeOf[s]) /\ Owing(m, HomeOf[s]) \in Nat
    BY <1>7, <1>8, <2>1
  <2>3. HomeOf[s] = From[m]
          => HereCount(m, s)' <= HereCount(m, s) /\ HereCount(m, s)' \in Int
    BY <1>4, <1>5, <1>6, <2>1, <2>2 DEF HereCount
  <2>4. /\ queued'[HomeOf[s]][m] + Piped(m, <<From[m], HomeOf[s]>>)'
             <= queued[HomeOf[s]][m] + Piped(m, <<From[m], HomeOf[s]>>)
        /\ queued'[HomeOf[s]][m] \in Nat /\ queued[HomeOf[s]][m] \in Nat
        /\ Piped(m, <<From[m], HomeOf[s]>>)' \in Nat /\ Piped(m, <<From[m], HomeOf[s]>>) \in Nat
    <3>1. CASE HomeOf[s] = l[2]
      BY <1>2, <1>4, <1>5, <3>1
    <3>2. CASE HomeOf[s] # l[2]
      <4>1. <<From[m], HomeOf[s]>> # l
        BY <1>4, <3>2
      <4> QED
        BY <1>2, <1>5, <2>1, <3>2, <4>1
    <3> QED
      BY <3>1, <3>2
  <2>5. ThereCount(m, s)' <= ThereCount(m, s) /\ ThereCount(m, s)' \in Int
    BY <2>1, <2>2, <2>4 DEF ThereCount
  <2> QED
    BY <2>1, <2>3, <2>5, DeliveredKept DEF CopiesOf
<1> QED
  BY <1>9, <1>10, <1>11 DEF CopiesOf

(* The steps that have nothing to do with m, or lose copies of it.         *)
LEMMA OtherSteps ==
  ASSUME TypeOK, FinitelyBegun, NEW m \in Message, CopiesOf(m), [Next]_vars,
         ~ ClientSends(m), \A n \in Node : ~ Lookup(n, m),
         \A t \in BagToSet(running), s \in Session : t.msg = m => ~ Write(t, s),
         \A l \in Linked \cap serving : Head(pipe[l]) = m => ~ Receive(l)
  PROVE  CopiesOf(m)'
<1>1. BagToSet(running') \subseteq Task
  BY NextTyped DEF TypeOK
<1>2. ASSUME UNCHANGED <<sent, queued, running, pipe, got>>
      PROVE  CopiesOf(m)'
  BY <1>1, <1>2, SameTasks, SamePipes, NoneAdded
<1>3. ASSUME NEW x \in Message, ClientSends(x)
      PROVE  CopiesOf(m)'
  <2>1. /\ x # m /\ sent' = sent \cup {x} /\ UNCHANGED <<running, pipe, got>>
        /\ \A n \in Node : queued'[n][m] = queued[n][m]
    BY <1>3, RoutingAssumption DEF ClientSends, TypeOK
  <2> QED
    BY <1>1, <2>1, SameTasks, SamePipes, NoneAdded
<1>4. ASSUME NEW n \in Node, NEW x \in Message, Lookup(n, x)
      PROVE  CopiesOf(m)'
  <2>1. /\ x # m /\ UNCHANGED <<sent, pipe, got>>
        /\ \A k \in Node : queued'[k][m] = queued[k][m]
    BY <1>4 DEF Lookup, TypeOK
  <2>2. /\ \A k \in Node : Begun(k, m)' \in 0..Begun(k, m)
        /\ \A k \in Node, s \in Session : Writing(k, m, s)' \in 0..Writing(k, m, s)
        /\ \A u \in BagToSet(running') : u \in BagToSet(running) \/ u.msg = x
    <3>1. \A k \in Node : /\ Begun(k, m) \in Nat
                         /\ \A s \in Session : Writing(k, m, s) \in Nat
      BY CountsTyped
    <3>2. \A u \in BagToSet(running') : u \in BagToSet(running) \/ u.msg = x
      BY <1>4, LookupEffect
    <3>3. ASSUME NEW k \in Node
          PROVE  Begun(k, m)' \in 0..Begun(k, m)
      BY <1>4, <2>1, <3>1, LookupEffect
    <3>4. ASSUME NEW k \in Node, NEW s \in Session
          PROVE  Writing(k, m, s)' \in 0..Writing(k, m, s)
      BY <1>4, <2>1, <3>1, LookupEffect
    <3> QED
      BY <3>2, <3>3, <3>4
  <2> QED
    BY <1>1, <2>1, <2>2, SamePipes, NoneAdded
<1>5. ASSUME NEW t \in BagToSet(running), NEW s \in Session, Write(t, s)
      PROVE  CopiesOf(m)'
  <2>1. t.msg # m /\ UNCHANGED <<sent, queued>> /\ t \in Task
    BY <1>5 DEF Write, TypeOK
  <2>2. /\ \A k \in Node : Begun(k, m)' \in 0..Begun(k, m)
        /\ \A k \in Node, d \in Session : Writing(k, m, d)' \in 0..Writing(k, m, d)
        /\ \A u \in BagToSet(running') : u \in BagToSet(running) \/ u.msg = t.msg
    BY <1>5, WriteEffect
  <2>3. \A d \in Session : got'[d][m] = got[d][m]
    <3>1. CASE got' = got
      BY <3>1
    <3>2. CASE got' # got
      <4>1. PICK c : got' = [got EXCEPT ![s][t.msg] = c]
        BY <1>5, <3>2 DEF Write
      <4>2. got \in [Session -> [Message -> Nat]]
        BY DEF TypeOK
      <4> QED
        BY <2>1, <4>1, <4>2
    <3> QED
      BY <3>1, <3>2
  <2>4. \A l : Piped(m, l)' \in 0..Piped(m, l)
    <3>1. CASE HomeOf[s] # t.node /\ Routed(t.node, s)
      <4>1. PICK k \in Linked : pipe' = [pipe EXCEPT ![k] = Append(@, t.msg)]
        BY <1>5, <3>1 DEF Write, Routed, Behind
      <4>2. t.msg \in Message \cup {"hello"}
        BY <2>1 DEF Task
      <4>3. ASSUME NEW x \in Message \cup {"hello"}, x # m,
                   pipe' = [pipe EXCEPT ![k] = Append(@, x)]
            PROVE  \A l : Piped(m, l)' = Piped(m, l) /\ Piped(m, l) \in Nat
        BY <4>3, PipedAppend
      <4>4. \A l : Piped(m, l)' = Piped(m, l) /\ Piped(m, l) \in Nat
        BY <2>1, <4>1, <4>2, <4>3
      <4> QED
        BY <4>4
    <3>2. CASE ~ (HomeOf[s] # t.node /\ Routed(t.node, s))
      <4>1. UNCHANGED pipe
        BY <1>5, <3>2 DEF Write
      <4>2. \A l : Piped(m, l)' = Piped(m, l) /\ Piped(m, l) \in Nat
        BY <4>1, SamePipes
      <4> QED
        BY <4>2
    <3> QED
      BY <3>1, <3>2
  <2> QED
    BY <1>1, <2>1, <2>2, <2>3, <2>4, NoneAdded
<1>6. ASSUME UNCHANGED <<sent, running, got>>,
             \A n \in Node : queued'[n][m] = queued[n][m],
             \A l : Piped(m, l)' \in 0..Piped(m, l)
      PROVE  CopiesOf(m)'
  BY <1>1, <1>6, SameTasks, NoneAdded
<1>7. ASSUME NEW l \in Linked, Connect(l), link[l] # "down"
      PROVE  CopiesOf(m)'
  <2>1. /\ pipe' = [pipe EXCEPT ![l] = Append(@, "hello")] /\ "hello" # m
        /\ UNCHANGED <<sent, queued, running, got>>
    BY <1>7, RoutingAssumption DEF Connect
  <2>2. \A k : Piped(m, k)' = Piped(m, k) /\ Piped(m, k) \in Nat
    BY <2>1, PipedAppend
  <2> QED
    BY <1>6, <2>1, <2>2
<1>8. ASSUME NEW l \in Linked, Lose(l)
      PROVE  CopiesOf(m)'
  <2>1. /\ pipe' = [pipe EXCEPT ![l] = <<>>] /\ UNCHANGED <<sent, queued, running, got>>
    BY <1>8 DEF Lose
  <2> QED
    BY <1>6, <2>1, PipedNone
<1>9. ASSUME NEW l \in Linked, ReceiveHello(l) \/ Receive(l)
      PROVE  CopiesOf(m)'
  <2>1. /\ pipe[l] # <<>> /\ pipe' = [pipe EXCEPT ![l] = Tail(@)]
        /\ UNCHANGED <<sent, running, got>>
    BY <1>9 DEF ReceiveHello, Receive
  <2>2. \A n \in Node : queued'[n][m] = queued[n][m]
    <3>1. CASE UNCHANGED queued
      BY <3>1
    <3>2. CASE l \in serving /\ Receive(l)
      <4>1. /\ queued' = [queued EXCEPT ![l[2]][Head(pipe[l])] = @ + 1]
            /\ Head(pipe[l]) # m /\ Head(pipe[l]) \in Message /\ l[2] \in Node
        BY <3>2, PipeHead, LinkEnds DEF Receive
      <4> QED
        BY <4>1 DEF TypeOK
    <3> QED
      BY <1>9, <3>1, <3>2 DEF ReceiveHello, Receive
  <2>3. \A k : Piped(m, k)' \in 0..Piped(m, k)
    <3>1. \A k : Piped(m, k) \in Nat
      BY CountsTyped
    <3>2. \A k : /\ k = l /\ Head(pipe[l]) = m => Piped(m, k)' \in 0..(Piped(m, k) - 1)
                 /\ k # l \/ Head(pipe[l]) # m => Piped(m, k)' \in 0..Piped(m, k)
      BY <2>1, PipedTail
    <3> QED
      BY <3>1, <3>2
  <2> QED
    BY <1>6, <2>1, <2>2, <2>3
<1>10. ASSUME \/ \E l \in Linked : Connect(l) /\ link[l] = "down"
              \/ \E s \in Session : CloseChannel(s) \/ Unlist(s)
              \/ UNCHANGED vars
       PROVE  UNCHANGED <<sent, queued, running, pipe, got>>
  BY <1>10 DEF Connect, CloseChannel, Unlist, vars
<1> QED
  BY <1>2, <1>3, <1>4, <1>5, <1>7, <1>8, <1>9, <1>10 DEF Next, Writes

-----------------------------------------------------------------------------
(* How often a session is given a message.                                 *)

LEMMA CopiesInvInit == Init => FinitelyBegun /\ CopiesInv
<1> SUFFICES ASSUME Init PROVE FinitelyBegun /\ CopiesInv
  OBVIOUS
<1>1. TypeOK
  BY InitTyped
<1>2. BagToSet(running) = {}
  BY DEF Init, BagToSet, EmptyBag, SetToBag
<1>3. \A S : Tokens(running, S) = {}
  BY <1>2 DEF Tokens
<1>4. FinitelyBegun
  BY <1>3, FS_EmptySet DEF FinitelyBegun
<1>5. ASSUME NEW m \in Message
      PROVE  CopiesOf(m)
  <2>1. \A n, s : Begun(n, m) = 0 /\ Writing(n, m, s) = 0
    BY <1>3, FS_EmptySet DEF Begun, Writing
  <2>2. \A l : Piped(m, l) = 0
    <3>1. \A l \in Linked : Places(m, l) = {}
      BY DEF Init, Places
    <3> QED
      BY <3>1, FS_EmptySet DEF Piped
  <2>3. Fresh(m) = 1 /\ \A n \in Node : queued[n][m] = 0
    BY DEF Init, Fresh
  <2>4. Whereabouts(m)
    BY <1>2, <2>2, <2>3 DEF Whereabouts
  <2>5. Origin(m)
    BY <2>1, <2>3, RoutingAssumption DEF Origin
  <2>6. ASSUME NEW s \in Session
        PROVE  Delivered(m, s)
    <3>1. HomeOf[s] \in Node /\ got[s][m] = 0
      BY RoutingAssumption DEF Init
    <3>2. HereCount(m, s) = 1
      BY <2>1, <2>3, <3>1 DEF HereCount
    <3>3. Owing(m, HomeOf[s]) = DeviceCount(m, HomeOf[s])
      BY DEF Owing, Owed, DeviceCount, Init
    <3>4. ThereCount(m, s) = DeviceCount(m, HomeOf[s])
      <4>1. DeviceCount(m, HomeOf[s]) \in Nat
        BY <1>1, <1>4, CountsTyped
      <4> QED
        BY <2>1, <2>2, <2>3, <3>1, <3>3, <4>1 DEF ThereCount
    <3>5. DeviceCount(m, HomeOf[s]) \in Nat
      BY <1>1, <1>4, CountsTyped
    <3> QED
      BY <3>1, <3>2, <3>4, <3>5 DEF Delivered
  <2> QED
    BY <2>4, <2>5, <2>6 DEF CopiesOf
<1> QED
  BY <1>4, <1>5 DEF CopiesInv

LEMMA CopiesInvNext ==
  ASSUME TypeOK, FinitelyBegun, CopiesInv, [Next]_vars
  PROVE  CopiesInv'
<1> SUFFICES ASSUME NEW m \in Message, StaysThere(m)
             PROVE  CopiesOf(m)'
  BY DEF CopiesInv, StaysThere, Devices
<1>1. CopiesOf(m)
  BY DEF CopiesInv
<1>2. CASE ClientSends(m)
  BY <1>1, <1>2, SendCopies
<1>3. ASSUME NEW n \in Node, Lookup(n, m)
      PROVE  CopiesOf(m)'
  BY <1>1, <1>3, LookupCopies
<1>4. ASSUME NEW t \in BagToSet(running), NEW s \in Session, t.msg = m, Write(t, s)
      PROVE  CopiesOf(m)'
  BY <1>1, <1>4, WriteCopies
<1>5. ASSUME NEW l \in Linked \cap serving, Head(pipe[l]) = m, Receive(l)
      PROVE  CopiesOf(m)'
  BY <1>1, <1>5, ReceiveCopies
<1> QED
  BY <1>1, <1>2, <1>3, <1>4, <1>5, OtherSteps

(* A session on the sender's node is given a message at most once, one     *)
(* elsewhere at most once for each device that the addressee has on its    *)
(* node, whatever is lost, closed or stale, provided no node that gets the *)
(* message forwarded can pass it on to another of those devices.           *)
THEOREM BoundedCopies == Spec => []CopiesBounded
<1>1. TypeOK /\ FinitelyBegun /\ CopiesInv => CopiesBounded
  <2> SUFFICES ASSUME TypeOK, FinitelyBegun, CopiesInv, NEW m \in Message,
                      StaysThere(m), NEW s \in Session
               PROVE  got[s][m] <= Copies(m, s)
    BY DEF CopiesBounded
  <2>1. Delivered(m, s)
    BY DEF CopiesInv, CopiesOf
  <2>2. /\ got[s][m] \in Nat /\ queued[HomeOf[s]][m] \in Nat
        /\ Fresh(m) \in Nat /\ Writing(HomeOf[s], m, s) \in Nat
        /\ Piped(m, <<From[m], HomeOf[s]>>) \in Nat /\ Owing(m, HomeOf[s]) \in Nat
        /\ DeviceCount(m, HomeOf[s]) \in Nat
    BY Homes, CountsTyped
  <2>3. CASE s \notin Devices(To[m])
    BY <2>1, <2>3 DEF Delivered, Copies
  <2>4. CASE s \in Devices(To[m]) /\ HomeOf[s] = From[m]
    BY <2>1, <2>2, <2>4 DEF Delivered, HereCount, Copies
  <2>5. CASE s \in Devices(To[m]) /\ HomeOf[s] # From[m]
    <3>1. Copies(m, s) = DeviceCount(m, HomeOf[s])
      BY <2>5 DEF Copies, DeviceCount, DevicesAt
    <3> QED
      BY <2>1, <2>2, <2>5, <3>1 DEF Delivered, ThereCount
  <2> QED
    BY <2>3, <2>4, <2>5
<1>2. Init => TypeOK /\ FinitelyBegun /\ CopiesInv
  BY InitTyped, CopiesInvInit
<1>3. TypeOK /\ FinitelyBegun /\ CopiesInv /\ [Next]_vars
        => TypeOK' /\ FinitelyBegun' /\ CopiesInv'
  BY NextTyped, FinitelyBegunNext, CopiesInvNext
<1> QED
  BY <1>1, <1>2, <1>3, PTL DEF Spec

=============================================================================
