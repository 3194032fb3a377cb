--------------------------- MODULE PeerSenderProofs ---------------------------
(***************************************************************************)
(* Proofs, for any number of writing threads: connectFlag and channel of a *)
(* PeerSender agree whenever no listener is half done, and the sender      *)
(* keeps to PeerLink.                                                      *)
(***************************************************************************)
EXTENDS PeerSender, TLAPS

LEMMA InitTyped == Init => TypeOK
<1> SUFFICES ASSUME Init PROVE TypeOK
  OBVIOUS
<1>1. writes \in [Writer -> Results]
  BY DEF Init, Results
<1> QED
  BY <1>1 DEF Init, TypeOK, Conns, Loops

LEMMA NextTyped == TypeOK /\ [Next]_vars => TypeOK'
<1> SUFFICES ASSUME TypeOK, [Next]_vars PROVE TypeOK'
  OBVIOUS
<1> USE DEF TypeOK, Conns, Loops, Results
<1>1. CASE FirstConnect
  BY <1>1 DEF FirstConnect, DoConnect
<1>2. CASE ConnectEnds
  BY <1>2 DEF ConnectEnds
<1>3. CASE ConnectionLost
  BY <1>3 DEF ConnectionLost
<1>4. CASE Retry
  BY <1>4 DEF Retry, DoConnect
<1>5. CASE ConnectFailed
  <2>1. reConnectCount' \in Nat
    BY <1>5 DEF ConnectFailed
  <2> QED
    BY <1>5, <2>1 DEF ConnectFailed
<1>6. CASE ConnectFlagged
  <2>1. conn' \in Conns /\ reConnectCount' \in Nat
    BY <1>6 DEF ConnectFlagged, GivesUp
  <2> QED
    BY <1>6, <2>1 DEF ConnectFlagged
<1>7. CASE ConnectHooked
  BY <1>7 DEF ConnectHooked
<1>8. CASE ConnectAnnounced
  BY <1>8 DEF ConnectAnnounced
<1>9. CASE CloseNulls
  BY <1>9 DEF CloseNulls
<1>10. CASE CloseUnflags
  BY <1>10 DEF CloseUnflags
<1>11. CASE LoopCloses
  BY <1>11 DEF LoopCloses
<1>12. CASE LoopEnds
  BY <1>12 DEF LoopEnds
<1>13. CASE StopRequests
  BY <1>13 DEF StopRequests
<1>14. CASE StopUnflags
  BY <1>14 DEF StopUnflags
<1>15. ASSUME NEW w \in Writer, WriteChecks(w)
       PROVE  TypeOK'
  BY <1>15 DEF WriteChecks
<1>16. ASSUME NEW w \in Writer, WriteGoes(w)
       PROVE  TypeOK'
  BY <1>16 DEF WriteGoes
<1>17. CASE UNCHANGED vars
  BY <1>17 DEF vars
<1> QED
  BY <1>1, <1>2, <1>3, <1>4, <1>5, <1>6, <1>7, <1>8, <1>9, <1>10, <1>11,
     <1>12, <1>13, <1>14, <1>15, <1>16, <1>17
  DEF Next, LoopStep

(* Every reachable state of a sender is well typed.                        *)
THEOREM SenderTyped == Spec => []TypeOK
BY InitTyped, NextTyped, PTL DEF Spec

-----------------------------------------------------------------------------
(* What the listeners assume of the fields when they begin, and what they  *)
(* leave half done.  That a channel is set only over a connection that is  *)
(* open or just closed is what makes its closeListener come.               *)
Connected == conn \in {"open", "closed"}

FieldsInv ==
  /\ channel => Connected
  /\ loop \in {"idle", "hooked", "ended"} /\ connectFlag => channel
  /\ loop = "flagged" => Connected /\ ~ channel /\ (stopping = "no" => connectFlag)
  /\ loop = "hooked" => channel
  /\ loop = "nulled" => conn = "closed" /\ ~ channel
  /\ loop = "ended" => conn = "none"
  /\ channel /\ conn = "open" /\ stopping = "no" => connectFlag
  /\ ~ grouped => conn = "none" /\ ~ retry
  /\ loop = "ended" => stopping # "no"
  /\ stopping # "no" => grouped

LEMMA FieldsNext == TypeOK /\ FieldsInv /\ [Next]_vars => FieldsInv'
<1> SUFFICES ASSUME TypeOK, FieldsInv, [Next]_vars PROVE FieldsInv'
  OBVIOUS
<1> USE DEF TypeOK, FieldsInv, Connected
<1>1. CASE FirstConnect
  BY <1>1 DEF FirstConnect, DoConnect
<1>2. CASE ConnectEnds
  BY <1>2 DEF ConnectEnds
<1>3. CASE ConnectionLost
  BY <1>3 DEF ConnectionLost
<1>4. CASE Retry
  BY <1>4 DEF Retry, DoConnect
<1>5. CASE ConnectFailed
  BY <1>5 DEF ConnectFailed
<1>6. CASE ConnectFlagged
  BY <1>6 DEF ConnectFlagged, GivesUp
<1>7. CASE ConnectHooked
  BY <1>7 DEF ConnectHooked
<1>8. CASE ConnectAnnounced
  BY <1>8 DEF ConnectAnnounced
<1>9. CASE CloseNulls
  BY <1>9 DEF CloseNulls
<1>10. CASE CloseUnflags
  BY <1>10 DEF CloseUnflags
<1>11. CASE LoopCloses
  BY <1>11 DEF LoopCloses
<1>12. CASE LoopEnds
  BY <1>12 DEF LoopEnds
<1>13. CASE StopRequests
  BY <1>13 DEF StopRequests
<1>14. CASE StopUnflags
  BY <1>14 DEF StopUnflags
<1>15. ASSUME NEW w \in Writer, WriteChecks(w) \/ WriteGoes(w)
       PROVE  FieldsInv'
  BY <1>15 DEF WriteChecks, WriteGoes
<1>16. CASE UNCHANGED vars
  BY <1>16 DEF vars
<1> QED
  BY <1>1, <1>2, <1>3, <1>4, <1>5, <1>6, <1>7, <1>8, <1>9, <1>10, <1>11,
     <1>12, <1>13, <1>14, <1>15, <1>16
  DEF Next, LoopStep

(* Between listeners the flag is up only over a connected channel, and is  *)
(* up over an open one that nobody stops.                                  *)
THEOREM FlagCorrect == Spec => []FlagAtRest
<1>1. Init => FieldsInv
  BY DEF Init, FieldsInv, Connected
<1>2. TypeOK /\ FieldsInv /\ [Next]_vars => FieldsInv'
  BY FieldsNext
<1>3. FieldsInv => FlagAtRest
  BY DEF FieldsInv, FlagAtRest, Connected
<1> QED
  BY <1>1, <1>2, <1>3, SenderTyped, PTL DEF Spec

-----------------------------------------------------------------------------
(* A sender connects once: whoever has found the flag up, and whoever can  *)
(* still find it up, is past the only connect there is, so the channel of  *)
(* an open connection has been stored, or connectedListener is about to.   *)
InUse == connectFlag \/ \E w \in Writer : writes[w] = "checked"

PastConnect ==
  InUse => /\ grouped
           /\ conn \notin {"connecting", "refused"}
           /\ conn = "open" /\ ~ channel => loop = "flagged"

LEMMA PastConnectNext ==
  TypeOK /\ FieldsInv /\ PastConnect /\ [Next]_vars => PastConnect'
<1> SUFFICES ASSUME TypeOK, FieldsInv, PastConnect, [Next]_vars PROVE PastConnect'
  OBVIOUS
<1> USE DEF PastConnect, InUse
<1>1. CASE FirstConnect
  BY <1>1 DEF FirstConnect, DoConnect
<1>2. CASE ConnectEnds
  BY <1>2 DEF ConnectEnds
<1>3. CASE ConnectionLost
  BY <1>3 DEF ConnectionLost
<1>4. CASE Retry
  BY <1>4 DEF Retry, DoConnect, FieldsInv
<1>5. CASE ConnectFailed
  BY <1>5 DEF ConnectFailed
<1>6. CASE ConnectFlagged
  BY <1>6 DEF ConnectFlagged, GivesUp, FieldsInv
<1>7. CASE ConnectHooked
  BY <1>7 DEF ConnectHooked
<1>8. CASE ConnectAnnounced
  BY <1>8 DEF ConnectAnnounced
<1>9. CASE CloseNulls
  BY <1>9 DEF CloseNulls
<1>10. CASE CloseUnflags
  BY <1>10 DEF CloseUnflags, FieldsInv
<1>11. CASE LoopCloses
  BY <1>11 DEF LoopCloses
<1>12. CASE LoopEnds
  BY <1>12 DEF LoopEnds
<1>13. CASE StopRequests
  BY <1>13 DEF StopRequests
<1>14. CASE StopUnflags
  BY <1>14 DEF StopUnflags
<1>15. ASSUME NEW w \in Writer, WriteChecks(w) \/ WriteGoes(w)
       PROVE  PastConnect'
  <2>1. InUse' => InUse
    <3>1. \A v \in Writer : writes'[v] = "checked" => writes[v] = "checked" \/ connectFlag
      BY <1>15 DEF WriteChecks, WriteGoes, TypeOK
    <3> QED
      BY <1>15, <3>1 DEF WriteChecks, WriteGoes
  <2> QED
    BY <1>15, <2>1 DEF WriteChecks, WriteGoes
<1>16. CASE UNCHANGED vars
  BY <1>16 DEF vars
<1> QED
  BY <1>1, <1>2, <1>3, <1>4, <1>5, <1>6, <1>7, <1>8, <1>9, <1>10, <1>11,
     <1>12, <1>13, <1>14, <1>15, <1>16
  DEF Next, LoopStep

LEMMA WriteReachesOpen ==
  TypeOK /\ PastConnect /\ [Next]_vars
    => \A w \in Writer :
         writes[w] = "checked" /\ conn = "open" /\ loop # "flagged"
           => writes'[w] \in {"checked", "sent"}
<1> SUFFICES ASSUME TypeOK, PastConnect, [Next]_vars, NEW w \in Writer,
                    writes[w] = "checked", conn = "open", loop # "flagged"
             PROVE  writes'[w] \in {"checked", "sent"}
  OBVIOUS
<1>1. channel
  BY DEF PastConnect, InUse, TypeOK
<1>2. CASE UNCHANGED writes
  BY <1>2
<1>3. ASSUME NEW v \in Writer, WriteChecks(v) \/ WriteGoes(v)
      PROVE  writes'[w] \in {"checked", "sent"}
  <2>1. CASE WriteChecks(v)
    BY <2>1 DEF WriteChecks, TypeOK
  <2>2. CASE WriteGoes(v)
    BY <1>1, <2>2 DEF WriteGoes, TypeOK
  <2> QED
    BY <1>3, <2>1, <2>2
<1> QED
  BY <1>2, <1>3
  DEF Next, LoopStep, FirstConnect, ConnectEnds, ConnectionLost, Retry,
      ConnectFailed, ConnectFlagged, ConnectHooked, ConnectAnnounced,
      CloseNulls, CloseUnflags, LoopCloses, LoopEnds, StopRequests,
      StopUnflags, vars

(* A write that has passed the flag test never finds the channel of an     *)
(* open connection null, but for the moment between the two assignments of *)
(* connectedListener: a sender makes one connection, and never again.      *)
THEOREM WritesCorrect == Spec => OpenIsWritten
<1>1. Init => FieldsInv /\ PastConnect
  BY DEF Init, FieldsInv, Connected, PastConnect, InUse
<1>2. TypeOK /\ FieldsInv /\ PastConnect /\ [Next]_vars => (FieldsInv /\ PastConnect)'
  BY FieldsNext, PastConnectNext
<1>3. TypeOK /\ PastConnect /\ [Next]_vars
        => [\A w \in Writer :
              writes[w] = "checked" /\ conn = "open" /\ loop # "flagged"
                => writes'[w] \in {"checked", "sent"}]_vars
  BY WriteReachesOpen
<1> QED
  BY <1>1, <1>2, <1>3, SenderTyped, PTL DEF Spec, OpenIsWritten

-----------------------------------------------------------------------------
(* The sender in the terms of PeerLink.                                    *)

LinkMove ==
  LinkState' # LinkState =>
    \/ <<LinkState, LinkState'>> \in LinkSteps
    \/ stopping' # stopping /\ LinkState' = Stopped(LinkState)

WriteMove(w) ==
  writes'[w] # writes[w] =>
    IF writes[w] = "checked" THEN writes'[w] \in WriteOutcomes(LinkState)
    ELSE writes'[w] = IF LinkState \in Flagged THEN "checked" ELSE "dropped"

LEMMA LinkKept ==
  ASSUME TypeOK, FieldsInv, PastConnect, [Next]_vars
  PROVE  LinkMove
<1> USE DEF LinkMove, LinkState, LinkSteps, TypeOK, FieldsInv, Connected
<1>1. CASE FirstConnect
  BY <1>1 DEF FirstConnect, DoConnect
<1>2. CASE ConnectEnds
  BY <1>2 DEF ConnectEnds
<1>3. CASE ConnectionLost
  BY <1>3 DEF ConnectionLost
<1>4. CASE Retry
  BY <1>4 DEF Retry, DoConnect
<1>5. CASE ConnectFailed
  BY <1>5 DEF ConnectFailed
<1>6. CASE ConnectFlagged
  BY <1>6 DEF ConnectFlagged, GivesUp
<1>7. CASE ConnectHooked
  BY <1>7 DEF ConnectHooked
<1>8. CASE ConnectAnnounced
  BY <1>8 DEF ConnectAnnounced
<1>9. CASE CloseNulls
  BY <1>9 DEF CloseNulls
<1>10. CASE CloseUnflags
  BY <1>10 DEF CloseUnflags
<1>11. CASE LoopCloses
  BY <1>11 DEF LoopCloses
<1>12. CASE LoopEnds
  BY <1>12 DEF LoopEnds
<1>13. CASE StopRequests
  BY <1>13 DEF StopRequests
<1>14. CASE StopUnflags
  BY <1>14 DEF StopUnflags, Stopped, PastConnect, InUse
<1>15. ASSUME NEW w \in Writer, WriteChecks(w) \/ WriteGoes(w)
       PROVE  LinkMove
  BY <1>15 DEF WriteChecks, WriteGoes
<1>16. CASE UNCHANGED vars
  BY <1>16 DEF vars
<1> QED
  BY <1>1, <1>2, <1>3, <1>4, <1>5, <1>6, <1>7, <1>8, <1>9, <1>10, <1>11,
     <1>12, <1>13, <1>14, <1>15, <1>16
  DEF Next, LoopStep

LEMMA WriteKept ==
  ASSUME TypeOK, FieldsInv, [Next]_vars, NEW w \in Writer
  PROVE  WriteMove(w)
<1> USE DEF WriteMove, TypeOK
<1>1. CASE UNCHANGED writes
  BY <1>1
<1>2. ASSUME NEW v \in Writer, WriteChecks(v)
      PROVE  WriteMove(w)
  BY <1>2 DEF WriteChecks, LinkState, Flagged
<1>3. ASSUME NEW v \in Writer, WriteGoes(v)
      PROVE  WriteMove(w)
  <2>1. CASE v = w
    <3>1. /\ writes[w] = "checked"
          /\ writes'[w] = IF ~ channel THEN "npe"
                          ELSE IF conn = "open" THEN "sent" ELSE "failed"
      BY <1>3, <2>1 DEF WriteGoes
    <3>2. CASE connectFlag /\ channel /\ conn = "open"
      BY <3>1, <3>2 DEF WriteOutcomes, LinkState
    <3>3. CASE connectFlag /\ channel /\ conn # "open"
      <4>1. LinkState = "broken" /\ writes'[w] = "failed"
        BY <3>1, <3>3 DEF LinkState
      <4> QED
        BY <3>1, <4>1 DEF WriteOutcomes
    <3>4. CASE connectFlag /\ ~ channel
      <4>1. LinkState \in {"flagged", "losing"} /\ writes'[w] = "npe"
        BY <3>1, <3>4 DEF LinkState
      <4> QED
        BY <3>1, <4>1 DEF WriteOutcomes
    <3>5. CASE ~ connectFlag
      <4>1. LinkState \in {"down", "lost"} /\ writes'[w] \in {"npe", "sent", "failed"}
        BY <3>1, <3>5 DEF LinkState
      <4> QED
        BY <3>1, <4>1 DEF WriteOutcomes
    <3> QED
      BY <3>2, <3>3, <3>4, <3>5
  <2> QED
    BY <1>3, <2>1 DEF WriteGoes
<1> QED
  BY <1>1, <1>2, <1>3
  DEF Next, LoopStep, FirstConnect, ConnectEnds, ConnectionLost, Retry,
      ConnectFailed, ConnectFlagged, ConnectHooked, ConnectAnnounced,
      CloseNulls, CloseUnflags, LoopCloses, LoopEnds, StopRequests,
      StopUnflags, vars

(* A PeerSender keeps to PeerLink, which NodeRouter takes its senders to   *)
(* do, with any number of writers.                                         *)
THEOREM LinkCorrect == Spec => KeepsLink
<1>1. Init => FieldsInv /\ PastConnect
  BY DEF Init, FieldsInv, Connected, PastConnect, InUse
<1>2. TypeOK /\ FieldsInv /\ PastConnect /\ [Next]_vars => (FieldsInv /\ PastConnect)'
  BY FieldsNext, PastConnectNext
<1>3. TypeOK /\ FieldsInv /\ PastConnect /\ [Next]_vars
        => LinkMove /\ \A w \in Writer : WriteMove(w)
  BY LinkKept, WriteKept
<1>4. TypeOK /\ FieldsInv /\ PastConnect /\ [Next]_vars
        => [/\ LinkState' # LinkState =>
                 \/ <<LinkState, LinkState'>> \in LinkSteps
                 \/ stopping' # stopping /\ LinkState' = Stopped(LinkState)
            /\ \A w \in Writer :
                 writes'[w] # writes[w] =>
                   IF writes[w] = "checked" THEN writes'[w] \in WriteOutcomes(LinkState)
                   ELSE writes'[w] = IF LinkState \in Flagged THEN "checked" ELSE "dropped"
           ]_vars
  BY <1>3 DEF LinkMove, WriteMove
<1> QED
  BY <1>1, <1>2, <1>4, SenderTyped, PTL DEF Spec, KeepsLink

=============================================================================
