------------------------------ MODULE PeerSender ------------------------------
(***************************************************************************)
(* One PeerSender: the connection a node keeps to one of its peers, the    *)
(* two fields connectFlag and channel that tell other threads about it,    *)
(* the retry after a failed connect, and stopConnecting.                   *)
(*                                                                         *)
(* Three kinds of threads meet here.  The sender's own event loop runs     *)
(* connectedListener, closeListener and the scheduled retry, one at a      *)
(* time.  The router's thread calls doConnect once and stopConnecting.     *)
(* Writers (pool threads and other event loops) call writeAndFlush.  The   *)
(* fields are plain, so a step here is one access to them; a call reads    *)
(* each field once, so a write is taken to be seen by the next read.       *)
(***************************************************************************)
EXTENDS Integers, PeerLink

CONSTANT Writer \* threads that call writeAndFlush, once each

(* connectedListener: ++reConnectCount < 3.                                *)
MaxAttempts == 3

VARIABLES
  grouped,        \* Bootstrap b has its event loop group
  conn,           \* the TCP connection
  connectFlag,
  channel,        \* the field channel is not null
  reConnectCount,
  retry,          \* the loop has a doConnect scheduled
  loop,           \* how far the loop has come in a listener
  stopping,       \* how far stopConnecting has come
  writes          \* writes[w]: what became of the write of w

vars == <<grouped, conn, connectFlag, channel, reConnectCount, retry, loop,
          stopping, writes>>

Conns == {"none", "connecting", "open", "refused", "closed"}
Loops == {"idle", "flagged", "hooked", "nulled", "ended"}
Results == {"none", "checked", "sent", "failed", "npe", "dropped"}

TypeOK ==
  /\ grouped \in BOOLEAN
  /\ conn \in Conns
  /\ connectFlag \in BOOLEAN
  /\ channel \in BOOLEAN
  /\ reConnectCount \in Nat
  /\ retry \in BOOLEAN
  /\ loop \in Loops
  /\ stopping \in {"no", "requested", "done"}
  /\ writes \in [Writer -> Results]

Init ==
  /\ grouped = FALSE
  /\ conn = "none"
  /\ connectFlag = FALSE
  /\ channel = FALSE
  /\ reConnectCount = 0
  /\ retry = FALSE
  /\ loop = "idle"
  /\ stopping = "no"
  /\ writes = [w \in Writer |-> "none"]

-----------------------------------------------------------------------------
(* Connecting.                                                             *)

(* b.group(g) throws "group set already" when it is called a second time;  *)
(* doConnect logs that and makes no connection.                            *)
DoConnect ==
  /\ grouped' = TRUE
  /\ conn' = IF grouped THEN conn ELSE "connecting"

(* NodeRouter.doAfterAdd.                                                  *)
FirstConnect ==
  /\ ~ grouped
  /\ stopping = "no"
  /\ DoConnect
  /\ UNCHANGED <<connectFlag, channel, reConnectCount, retry, loop, stopping,
                 writes>>

(* The scheduled task of connectedListener, ten seconds later.             *)
Retry ==
  /\ retry /\ loop = "idle"
  /\ retry' = FALSE
  /\ DoConnect
  /\ UNCHANGED <<connectFlag, channel, reConnectCount, loop, stopping, writes>>

(* TCP accepts or refuses, or the connect timeout fires.                   *)
ConnectEnds ==
  /\ conn = "connecting"
  /\ conn' \in {"open", "refused"}
  /\ UNCHANGED <<grouped, connectFlag, channel, reConnectCount, retry, loop,
                 stopping, writes>>

-----------------------------------------------------------------------------
(* connectedListener.                                                      *)

(* Mutant: the count goes down.                                            *)
ConnectFailedDown ==
  /\ loop = "idle" /\ conn = "refused"
  /\ reConnectCount' = reConnectCount - 1
  /\ retry' = TRUE
  /\ connectFlag' = FALSE
  /\ conn' = "none"
  /\ UNCHANGED <<grouped, channel, loop, stopping, writes>>

(* A refused connect, while the count allows, schedules another.  A loop   *)
(* that shuts down drops what it has scheduled (LoopEnds).                 *)
ConnectFailed ==
  /\ loop = "idle" /\ conn = "refused"
  /\ reConnectCount + 1 < MaxAttempts
  /\ reConnectCount' = reConnectCount + 1
  /\ retry' = TRUE
  /\ connectFlag' = FALSE
  /\ conn' = "none"
  /\ UNCHANGED <<grouped, channel, loop, stopping, writes>>

(* The other branch is for a connect that succeeded, though the peer may   *)
(* have closed since, and for the third that failed.  It sets the flag,    *)
(* then the channel; its closeListener fires at once on a closed channel.  *)
GivesUp == conn = "refused" /\ reConnectCount + 1 >= MaxAttempts

ConnectFlagged ==
  /\ loop = "idle" /\ ~ channel
  /\ conn \in {"open", "closed"} \/ GivesUp
  /\ conn' = IF GivesUp THEN "closed" ELSE conn
  /\ reConnectCount' = IF GivesUp THEN reConnectCount + 1 ELSE reConnectCount
  /\ connectFlag' = TRUE
  /\ loop' = "flagged"
  /\ UNCHANGED <<grouped, channel, retry, stopping, writes>>

(* Mutant: the channel is not stored.                                      *)
ConnectHookedNot ==
  /\ loop = "flagged"
  /\ loop' = "hooked"
  /\ UNCHANGED <<grouped, conn, connectFlag, channel, reConnectCount, retry,
                 stopping, writes>>

ConnectHooked ==
  /\ loop = "flagged"
  /\ channel' = TRUE
  /\ loop' = "hooked"
  /\ UNCHANGED <<grouped, conn, connectFlag, reConnectCount, retry, stopping,
                 writes>>

(* The CONNECT_FINISHED notice, which goes through writeAndFlush too.      *)
ConnectAnnounced ==
  /\ loop = "hooked"
  /\ loop' = "idle"
  /\ UNCHANGED <<grouped, conn, connectFlag, channel, reConnectCount, retry,
                 stopping, writes>>

-----------------------------------------------------------------------------
(* The end of a connection.                                                *)

(* The peer closes, or dies.                                               *)
ConnectionLost ==
  /\ conn = "open"
  /\ conn' = "closed"
  /\ UNCHANGED <<grouped, connectFlag, channel, reConnectCount, retry, loop,
                 stopping, writes>>

(* closeListener.                                                          *)
CloseNulls ==
  /\ loop = "idle" /\ conn = "closed" /\ channel
  /\ channel' = FALSE
  /\ loop' = "nulled"
  /\ UNCHANGED <<grouped, conn, connectFlag, reConnectCount, retry, stopping,
                 writes>>

(* Mutant: the flag stays up.                                              *)
CloseUnflagsNot ==
  /\ loop = "nulled"
  /\ conn' = "none"
  /\ loop' = "idle"
  /\ UNCHANGED <<grouped, connectFlag, channel, reConnectCount, retry,
                 stopping, writes>>

CloseUnflags ==
  /\ loop = "nulled"
  /\ connectFlag' = FALSE
  /\ conn' = "none"
  /\ loop' = "idle"
  /\ UNCHANGED <<grouped, channel, reConnectCount, retry, stopping, writes>>

-----------------------------------------------------------------------------
(* stopConnecting: shutdownGracefully only asks; the loop closes its       *)
(* channel and ends when it has run what was queued.                       *)

StopRequests ==
  /\ stopping = "no" /\ grouped
  /\ stopping' = "requested"
  /\ UNCHANGED <<grouped, conn, connectFlag, channel, reConnectCount, retry,
                 loop, writes>>

StopUnflags ==
  /\ stopping = "requested"
  /\ stopping' = "done"
  /\ connectFlag' = FALSE
  /\ UNCHANGED <<grouped, conn, channel, reConnectCount, retry, loop, writes>>

LoopCloses ==
  /\ stopping # "no" /\ loop = "idle"
  /\ \/ conn = "open" /\ conn' = "closed"
     \/ conn = "connecting" /\ conn' = "refused"
  /\ UNCHANGED <<grouped, connectFlag, channel, reConnectCount, retry, loop,
                 stopping, writes>>

(* Mutant: the scheduled retry outlives the loop.                          *)
LoopEndsRetrying ==
  /\ stopping # "no" /\ loop = "idle" /\ conn = "none"
  /\ loop' = "ended"
  /\ UNCHANGED <<grouped, conn, connectFlag, channel, reConnectCount, retry,
                 stopping, writes>>

LoopEnds ==
  /\ stopping # "no" /\ loop = "idle" /\ conn = "none"
  /\ loop' = "ended"
  /\ retry' = FALSE
  /\ UNCHANGED <<grouped, conn, connectFlag, channel, reConnectCount, stopping,
                 writes>>

-----------------------------------------------------------------------------
(* writeAndFlush, called by anyone who holds the sender.                   *)

WriteChecks(w) ==
  /\ writes[w] = "none"
  /\ writes' = [writes EXCEPT ![w] = IF connectFlag THEN "checked" ELSE "dropped"]
  /\ UNCHANGED <<grouped, conn, connectFlag, channel, reConnectCount, retry,
                 loop, stopping>>

WriteGoes(w) ==
  /\ writes[w] = "checked"
  /\ writes' = [writes EXCEPT ![w] = IF ~ channel THEN "npe"
                                     ELSE IF conn = "open" THEN "sent" ELSE "failed"]
  /\ UNCHANGED <<grouped, conn, connectFlag, channel, reConnectCount, retry,
                 loop, stopping>>

-----------------------------------------------------------------------------

LoopStep == Retry \/ ConnectFailed \/ ConnectFlagged \/ ConnectHooked
              \/ ConnectAnnounced \/ CloseNulls \/ CloseUnflags
              \/ LoopCloses \/ LoopEnds

Next ==
  \/ FirstConnect \/ ConnectEnds \/ ConnectionLost
  \/ LoopStep
  \/ StopRequests \/ StopUnflags
  \/ \E w \in Writer : WriteChecks(w) \/ WriteGoes(w)

Spec == Init /\ [][Next]_vars

(* The loop keeps running, a connect ends one way or the other within its  *)
(* timeout, and a stopConnecting that has begun returns.                   *)
Fairness == WF_vars(LoopStep) /\ WF_vars(ConnectEnds) /\ WF_vars(StopUnflags)

FairSpec == Spec /\ Fairness

-----------------------------------------------------------------------------
(* Properties.                                                             *)

(* Whenever no listener is half done the two fields agree: the flag is up  *)
(* only with a channel that was connected, it is up as long as that        *)
(* channel is open and nobody stops the sender, and a loop that has ended  *)
(* leaves it down, however connect, loss and stopConnecting interleave.    *)
FlagAtRest ==
  loop \in {"idle", "ended"} =>
    /\ connectFlag => channel /\ conn \in {"open", "closed"}
    /\ conn = "open" /\ channel /\ stopping = "no" => connectFlag
    /\ loop = "ended" => conn = "none" /\ ~ connectFlag

(* A lost connection takes the flag down (closeListener), so that writers  *)
(* stop using the sender.                                                  *)
LossIsNoticed == conn = "closed" ~> ~ connectFlag

(* stopConnecting ends the loop, its connection and its retry, even when   *)
(* it meets a connect that is just succeeding.                             *)
StopDisconnects ==
  stopping # "no" ~> loop = "ended" /\ ~ connectFlag /\ ~ retry

(* A write that has passed the flag test reaches an open connection.  It   *)
(* finds the channel null only if connectedListener has set the flag and   *)
(* not the channel yet, or if the connection has been lost meanwhile.      *)
OpenIsWritten ==
  [][\A w \in Writer :
       writes[w] = "checked" /\ conn = "open" /\ loop # "flagged"
         => writes'[w] \in {"checked", "sent"}]_vars

(* The sender in the terms of PeerLink: its fields and its connection.     *)
LinkState ==
  IF connectFlag
  THEN CASE channel /\ conn = "open"       -> "up"
         [] channel /\ conn # "open"       -> "broken"
         [] ~ channel /\ loop = "nulled"   -> "losing"
         [] OTHER                          -> "flagged"
  ELSE IF \/ ~ grouped \/ conn \in {"connecting", "refused"}
          \/ conn \in {"open", "closed"} /\ ~ channel /\ loop = "idle"
  THEN "down" ELSE "lost"

(* Whoever relies on PeerLink may: the two listeners and stopConnecting    *)
(* move the sender only as it says, however they interleave, and a write   *)
(* comes out as it says in the state it finds.  A flag that is down after  *)
(* a connection stays down, and no stop leaves it up.                      *)
KeepsLink ==
  [][/\ LinkState' # LinkState =>
          \/ <<LinkState, LinkState'>> \in LinkSteps
          \/ stopping' # stopping /\ LinkState' = Stopped(LinkState)
     /\ \A w \in Writer :
          writes'[w] # writes[w] =>
            IF writes[w] = "checked" THEN writes'[w] \in WriteOutcomes(LinkState)
            ELSE writes'[w] = IF LinkState \in Flagged THEN "checked" ELSE "dropped"
    ]_vars

(* Statement of the sources that the code does not keep.                   *)

(* The log line of connectedListener: after ten seconds the connect is     *)
(* tried again.                                                            *)
RetryConnects == retry ~> conn = "connecting" \/ stopping # "no"

=============================================================================
