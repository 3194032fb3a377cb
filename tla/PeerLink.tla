------------------------------- MODULE PeerLink -------------------------------
(***************************************************************************)
(* A PeerSender as those see it that write to it: what its two fields and  *)
(* its connection are, how that may change, and what becomes of a write.   *)
(* PeerSender is shown to keep to this, and NodeRouter relies on it.       *)
(***************************************************************************)
EXTENDS Naturals

(* "down": not connected yet.  "flagged": connectFlag is up and channel    *)
(* still null.  "up": both are set over an open connection.  "broken": the *)
(* connection has closed and closeListener has not come.  "losing": it has *)
(* nulled the channel, the flag is still up.  "lost": the flag is down and *)
(* stays down.                                                             *)
LinkStates == {"down", "flagged", "up", "broken", "losing", "lost"}

(* One way only: nothing connects a sender again.                          *)
LinkSteps ==
  {<<"down", "flagged">>, <<"down", "lost">>, <<"flagged", "up">>,
   <<"flagged", "broken">>, <<"up", "broken">>, <<"broken", "losing">>,
   <<"losing", "lost">>}

(* stopConnecting takes the flag down; a connect that is under way may     *)
(* still raise it.                                                         *)
Stopped(state) == IF state = "down" THEN "down" ELSE "lost"

(* writeAndFlush tests the flag, and returns if it is down.                *)
Flagged == {"flagged", "up", "broken", "losing"}

(* Then it uses the channel.  The write gets through, its future fails, or *)
(* the channel is null and it throws.  Behind a flag that has gone down    *)
(* since the test the channel may be either.                               *)
WriteOutcomes(state) ==
  CASE state = "up"                    -> {"sent"}
    [] state = "broken"                -> {"failed"}
    [] state \in {"flagged", "losing"} -> {"npe"}
    [] OTHER                           -> {"sent", "failed", "npe"}

=============================================================================
