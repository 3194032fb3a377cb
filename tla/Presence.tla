------------------------------- MODULE Presence -------------------------------
(***************************************************************************)
(* What the cluster-wide user cache promises to whoever looks a user up    *)
(* (UserCacheDAO): a session appears once, when it has logged in, and once *)
(* it has disappeared it never comes back, since session ids are random    *)
(* UUIDs that no later login reuses.  The one thing that may happen to a   *)
(* user besides is that the directory loses track of all its sessions.     *)
(***************************************************************************)
CONSTANTS Session, User, UserOf

VARIABLE status

Status == {"offline", "online", "gone", "unknown"}

Init == status = [s \in Session |-> "offline"]

Appear(s) ==
  /\ status[s] = "offline"
  /\ status' = [status EXCEPT ![s] = "online"]

Disappear(s) ==
  /\ status[s] = "online"
  /\ status' = [status EXCEPT ![s] = "gone"]

LoseTrack(u) ==
  status' = [s \in Session |-> IF UserOf[s] = u THEN "unknown" ELSE status[s]]

Next ==
  \/ \E s \in Session : Appear(s) \/ Disappear(s)
  \/ \E u \in User : LoseTrack(u)

Spec == Init /\ [][Next]_status

=============================================================================
