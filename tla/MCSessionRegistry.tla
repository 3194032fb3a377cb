-------------------------- MODULE MCSessionRegistry --------------------------
(* Instances of SessionRegistry for TLC.  a1 and a2 are two devices of the  *)
(* user ann, b1 is the only one of bob; n1 and n2 are nodes; w1 is a pool   *)
(* thread on one of them.                                                  *)
EXTENDS SessionRegistry, TLC

CONSTANTS n1, n2, ann, bob, a1, a2, b1, w1

Nodes == {n1, n2}

(* Two devices of one user, on two nodes.                                  *)
Devices == {a1, a2}
Apart    == (a1 :> n1) @@ (a2 :> n2)
OneUser  == (a1 :> ann) @@ (a2 :> ann)

(* One session of each of two users.                                       *)
Couple      == {a1, b1}
CoupleHomes == (a1 :> n1) @@ (b1 :> n2)
CoupleUsers == (a1 :> ann) @@ (b1 :> bob)

NoWorker  == [w \in {} |-> n1]
OneWorker == (w1 :> n1)

OneWay   == {<<n1, n2>>}
BothWays == {<<n1, n2>>, <<n2, n1>>}
=============================================================================
