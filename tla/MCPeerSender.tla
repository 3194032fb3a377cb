----------------------------- MODULE MCPeerSender -----------------------------
(* PeerSender with two writing threads.                                    *)
EXTENDS PeerSender

CONSTANTS w1, w2
=============================================================================
