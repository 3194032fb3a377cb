--------------------------- MODULE MCMessageRouting ---------------------------
(* Instances of MessageRouting for TLC: two nodes, and a message from n1 to *)
(* bob, who has the device b1 there and the devices b2 and b3 on n2.        *)
EXTENDS MessageRouting, TLC

CONSTANTS n1, n2, bob, b1, b2, b3, toBob

Owners == [s \in Session |-> bob]
Homes  == [s \in Session |-> IF s = b1 THEN n1 ELSE n2]
ToBob  == [m \in Message |-> bob]
FromN1 == [m \in Message |-> n1]

OneWay   == {<<n1, n2>>}
BothWays == {<<n1, n2>>, <<n2, n1>>}
=============================================================================
