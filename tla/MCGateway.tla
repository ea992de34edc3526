------------------------------ MODULE MCGateway ------------------------------
(* A session that reconnects: its old socket k1 or k2 and the other, new one. *)
EXTENDS Gateway

CONSTANTS k1, k2, s1

MCSessionOf == [k \in Socket |-> s1]

\* A behaviour is about carts, or about two replies.
MCLoads == { [replies |-> 0, versions |-> 2], [replies |-> 2, versions |-> 0] }
=============================================================================
