----------------------------- MODULE MCKeyedLock -----------------------------
(* Three calls for one cart and one for another. *)
EXTENDS KeyedLock, TLC

CONSTANTS a1, a2, a3, b1, cartA, cartB

MCCall == {a1, a2, a3, b1}
MCKey == {cartA, cartB}
MCKeyOf == [c \in MCCall |-> IF c = b1 THEN cartB ELSE cartA]
=============================================================================
