---------------------------- MODULE MCRateLimiter ----------------------------
(* Small instances of RateLimiter. *)
EXTENDS RateLimiter

CONSTANTS c1, c2, c3

MCCapacity == [d \in Dim |-> 2]

\* c1 asks for more than the whole bucket of model tokens.
MCCost == [c \in Caller |-> IF c = c1 THEN 3 ELSE 1]
MCOverrun == [c \in Caller |-> 1]
MCWait == [c \in Caller |-> IF c = c3 THEN 1 ELSE 2]

\* Two may wait for requests; the other queues are full with one.
MCMaxQueued == [st \in Stage |-> IF st = "rpm" THEN 2 ELSE 1]
=============================================================================
