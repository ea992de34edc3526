------------------------------- MODULE MCApp -------------------------------
(* createApp and what it serves.  First three call sites register their      *)
(* limiters, with any configuration of five quotas, which differ in the      *)
(* vendor, in the account or in which part of the key is set, and of three   *)
(* sets of limits; then the process boots and takes requests.  The limits do not  *)
(* matter to the routes: it goes on from one configuration only.            *)
EXTENDS LimiterRegistry, HttpApi

CONSTANTS llm, intent, tts, p, p2, k, k2, c1, c2, d, r1, r2, r3

Key(provider, baseUrl, apiKey) == [provider |-> provider, baseUrl |-> baseUrl, apiKey |-> apiKey, model |-> <<>>]
MCQuotaKey == { Key(<<p>>, <<>>, <<k>>), Key(<<p>>, <<>>, <<k2>>), Key(<<p2>>, <<>>, <<k>>),
                Key(<<p>>, <<k>>, <<>>), Key(<<p>>, <<k>>, <<k>>) }

MCDeviceOf == [c \in CartId |-> IF c = c1 THEN d ELSE None]

ConfirmOf(c) == [path |-> "confirm", cart |-> c]
OrdersOf == [path |-> "orders", device |-> d]
Other(name) == [path |-> name]
MCRoutesOf ==
  [r \in Request |->
     CASE r = r1 -> { ConfirmOf(c1) }
       [] r = r2 -> { OrdersOf }
       [] r = r3 -> { OrdersOf, ConfirmOf(c1), ConfirmOf(c2), Other("image"), Other("health"), Other("malformed"), Other("unknown") }]

MCFirst == CHOOSE f \in [Request -> UNION { RoutesOf[r] : r \in Request }] : \A r \in Request : f[r] \in RoutesOf[r]
Configured ==
  /\ key = [s \in Site |-> Key(<<p>>, <<>>, <<k>>)]
  /\ limits = [s \in Site |-> Uncapped]
Registered3 ==
  /\ Configured
  /\ \E id \in DOMAIN limiters : limiters[id].callSites = <<tts, llm, intent>>

MCInit == Init /\ HttpInit /\ (route = MCFirst \/ Configured)
MCRegister == ~Registered3 /\ Next /\ UNCHANGED httpVars
MCServe == Registered3 /\ HttpNext /\ UNCHANGED vars
MCSpec == MCInit /\ [][MCRegister \/ MCServe]_<<vars, httpVars>> /\ HttpFairness
=============================================================================
