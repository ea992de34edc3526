------------------------------- MODULE HttpApi -------------------------------
(***************************************************************************)
(* The REST surface and the process that serves it: confirm a cart, list    *)
(* the past orders of a device, an image; from the boot to the exit that a  *)
(* signal starts.  The carts are the Cart Module's: it commits them one at  *)
(* a time under the cart's lock, which the confirm route takes too.         *)
(***************************************************************************)
EXTENDS ImageProxy, FiniteSets

CONSTANTS CartId, Device, DeviceOf, None,  \* a cart may have no device
          RoutesOf,                        \* RoutesOf[r]: what request r may ask for
          MaxSignals                       \* bound: SIGINTs and SIGTERMs

VARIABLES
  route,      \* route[r]: what request r asks for
  blob,       \* Redis: the cart at cart:{c}: "none", "draft" or "confirmed"
  index,      \* Redis: the set at device:{d}
  ids,        \* ids[r]: the members of the index as request r read them
  orders,     \* orders[r]: the carts in the answer to r
  redis,      \* the connection: "open", "quit" once QUIT was sent, then "closed"
  process,    \* "booting", "up" or "exited"
  listening,
  stopping,   \* stopping[k]: where the k-th stop() is: "no", "redis", "pool" or "exit"
  fresh,      \* history: carts committed since the index of their device last expired
  owed        \* history: what the list of r must hold

redisVars == <<blob, index, fresh>>
processVars == <<redis, process, listening, stopping>>
readVars == <<ids, orders, owed>>
httpVars == <<requestVars, imageVars, route, redisVars, processVars, readVars>>

ASSUME HttpAssumption ==
  /\ None \notin Device /\ DeviceOf \in [CartId -> Device \union {None}]
  /\ MaxSignals \in Nat

\* What a request may ask for.
Route == [path : {"confirm"}, cart : CartId] \union [path : {"orders"}, device : Device]
           \union [path : {"health", "image", "malformed", "unknown"}]
ASSUME RouteAssumption == RoutesOf \in [Request -> SUBSET Route]

Of(d) == { c \in CartId : DeviceOf[c] = d }
Signal == 1..MaxSignals

HttpInit ==
  /\ ImageInit
  /\ route \in { f \in [Request -> Route] : \A r \in Request : f[r] \in RoutesOf[r] }
  /\ blob = [c \in CartId |-> "none"]
  /\ index = [d \in Device |-> {}]
  /\ ids = [r \in Request |-> {}] /\ orders = [r \in Request |-> {}]
  /\ redis = "open" /\ process = "booting" /\ listening = FALSE
  /\ stopping = [k \in Signal |-> "no"]
  /\ fresh = {} /\ owed = [r \in Request |-> {}]

-----------------------------------------------------------------------------
(* The Cart Module, and Redis.                                             *)

Confirming(r, c) == route[r].path = "confirm" /\ route[r].cart = c
Locked(c) == \E r \in Request : Confirming(r, c) /\ at[r] \in {"get", "insert", "stamp", "rejected"}

\* Mutant: only the commit that creates a cart writes the index.
commitIndexOnce(c) ==
  /\ process # "exited" /\ redis = "open" /\ ~Locked(c) /\ blob[c] # "confirmed"
  /\ blob' = [blob EXCEPT ![c] = "draft"]
  /\ index' = [d \in Device |-> IF DeviceOf[c] = d /\ blob[c] = "none" THEN index[d] \union {c} ELSE index[d]]
  /\ fresh' = fresh \union {c}
  /\ UNCHANGED <<requestVars, imageVars, route, processVars, readVars>>

(* COMMIT_CART_LUA of ensureCart or applyProposal: the blob, and the index   *)
(* with its expiry started anew.                                           *)
commit(c) ==
  /\ process # "exited" /\ redis = "open" /\ ~Locked(c) /\ blob[c] # "confirmed"
  /\ blob' = [blob EXCEPT ![c] = "draft"]
  /\ index' = [d \in Device |-> IF DeviceOf[c] = d THEN index[d] \union {c} ELSE index[d]]
  /\ fresh' = fresh \union {c}
  /\ UNCHANGED <<requestVars, imageVars, route, processVars, readVars>>

(* indexTtlSeconds without a commit for a cart of the device.              *)
expire(d) ==
  /\ index[d] # {}
  /\ index' = [index EXCEPT ![d] = {}]
  /\ fresh' = fresh \ Of(d)
  /\ owed' = [r \in Request |-> IF at[r] = "members" THEN owed[r] \ Of(d) ELSE owed[r]]
  /\ UNCHANGED <<requestVars, imageVars, route, blob, ids, orders, processVars>>

(* A command sent after QUIT is rejected.                                  *)
Issue(r, command) == GoOn(r, IF redis = "open" THEN command ELSE "rejected")

-----------------------------------------------------------------------------
(* The routes.                                                             *)

(* What a 200 to a confirm promised to be on the device's list.             *)
Promised(d) == { c \in Of(d) \cap fresh : \E q \in Request : Confirming(q, c) /\ status[q] = 200 }

(* close() takes no more connections; the next request on one that carries  *)
(* another is still taken.                                                 *)
Connected(r) == listening \/ \E q \in Request \ {r} : at[q] # "sent"

createHttpRouter(r) ==
  /\ process # "exited" /\ Connected(r) /\ at[r] = "sent"
  /\ CASE route[r].path = "confirm" -> GoOn(r, "lock") /\ UNCHANGED <<imageVars, owed>>
       [] route[r].path = "orders" ->
            /\ Issue(r, "members") /\ UNCHANGED imageVars
            /\ owed' = [owed EXCEPT ![r] = Promised(route[r].device)]
       [] route[r].path = "image" -> fetchImage(r) /\ UNCHANGED owed
       [] route[r].path = "health" -> Answer(r, 200) /\ UNCHANGED <<imageVars, owed>>
       [] route[r].path = "malformed" -> Answer(r, 400) /\ UNCHANGED <<imageVars, owed>>
       [] route[r].path = "unknown" -> Answer(r, 404) /\ UNCHANGED <<imageVars, owed>>
  /\ UNCHANGED <<route, redisVars, processVars, ids, orders>>

confirm(r) ==
  /\ at[r] = "lock" /\ ~Locked(route[r].cart)
  /\ Issue(r, "get")
  /\ UNCHANGED <<imageVars, route, redisVars, processVars, readVars>>

confirmGet(r) ==
  /\ at[r] = "get"
  /\ LET cart == blob[route[r].cart] IN
       CASE cart = "none" -> Answer(r, 404)
         [] cart = "confirmed" -> Answer(r, 200)
         [] cart = "draft" -> GoOn(r, "insert")
  /\ UNCHANGED <<imageVars, route, redisVars, processVars, readVars>>

\* Mutant: what Odoo refuses is not caught.
insertCartUncaught(r) ==
  /\ at[r] = "insert"
  /\ Issue(r, "stamp") \/ GoOn(r, "thrown")
  /\ UNCHANGED <<imageVars, route, redisVars, processVars, readVars>>

(* An OdooError is a 502, anything else that is thrown a 500.               *)
insertCart(r) ==
  /\ at[r] = "insert"
  /\ Issue(r, "stamp") \/ \E code \in {500, 502} : Answer(r, code)
  /\ UNCHANGED <<imageVars, route, redisVars, processVars, readVars>>

(* carts.set: the blob alone, neither the index nor its expiry.            *)
confirmSet(r) ==
  /\ at[r] = "stamp"
  /\ blob' = [blob EXCEPT ![route[r].cart] = "confirmed"]
  /\ Answer(r, 200) \/ Answer(r, 500)
  /\ UNCHANGED <<imageVars, route, index, fresh, processVars, readVars>>

getOrdersByDevice(r) ==
  /\ at[r] = "members"
  /\ ids' = [ids EXCEPT ![r] = index[route[r].device]]
  /\ IF ids'[r] = {} THEN Answer(r, 200) ELSE Issue(r, "blobs")
  /\ UNCHANGED <<imageVars, route, redisVars, processVars, orders, owed>>

mget(r) ==
  /\ at[r] = "blobs"
  /\ orders' = [orders EXCEPT ![r] = { c \in ids[r] : blob[c] = "confirmed" }]
  /\ Answer(r, 200)
  /\ UNCHANGED <<imageVars, route, redisVars, processVars, ids, owed>>

redisFails(r) ==
  /\ at[r] \in {"get", "stamp", "members", "blobs", "rejected"}
  /\ Answer(r, 500)
  /\ UNCHANGED <<imageVars, route, redisVars, processVars, readVars>>

Serve(r) ==
  /\ process # "exited"
  /\ \/ confirm(r) \/ confirmGet(r) \/ insertCart(r) \/ confirmSet(r)
     \/ getOrdersByDevice(r) \/ mget(r) \/ redisFails(r)
     \/ ProxyStep(r) /\ UNCHANGED <<route, redisVars, processVars, readVars>>

(* Only the image route watches its client.                                *)
close(r) ==
  /\ process # "exited" /\ route[r].path = "image" /\ closes(r)
  /\ UNCHANGED <<route, redisVars, processVars, readVars>>

-----------------------------------------------------------------------------
(* The process.                                                            *)

(* ensureIndex has come back or failed, either will do; then the server      *)
(* listens, also when a stop() has already run past it.                    *)
start ==
  /\ process = "booting"
  /\ process' = "up" /\ listening' = TRUE
  /\ UNCHANGED <<requestVars, imageVars, route, redisVars, redis, stopping, readVars>>

(* stop() closes the server, then the Redis connection, then the pool.  The *)
(* first call takes the connection with it; a second finds none and goes    *)
(* straight to the pool.                                                   *)
stop(k) ==
  /\ process # "exited" /\ stopping[k] = "no"
  /\ listening' = FALSE
  /\ IF redis = "open"
     THEN redis' = "quit" /\ stopping' = [stopping EXCEPT ![k] = "redis"]
     ELSE stopping' = [stopping EXCEPT ![k] = "pool"] /\ UNCHANGED redis
  /\ UNCHANGED <<requestVars, imageVars, route, redisVars, process, readVars>>

InFlight == { r \in Request : at[r] \in {"get", "stamp", "members", "blobs"} }

(* QUIT is answered after the commands before it, or fails.                *)
closeRedisClient(k) ==
  /\ process # "exited" /\ stopping[k] = "redis" /\ InFlight = {}
  /\ redis' = "closed" /\ stopping' = [stopping EXCEPT ![k] = "pool"]
  /\ UNCHANGED <<requestVars, imageVars, route, redisVars, process, listening, readVars>>

closePgPool(k) ==
  /\ process # "exited" /\ stopping[k] = "pool"
  /\ process' = "exited" /\ listening' = FALSE
  /\ stopping' = [stopping EXCEPT ![k] = "exit"]
  /\ UNCHANGED <<requestVars, imageVars, route, redisVars, redis, readVars>>

HttpNext ==
  \/ \E r \in Request : createHttpRouter(r) \/ Serve(r) \/ close(r)
  \/ \E c \in CartId : commit(c)
  \/ \E d \in Device : expire(d)
  \/ start
  \/ \E k \in Signal : stop(k) \/ closeRedisClient(k) \/ closePgPool(k)

(* A promise the handler awaits settles: Redis answers or fails, Odoo       *)
(* answers or is timed out, the lock is given back.                        *)
HttpFairness == \A r \in Request : WF_httpVars(Serve(r))

HttpSpec == HttpInit /\ [][HttpNext]_httpVars /\ HttpFairness

-----------------------------------------------------------------------------
(* A list holds confirmed carts of the device and no others; and a cart whose *)
(* confirmation was answered 200 before the list was asked for is on it,     *)
(* whatever was committed, confirmed or restamped meanwhile, unless the       *)
(* index of the device expired since the last commit to the cart.            *)
ListedUnlessExpired ==
  \A r \in Request : (route[r].path = "orders" /\ status[r] = 200) =>
    /\ orders[r] \subseteq { c \in Of(route[r].device) : blob[c] = "confirmed" }
    /\ owed[r] \subseteq orders[r]

(* Every request that was taken is answered, or its client is gone, or the   *)
(* process is: no failure of Redis, Odoo, the image or the shutdown leaves a *)
(* response open for ever.                                                  *)
RequestsEnd ==
  \A r \in Request : at[r] # "sent" ~> (at[r] = "done" \/ process = "exited")

(* The shutdown waits for the commands in flight: "`quit()` drains in-flight *)
(* commands" (src/redis/redis-client.ts:23).  A second signal does not find   *)
(* the connection, and ends the process while the first still waits.         *)
ExitDrains == process = "exited" => InFlight = {}

HttpTypeOK ==
  /\ at \in [Request -> {"sent", "lock", "get", "insert", "stamp", "members", "blobs", "rejected",
                         "fetch", "body", "cancel", "done"}]
  /\ status \in [Request -> {Unanswered, 200, 304, 400, 404, 500, 502}]
  /\ response \in [Request -> {"open", "ended", "closed"}]
  /\ upstream \in [Request -> {"none", "open", "closed"}]
  /\ blob \in [CartId -> {"none", "draft", "confirmed"}]
  /\ index \in [Device -> SUBSET CartId]
  /\ ids \in [Request -> SUBSET CartId] /\ orders \in [Request -> SUBSET CartId]
  /\ redis \in {"open", "quit", "closed"} /\ process \in {"booting", "up", "exited"}
  /\ stopping \in [Signal -> {"no", "redis", "pool", "exit"}]
=============================================================================
