--------------------------- MODULE CartController ---------------------------
(***************************************************************************)
(* The Cart Module (src/cart/): every read-modify-write of a cart, as the  *)
(* sequence of awaits it is.  A call of ensureCart, applyProposal or       *)
(* confirm takes the cart's lock, and gives it up when its promise         *)
(* settles.  Between two awaits every other call, a Redis or Odoo failure  *)
(* and a restart of the process may happen.  A write is two steps: the     *)
(* server executes it, then the reply arrives, or is lost.                 *)
(***************************************************************************)
EXTENDS CartOperations, FiniteSets

CONSTANTS CartId,
          Kind,         \* Kind[c]: "ensure", "apply" or "confirm"
          CartOf,       \* CartOf[c]: the cart the call is about
          RequestOf,    \* RequestOf[c]: the request an apply call carries
          DeviceOf,     \* DeviceOf[c], TableOf[c]: the identity ensureCart stamps
          TableOf,
          Ops,          \* Ops[r]: the operations request r proposes, at least one
          MaxRestarts   \* bound: restarts of the process in a behaviour

ASSUME CallAssumption ==
    /\ CartOf \in [Call -> CartId]
    /\ Kind \in [Call -> {"ensure", "apply", "confirm"}]
    /\ RequestOf \in [Call -> Request]
    /\ DeviceOf \in [Call -> Device]
    /\ TableOf \in [Call -> Table \cup {None}]
ASSUME OpsAssumption == \A r \in Request : Ops[r] \in Seq(Operation) /\ Len(Ops[r]) > 0
\* A request is about one cart, however often it is delivered.
ASSUME RequestAssumption ==
    \A c, d \in Call : Kind[c] = "apply" /\ Kind[d] = "apply" /\ RequestOf[c] = RequestOf[d]
                           => CartOf[c] = CartOf[d]
ASSUME NoneAssumption == None \notin Cart \cup Device
ASSUME RestartAssumption == MaxRestarts \in Nat

VARIABLES
    phase, ahead,   \* the apply lock
    pc,             \* pc[c]: the await the call is at
    cart,           \* cart[c]: the call's local `cart`
    opNo,           \* opNo[c]: the operation the batch loop is at
    refused,        \* refused[c]: the operations of the batch rejected so far
    store,          \* Redis: store[k], the blob at cart:{k}
    ledger,         \* Redis: ledger[r], the mark at cart:req:{r}
    deviceIndex,    \* Redis: the set at device:{d}
    tableIndex,     \* Redis: the set at table:{t}
    kitchen,        \* Odoo: the lines of the pos_order of a cart
    broadcast,      \* broadcast[k]: the version of the latest cart.updated of k
    answers,        \* answers[c]: what the caller or the customer heard of call c
    commits,        \* history: how many times request r was committed
    restarts

lockVars == <<phase, ahead>>
localVars == <<cart, opNo, refused>>
redisVars == <<store, ledger, deviceIndex, tableIndex, commits>>
vars == <<phase, ahead, pc, cart, opNo, refused, store, ledger, deviceIndex, tableIndex,
          kitchen, broadcast, answers, commits, restarts>>

Lock == INSTANCE FifoMutex WITH Key <- CartId, KeyOf <- CartOf

Await == {"ledger", "read", "op", "quote", "commit", "committed", "mark", "marked",
          "create", "created", "insert", "inserted", "stamp", "stamped"}

Answer == {"updated", "rejected", "internal_error", "duplicate",  \* applyProposal
           "order", "not_found", "failed",                        \* confirm
           "logged",                                             \* ensureCart
           "lost"}                                                \* the process died

TypeOK ==
    /\ Lock!TypeOK
    /\ pc \in [Call -> Await \cup {"idle"}]
    /\ cart \in [Call -> Cart \cup {None}]
    /\ opNo \in [Call -> Nat]
    /\ refused \in [Call -> SUBSET Nat]
    /\ store \in [CartId -> Cart \cup {None}]
    /\ ledger \in [Request -> {"none", "applied", "rejected"}]
    /\ deviceIndex \in [Device -> SUBSET CartId]
    /\ tableIndex \in [Table -> SUBSET CartId]
    /\ kitchen \in [CartId -> SUBSET Line]
    /\ broadcast \in [CartId -> Nat]
    /\ answers \in [Call -> SUBSET Answer]
    /\ commits \in [Request -> Nat]
    /\ restarts \in 0..MaxRestarts

Init ==
    /\ Lock!Init
    /\ pc = [c \in Call |-> "idle"]
    /\ cart = [c \in Call |-> None]
    /\ opNo = [c \in Call |-> 0]
    /\ refused = [c \in Call |-> {}]
    /\ store = [k \in CartId |-> None]
    /\ ledger = [r \in Request |-> "none"]
    /\ deviceIndex = [d \in Device |-> {}]
    /\ tableIndex = [t \in Table |-> {}]
    /\ kitchen = [k \in CartId |-> {}]
    /\ broadcast = [k \in CartId |-> 0]
    /\ answers = [c \in Call |-> {}]
    /\ commits = [r \in Request |-> 0]
    /\ restarts = 0

Batch(c) == Ops[RequestOf[c]]
AllOps(c) == 1..Len(Batch(c))

-----------------------------------------------------------------------------
(* The lock around every call. *)

\* client.connected, order.operations_proposed or POST /confirm: the listeners
\* call the controller without waiting for it.  A client that orders has
\* connected before; whether its ensureCart succeeded is another matter.
Arrive(c) ==
    /\ Kind[c] = "apply" =>
           \E d \in Call : Kind[d] = "ensure" /\ CartOf[d] = CartOf[c] /\ phase[d] # "idle"
    /\ Lock!Queue(c)
    /\ UNCHANGED <<pc, localVars, redisVars, kitchen, broadcast, answers, restarts>>

\* Mutant: the handlers run without the lock.
EnterAtOnce(c) ==
    /\ phase[c] = "waiting"
    /\ phase' = [phase EXCEPT ![c] = "running"]
    /\ pc' = [pc EXCEPT ![c] = IF Kind[c] = "apply" THEN "ledger" ELSE "read"]
    /\ UNCHANGED <<ahead, localVars, redisVars, kitchen, broadcast, answers, restarts>>

Enter(c) ==
    /\ Lock!Enter(c)
    /\ pc' = [pc EXCEPT ![c] = IF Kind[c] = "apply" THEN "ledger" ELSE "read"]
    /\ UNCHANGED <<localVars, redisVars, kitchen, broadcast, answers, restarts>>

\* The call's promise settles, having told `what`.
Leave(c, what) ==
    /\ Lock!Leave(c)
    /\ pc' = [pc EXCEPT ![c] = "idle"]
    /\ cart' = [cart EXCEPT ![c] = None]
    /\ opNo' = [opNo EXCEPT ![c] = 0]
    /\ refused' = [refused EXCEPT ![c] = {}]
    /\ answers' = [answers EXCEPT ![c] = what]

GoTo(c, next) == pc' = [pc EXCEPT ![c] = next] /\ UNCHANGED <<lockVars, answers>>

\* What a thrown error becomes: applyProposal catches it and emits
\* internal_error, confirm answers 502 or 500, ensureCart is only logged.
Failure(c) ==
    CASE Kind[c] = "apply" -> {"internal_error"}
      [] Kind[c] = "confirm" -> {"failed"}
      [] Kind[c] = "ensure" -> {"logged"}

\* An await throws: Redis, the menu database or Odoo is unreachable or refused.
\* At "committed", "marked", "created", "inserted" and "stamped" the write was
\* executed and only its reply is lost.  A failing quote is caught (Quote).
Throw(c) ==
    /\ pc[c] \in Await \ {"quote"}
    /\ Leave(c, Failure(c))
    /\ UNCHANGED <<redisVars, kitchen, broadcast, restarts>>

-----------------------------------------------------------------------------
(* ensureCart *)

\* Mutant: a cart that exists is created again.
EnsureAlways(c) ==
    /\ pc[c] = "read" /\ Kind[c] = "ensure"
    /\ GoTo(c, "create")
    /\ cart' = [cart EXCEPT ![c] = emptyCart(DeviceOf[c], TableOf[c])]
    /\ UNCHANGED <<opNo, refused, redisVars, kitchen, broadcast, restarts>>

EnsureRead(c) ==
    /\ pc[c] = "read" /\ Kind[c] = "ensure"
    /\ \/ /\ store[CartOf[c]] # None
          /\ Leave(c, {})
       \/ /\ store[CartOf[c]] = None
          /\ GoTo(c, "create")
          /\ cart' = [cart EXCEPT ![c] = emptyCart(DeviceOf[c], TableOf[c])]
          /\ UNCHANGED <<opNo, refused>>
    /\ UNCHANGED <<redisVars, kitchen, broadcast, restarts>>

\* COMMIT_CART_LUA: the blob and both indexes, in one script.
Persist(c) ==
    LET new == cart[c] IN
    /\ store' = [store EXCEPT ![CartOf[c]] = new]
    /\ deviceIndex' = [d \in Device |-> deviceIndex[d] \cup {k \in {CartOf[c]} : new.device = d}]
    /\ tableIndex' = [t \in Table |-> tableIndex[t] \cup {k \in {CartOf[c]} : new.table = t}]

commitCreated(c) ==
    /\ pc[c] = "create"
    /\ Persist(c)
    /\ GoTo(c, "created")
    /\ UNCHANGED <<localVars, ledger, commits, kitchen, broadcast, restarts>>

Created(c) ==
    /\ pc[c] = "created"
    /\ Leave(c, {})
    /\ UNCHANGED <<redisVars, kitchen, broadcast, restarts>>

-----------------------------------------------------------------------------
(* applyProposal *)

\* Mutant: the ledger is not consulted.
NeverProcessed(c) ==
    /\ pc[c] = "ledger"
    /\ GoTo(c, "read")
    /\ UNCHANGED <<localVars, redisVars, kitchen, broadcast, restarts>>

wasProcessed(c) ==
    /\ pc[c] = "ledger"
    /\ \/ /\ ledger[RequestOf[c]] # "none"
          /\ Leave(c, {"duplicate"})
       \/ /\ ledger[RequestOf[c]] = "none"
          /\ GoTo(c, "read")
          /\ UNCHANGED localVars
    /\ UNCHANGED <<redisVars, kitchen, broadcast, restarts>>

\* Mutant: no confirmation lock.
ApplyReadUnlocked(c) ==
    LET current == IF store[CartOf[c]] = None THEN emptyCart(None, None) ELSE store[CartOf[c]] IN
    /\ pc[c] = "read" /\ Kind[c] = "apply"
    /\ cart' = [cart EXCEPT ![c] = current]
    /\ GoTo(c, "op")
    /\ opNo' = [opNo EXCEPT ![c] = 1]
    /\ UNCHANGED <<refused, redisVars, kitchen, broadcast, restarts>>

\* carts.get, or an empty cart without identity when none was ever created; a
\* confirmed cart refuses the whole batch.
ApplyRead(c) ==
    LET current == IF store[CartOf[c]] = None THEN emptyCart(None, None) ELSE store[CartOf[c]] IN
    /\ pc[c] = "read" /\ Kind[c] = "apply"
    /\ cart' = [cart EXCEPT ![c] = current]
    /\ \/ /\ current.confirmed
          /\ GoTo(c, "mark")
          /\ refused' = [refused EXCEPT ![c] = AllOps(c)]
          /\ UNCHANGED opNo
       \/ /\ ~current.confirmed
          /\ GoTo(c, "op")
          /\ opNo' = [opNo EXCEPT ![c] = 1]
          /\ UNCHANGED refused
    /\ UNCHANGED <<redisVars, kitchen, broadcast, restarts>>

\* One turn of the batch loop; `offered` is what the menu lookups answer.
ApplyOp(c, offered) ==
    LET i == opNo[c]
        op == Batch(c)[i]
        accepted == Accepts(cart[c].items, op, offered)
        edited == [cart[c] EXCEPT !.items = applyOperation(@, op, <<c, i>>)]
        anyApplied == accepted \/ refused[c] # 1..(i - 1)
    IN
    /\ pc[c] = "op"
    /\ refused' = [refused EXCEPT ![c] = IF accepted THEN @ ELSE @ \cup {i}]
    /\ \/ /\ i < Len(Batch(c))
          /\ cart' = [cart EXCEPT ![c] = IF accepted THEN edited ELSE @]
          /\ opNo' = [opNo EXCEPT ![c] = i + 1]
          /\ GoTo(c, "op")
       \/ /\ i = Len(Batch(c)) /\ anyApplied
          /\ LET done == IF accepted THEN edited ELSE cart[c]
             IN  cart' = [cart EXCEPT ![c] = [done EXCEPT !.version = @ + 1]]
          /\ GoTo(c, "quote")
          /\ UNCHANGED opNo
       \/ /\ i = Len(Batch(c)) /\ ~anyApplied
          /\ GoTo(c, "mark")
          /\ UNCHANGED <<cart, opNo>>
    /\ UNCHANGED <<redisVars, kitchen, broadcast, restarts>>

\* quoteCart fills in the totals, best effort: a failure is caught and the
\* local totals stay.  Either way the call goes on to the commit.
Quote(c) ==
    /\ pc[c] = "quote"
    /\ GoTo(c, "commit")
    /\ UNCHANGED <<localVars, redisVars, kitchen, broadcast, restarts>>

commitApplied(c) ==
    /\ pc[c] = "commit"
    /\ Persist(c)
    /\ ledger' = [ledger EXCEPT ![RequestOf[c]] = "applied"]
    /\ commits' = [commits EXCEPT ![RequestOf[c]] = @ + 1]
    /\ GoTo(c, "committed")
    /\ UNCHANGED <<localVars, kitchen, broadcast, restarts>>

\* cart.updated once, then cart.operation_rejected for every refused operation,
\* in the turn in which the reply arrives and still under the lock.
Committed(c) ==
    /\ pc[c] = "committed"
    /\ broadcast' = [broadcast EXCEPT ![CartOf[c]] = cart[c].version]
    /\ Leave(c, {"updated"} \cup (IF refused[c] = {} THEN {} ELSE {"rejected"}))
    /\ UNCHANGED <<redisVars, kitchen, restarts>>

markProcessed(c) ==
    /\ pc[c] = "mark"
    /\ ledger' = [ledger EXCEPT ![RequestOf[c]] = "rejected"]
    /\ GoTo(c, "marked")
    /\ UNCHANGED <<localVars, store, deviceIndex, tableIndex, commits, kitchen, broadcast, restarts>>

Marked(c) ==
    /\ pc[c] = "marked"
    /\ Leave(c, {"rejected"})
    /\ UNCHANGED <<redisVars, kitchen, broadcast, restarts>>

-----------------------------------------------------------------------------
(* confirm *)

ConfirmRead(c) ==
    LET current == store[CartOf[c]] IN
    /\ pc[c] = "read" /\ Kind[c] = "confirm"
    /\ \/ /\ current = None
          /\ Leave(c, {"not_found"})
       \/ /\ current # None /\ current.confirmed
          /\ Leave(c, {"order"})
       \/ /\ current # None /\ ~current.confirmed
          /\ GoTo(c, "insert")
          /\ cart' = [cart EXCEPT ![c] = current]
          /\ UNCHANGED <<opNo, refused>>
    /\ UNCHANGED <<redisVars, kitchen, broadcast, restarts>>

\* Odoo's insert, external: appends the lines it has not seen, by their uuid
\* {cart_id}:{line_id}, and never changes or removes one it has.
confirmOrder(c) ==
    /\ pc[c] = "insert"
    /\ kitchen' = [kitchen EXCEPT ![CartOf[c]] =
                      @ \cup {l \in cart[c].items : ~HasLine(@, l.id)}]
    /\ GoTo(c, "inserted")
    /\ UNCHANGED <<localVars, redisVars, broadcast, restarts>>

\* Mutant: the order is reported before the cart is stamped.
InsertedIsDone(c) ==
    /\ pc[c] = "inserted"
    /\ Leave(c, {"order"})
    /\ UNCHANGED <<redisVars, kitchen, broadcast, restarts>>

Inserted(c) ==
    /\ pc[c] = "inserted"
    /\ cart' = [cart EXCEPT ![c].confirmed = TRUE]
    /\ GoTo(c, "stamp")
    /\ UNCHANGED <<opNo, refused, redisVars, kitchen, broadcast, restarts>>

\* carts.set: the blob alone.
Stamp(c) ==
    /\ pc[c] = "stamp"
    /\ store' = [store EXCEPT ![CartOf[c]] = cart[c]]
    /\ GoTo(c, "stamped")
    /\ UNCHANGED <<localVars, ledger, deviceIndex, tableIndex, commits, kitchen, broadcast, restarts>>

Stamped(c) ==
    /\ pc[c] = "stamped"
    /\ Leave(c, {"order"})
    /\ UNCHANGED <<redisVars, kitchen, broadcast, restarts>>

-----------------------------------------------------------------------------
\* The process restarts: the lock, the calls in it and their locals are gone;
\* Redis and Odoo keep what they have.
Restart ==
    /\ restarts < MaxRestarts
    /\ restarts' = restarts + 1
    /\ Lock!Restart
    /\ pc' = [c \in Call |-> "idle"]
    /\ cart' = [c \in Call |-> None]
    /\ opNo' = [c \in Call |-> 0]
    /\ refused' = [c \in Call |-> {}]
    /\ answers' = [c \in Call |-> IF Lock!Present(c) THEN {"lost"} ELSE answers[c]]
    /\ UNCHANGED <<redisVars, kitchen, broadcast>>

\* What the process does for a call once it was made.
Work(c) ==
    \/ Enter(c) \/ Throw(c)
    \/ EnsureRead(c) \/ commitCreated(c) \/ Created(c)
    \/ wasProcessed(c) \/ ApplyRead(c) \/ (\E offered \in BOOLEAN : ApplyOp(c, offered))
    \/ Quote(c) \/ commitApplied(c) \/ Committed(c)
    \/ markProcessed(c) \/ Marked(c)
    \/ ConfirmRead(c) \/ confirmOrder(c) \/ Inserted(c) \/ Stamp(c) \/ Stamped(c)

Next == Restart \/ \E c \in Call : Arrive(c) \/ Work(c)

\* Every await ends: ioredis gives up after its retries, fetch after 10 s, and
\* the event loop runs what is ready.
Fairness == \A c \in Call : WF_vars(Work(c))

Spec == Init /\ [][Next]_vars /\ Fairness

-----------------------------------------------------------------------------
(* Safety *)

\* The requests about cart k.
RequestsOf(k) == {RequestOf[c] : c \in {d \in Call : Kind[d] = "apply" /\ CartOf[d] = k}}

(* A request is applied at most once, and the ledger says "applied" exactly
   when it was, whatever was replayed, failed or restarted in between: the
   reason the cart and the mark are written by one script. *)
LedgerExact == \A r \in Request : commits[r] = IF ledger[r] = "applied" THEN 1 ELSE 0

(* No update is lost: the version of a cart counts the requests applied to
   it, so no commit overwrote one it had not read. *)
NoLostUpdate ==
    \A k \in CartId :
        Cardinality({r \in RequestsOf(k) : ledger[r] = "applied"})
            = IF store[k] = None THEN 0 ELSE store[k].version

(* Confirmed_at is the confirmation lock: the stored cart never changes again. *)
ConfirmedFrozen ==
    [][\A k \in CartId : store[k] # None /\ store[k].confirmed => store'[k] = store[k]]_vars

(* Identity is set once: neither a second device that joins, nor a reconnect,
   nor a commit of lines changes who created a cart and at which table. *)
IdentityFixed ==
    [][\A k \in CartId : store[k] # None =>
           store'[k].device = store[k].device /\ store'[k].table = store[k].table]_vars

(* What is stored stays stored: identity for good, and everything once the
   cart is confirmed. *)
StoredCartKept == ConfirmedFrozen /\ IdentityFixed

(* The indexes list exactly the stored carts, each under its own device and
   table: reports by device miss none and show none twice. *)
IndexExact ==
    /\ \A d \in Device : deviceIndex[d] = {k \in CartId : store[k] # None /\ store[k].device = d}
    /\ \A t \in Table : tableIndex[t] = {k \in CartId : store[k] # None /\ store[k].table = t}

(* cart.updated goes out after the cart is stored, with the stored version,
   and in the order of the versions: the tablets' version guard never drops
   an update that is news. *)
BroadcastInOrder ==
    [][\A k \in CartId : broadcast'[k] # broadcast[k] =>
           broadcast[k] < broadcast'[k] /\ broadcast'[k] = store[k].version]_vars

(* A cart goes without a device only when an ensureCart of it failed, aloud in
   the log, or died with the process: no interleaving of joining devices and
   proposals creates one. *)
NamelessOnlyAfterFailure ==
    \A k \in CartId : store[k] # None /\ store[k].device = None =>
        \E c \in Call : Kind[c] = "ensure" /\ CartOf[c] = k /\ answers[c] \in {{"logged"}, {"lost"}}

(* What a caller heard is what happened to the cart, and nothing goes wrong in
   silence: a proposal that left the lock had an answer, and a cart without
   identity has a failure behind it. *)
HonestAnswers ==
    /\ NamelessOnlyAfterFailure
    /\ \A c \in Call :
        /\ "updated" \in answers[c] => ledger[RequestOf[c]] = "applied"
        /\ answers[c] = {"rejected"} => ledger[RequestOf[c]] = "rejected"
        /\ "order" \in answers[c] => store[CartOf[c]] # None /\ store[CartOf[c]].confirmed
        /\ Kind[c] = "apply" /\ phase[c] = "left" => answers[c] # {}

(* The kitchen has every line of a confirmed cart. *)
KitchenHasOrder ==
    \A k \in CartId : store[k] # None /\ store[k].confirmed =>
        \A l \in store[k].items : HasLine(kitchen[k], l.id)

Atomic == INSTANCE AtomicCart WITH cart <- store, handled <- ledger

(* The awaits, the lock and the failures implement one atomic step per
   request, on the current cart. *)
ImplementsAtomicCart == Atomic!Spec

-----------------------------------------------------------------------------
(* What the comments say and the code does not do *)

(* "Only CartController.ensureCart creates a persisted cart, and it always
   stamps one [device]" (src/cart/cart-types.ts). *)
EveryCartIdentified == \A k \in CartId : store[k] # None => store[k].device # None

(* "Unexpected/infra failure [...] Nothing was persisted [...] and the
   request was NOT marked processed" (applyProposal's catch). *)
ErrorMeansNothingPersisted ==
    \A c \in Call : answers[c] = {"internal_error"} => commits[RequestOf[c]] = 0

(* "The order is at the kitchen, so nothing may change it": the kitchen makes
   what the confirmed cart shows, even if the first confirm failed halfway. *)
KitchenMakesTheCart ==
    \A k \in CartId : store[k] # None /\ store[k].confirmed => kitchen[k] = store[k].items
=============================================================================
