------------------------------ MODULE CartProofs ------------------------------
(***************************************************************************)
(* The Cart Module is safe for any carts, calls, requests and devices:     *)
(* types, the exactly-once ledger, the confirmation lock, the identity of  *)
(* a cart, its version, what the tablets, the kitchen and the callers are  *)
(* told; and it implements the cart that applies a request in one step.    *)
(*                                                                         *)
(* The argument: of two calls in the lock of a cart one is ahead of the    *)
(* other (Lock!Ordered), so at most one is between two awaits.  What such  *)
(* a call read is therefore still true when it writes (CallInv): its local *)
(* cart is the stored one plus its own batch, and its request is unmarked. *)
(* CartsInv adds what it wrote, which no other call of the cart has        *)
(* touched since; AnswersInv what the calls that left have said, which     *)
(* stays true because marks and confirmations are never taken back.        *)
(***************************************************************************)
EXTENDS CartController, FiniteSetTheorems, TLAPS

\* The cart a call reads at "read".
Current(k) == IF store[k] = None THEN emptyCart(None, None) ELSE store[k]

ApplyAwait == {"ledger", "op", "quote", "commit", "committed", "mark", "marked"}
EnsureAwait == {"create", "created"}
ConfirmAwait == {"insert", "inserted", "stamp", "stamped"}

\* new is old with lines of its own, `bump` versions later.
SameCart(old, new, bump) ==
    /\ new.version = old.version + bump
    /\ new.device = old.device /\ new.table = old.table
    /\ ~old.confirmed /\ ~new.confirmed

CallInv(c) ==
    /\ pc[c] # "idle" <=> phase[c] = "running"
    /\ pc[c] \in ApplyAwait => Kind[c] = "apply"
    /\ pc[c] \in EnsureAwait => Kind[c] = "ensure"
    /\ pc[c] \in ConfirmAwait => Kind[c] = "confirm"
    /\ pc[c] \in {"op", "quote", "commit", "committed", "create", "insert", "inserted", "stamp"}
           => cart[c] \in Cart
    /\ pc[c] = "op" => opNo[c] \in 1..Len(Batch(c))
    /\ Kind[c] = "apply" /\ pc[c] \in {"read", "op", "quote", "commit", "mark"}
           => ledger[RequestOf[c]] = "none"
    /\ pc[c] = "op" => SameCart(Current(CartOf[c]), cart[c], 0)
    /\ pc[c] \in {"quote", "commit"} => SameCart(Current(CartOf[c]), cart[c], 1)
    /\ pc[c] = "create" => store[CartOf[c]] = None
    /\ pc[c] \in {"insert", "inserted"} => store[CartOf[c]] = cart[c] /\ ~cart[c].confirmed
    /\ pc[c] = "stamp" => /\ store[CartOf[c]] \in Cart /\ ~store[CartOf[c]].confirmed
                          /\ cart[c] = [store[CartOf[c]] EXCEPT !.confirmed = TRUE]

IInv == TypeOK /\ Lock!Ordered /\ LedgerExact /\ \A c \in Call : CallInv(c)

-----------------------------------------------------------------------------
(* Lemmas about carts and operations. *)

LEMMA EmptyCartType ==
    ASSUME NEW d \in Device \cup {None}, NEW t \in Table \cup {None}
    PROVE  emptyCart(d, t) \in Cart
  BY DEF emptyCart, Cart

(* An operation makes lines of lines. *)
LEMMA OperationType ==
    ASSUME NEW items \in SUBSET Line, NEW op \in Operation, NEW id \in LineId
    PROVE  applyOperation(items, op, id) \in SUBSET Line
<1> DEFINE setQty(l) == [l EXCEPT !.qty = op.qty]
           addMods(l) == [l EXCEPT !.mods = @ \cup op.mods]
           dropMods(l) == [l EXCEPT !.mods = @ \ op.mods]
<1>1. op.qty \in Nat /\ op.mods \in SUBSET Modifier /\ op.action \in Action
  BY DEF Operation
<1>2. \A l \in Line : setQty(l) \in Line /\ addMods(l) \in Line /\ dropMods(l) \in Line
  BY <1>1 DEF Line
<1>3. items \cup {[id |-> id, qty |-> op.qty, mods |-> op.mods]} \in SUBSET Line
  BY <1>1 DEF Line
<1>4. {l \in items : l.id # op.line} \in SUBSET Line
  OBVIOUS
<1>5. /\ Edit(items, op.line, setQty) \in SUBSET Line
      /\ Edit(items, op.line, addMods) \in SUBSET Line
      /\ Edit(items, op.line, dropMods) \in SUBSET Line
  <2> HIDE DEF setQty, addMods, dropMods
  <2> QED
    BY <1>2 DEF Edit
<1> QED
  BY <1>1, <1>3, <1>4, <1>5 DEF applyOperation, Action

LEMMA CurrentType == ASSUME TypeOK, NEW k \in CartId PROVE Current(k) \in Cart
  BY EmptyCartType DEF TypeOK, Current

(* Two calls of one cart are never between two awaits at once. *)
LEMMA OneAtATime ==
    ASSUME IInv, NEW c \in Call, NEW d \in Call, CartOf[c] = CartOf[d],
           pc[c] # "idle", pc[d] # "idle"
    PROVE  c = d
  BY DEF IInv, CallInv, Lock!Ordered, Lock!Present

(* A step of c that keeps to c's cart, and to c's request if it has one,
   disturbs nothing another call relies on. *)
LEMMA OthersKeep ==
    ASSUME IInv, NEW c \in Call, pc[c] # "idle", NEW d \in Call, d # c,
           pc'[d] = pc[d], phase'[d] = phase[d], cart'[d] = cart[d], opNo'[d] = opNo[d],
           \A k \in CartId : k # CartOf[c] => store'[k] = store[k],
           \A r \in Request : ledger'[r] = ledger[r] \/ (Kind[c] = "apply" /\ r = RequestOf[c])
    PROVE  CallInv(d)'
<1> USE CallAssumption
<1>1. CallInv(d)
  BY DEF IInv
<1>2. CASE pc[d] = "idle"
  BY <1>1, <1>2 DEF CallInv, ApplyAwait, EnsureAwait, ConfirmAwait
<1>3. CASE pc[d] # "idle"
  <2>1. CartOf[d] # CartOf[c]
    BY <1>3, OneAtATime
  <2>2. store'[CartOf[d]] = store[CartOf[d]]
    BY <2>1
  <2>3. Kind[d] = "apply" => ledger'[RequestOf[d]] = ledger[RequestOf[d]]
    BY <2>1, RequestAssumption
  <2>4. Current(CartOf[d])' = Current(CartOf[d])
    BY <2>2 DEF Current
  <2> QED
    BY <1>1, <2>2, <2>3, <2>4 DEF CallInv, Batch
<1> QED
  BY <1>2, <1>3

-----------------------------------------------------------------------------
(* The lock: every step of FifoMutex keeps its order, which is its exclusion. *)

LEMMA LockArrive ==
    ASSUME Lock!TypeOK, Lock!Ordered, NEW c \in Call, Lock!Queue(c)
    PROVE  Lock!TypeOK' /\ Lock!Ordered'
  BY DEF Lock!TypeOK, Lock!Phase, Lock!Ordered, Lock!Present, Lock!Queue

LEMMA LockEnter ==
    ASSUME Lock!TypeOK, Lock!Ordered, NEW c \in Call, Lock!Enter(c)
    PROVE  Lock!TypeOK' /\ Lock!Ordered'
  BY DEF Lock!TypeOK, Lock!Phase, Lock!Ordered, Lock!Present, Lock!Enter

LEMMA LockLeave ==
    ASSUME Lock!TypeOK, Lock!Ordered, NEW c \in Call, Lock!Leave(c)
    PROVE  Lock!TypeOK' /\ Lock!Ordered'
  BY DEF Lock!TypeOK, Lock!Phase, Lock!Ordered, Lock!Present, Lock!Leave

LEMMA LockRestart ==
    ASSUME Lock!TypeOK, Lock!Ordered, Lock!Restart
    PROVE  Lock!TypeOK' /\ Lock!Ordered'
  BY DEF Lock!TypeOK, Lock!Phase, Lock!Ordered, Lock!Present, Lock!Restart

(* KeyedAsyncLock as it is promised to the Cart Module: of two calls of a cart
   in the lock one waits for the other, so at most one of them is inside. *)
THEOREM LockExcludes == Lock!Spec => []Lock!MutualExclusion
<1>1. Lock!Init => Lock!TypeOK /\ Lock!Ordered
  BY DEF Lock!Init, Lock!TypeOK, Lock!Phase, Lock!Ordered, Lock!Present
<1>2. Lock!TypeOK /\ Lock!Ordered /\ [Lock!Next]_(Lock!vars) => Lock!TypeOK' /\ Lock!Ordered'
  <2> SUFFICES ASSUME Lock!TypeOK, Lock!Ordered, [Lock!Next]_(Lock!vars)
               PROVE  Lock!TypeOK' /\ Lock!Ordered'
    OBVIOUS
  <2>1. ASSUME NEW c \in Call, Lock!Queue(c) \/ Lock!Enter(c) \/ Lock!Leave(c)
        PROVE  Lock!TypeOK' /\ Lock!Ordered'
    BY <2>1, LockArrive, LockEnter, LockLeave
  <2>2. CASE UNCHANGED Lock!vars
    BY <2>2 DEF Lock!vars, Lock!TypeOK, Lock!Ordered, Lock!Present
  <2> QED
    BY <2>1, <2>2, LockRestart DEF Lock!Next
<1>3. Lock!Ordered => Lock!MutualExclusion
  BY DEF Lock!Ordered, Lock!MutualExclusion, Lock!Present
<1> QED
  BY <1>1, <1>2, <1>3, PTL DEF Lock!Spec

-----------------------------------------------------------------------------
(* The two ways a call goes on. *)

(* It settles: nothing it did not tell anyone is left behind. *)
LEMMA LeaveStep ==
    ASSUME IInv, NEW c \in Call, pc[c] # "idle", NEW what \in SUBSET Answer, Leave(c, what),
           UNCHANGED <<redisVars, kitchen, restarts>>, broadcast' \in [CartId -> Nat]
    PROVE  IInv'
<1>1. TypeOK'
  BY LockLeave DEF IInv, TypeOK, Leave, redisVars
<1>2. Lock!Ordered'
  BY LockLeave DEF IInv, TypeOK, Leave
<1>3. LedgerExact'
  BY DEF IInv, LedgerExact, redisVars
<1>4. CallInv(c)'
  BY DEF IInv, TypeOK, Leave, Lock!Leave, Lock!TypeOK, CallInv, ApplyAwait, EnsureAwait, ConfirmAwait
<1>5. ASSUME NEW d \in Call, d # c PROVE CallInv(d)'
  <2>1. /\ pc'[d] = pc[d] /\ phase'[d] = phase[d] /\ cart'[d] = cart[d] /\ opNo'[d] = opNo[d]
        /\ store' = store /\ ledger' = ledger
    BY <1>5 DEF IInv, TypeOK, Leave, Lock!Leave, Lock!TypeOK, redisVars
  <2> QED
    BY <1>5, <2>1, OthersKeep
<1> QED
  BY <1>1, <1>2, <1>3, <1>4, <1>5 DEF IInv

(* It goes on to the next await, having changed its own locals only, and of
   Redis only its cart and the mark of its request. *)
LEMMA GoToStep ==
    ASSUME IInv, NEW c \in Call, pc[c] # "idle", NEW next \in Await, GoTo(c, next),
           NEW newCart, cart' = [cart EXCEPT ![c] = newCart],
           NEW newOp, opNo' = [opNo EXCEPT ![c] = newOp],
           \A k \in CartId : k # CartOf[c] => store'[k] = store[k],
           \A r \in Request : ledger'[r] = ledger[r] \/ (Kind[c] = "apply" /\ r = RequestOf[c]),
           TypeOK', LedgerExact', CallInv(c)'
    PROVE  IInv'
<1>1. Lock!Ordered'
  BY DEF IInv, GoTo, lockVars, Lock!Ordered, Lock!Present
<1>2. ASSUME NEW d \in Call, d # c PROVE CallInv(d)'
  <2>1. pc'[d] = pc[d] /\ phase'[d] = phase[d] /\ cart'[d] = cart[d] /\ opNo'[d] = opNo[d]
    BY <1>2 DEF IInv, TypeOK, GoTo, lockVars
  <2> QED
    BY <1>2, <2>1, OthersKeep
<1> QED
  BY <1>1, <1>2 DEF IInv

LEMMA ArriveStep == ASSUME IInv, NEW c \in Call, Arrive(c) PROVE IInv'
<1>1. TypeOK' /\ Lock!Ordered'
  BY LockArrive DEF IInv, TypeOK, Arrive, redisVars, localVars
<1>2. LedgerExact'
  BY DEF IInv, LedgerExact, Arrive, redisVars
<1>3. ASSUME NEW d \in Call PROVE CallInv(d)'
  <2>1. CallInv(d) /\ UNCHANGED <<pc, cart, opNo, store, ledger>>
    BY DEF IInv, Arrive, localVars, redisVars
  <2>2. phase'[d] = "running" <=> phase[d] = "running"
    BY DEF IInv, TypeOK, Arrive, Lock!Queue, Lock!TypeOK
  <2> QED
    BY <2>1, <2>2 DEF CallInv, Current, Batch
<1> QED
  BY <1>1, <1>2, <1>3 DEF IInv

LEMMA EnterStep == ASSUME IInv, NEW c \in Call, Enter(c) PROVE IInv'
<1>1. TypeOK' /\ Lock!Ordered'
  BY LockEnter DEF IInv, TypeOK, Enter, redisVars, localVars, Await
<1>2. LedgerExact'
  BY DEF IInv, LedgerExact, Enter, redisVars
<1>3. ASSUME NEW d \in Call PROVE CallInv(d)'
  <2>1. CallInv(d) /\ UNCHANGED <<cart, opNo, store, ledger>>
    BY DEF IInv, Enter, localVars, redisVars
  <2>2. CASE d = c
    <3>1. phase'[c] = "running" /\ pc'[c] = IF Kind[c] = "apply" THEN "ledger" ELSE "read"
      BY DEF IInv, TypeOK, Enter, Lock!Enter, Lock!TypeOK
    <3> QED
      BY <2>1, <2>2, <3>1 DEF CallInv, ApplyAwait, EnsureAwait, ConfirmAwait
  <2>3. CASE d # c
    <3>1. phase'[d] = phase[d] /\ pc'[d] = pc[d]
      BY <2>3 DEF IInv, TypeOK, Enter, Lock!Enter, Lock!TypeOK
    <3> QED
      BY <2>1, <3>1 DEF CallInv, Current, Batch
  <2> QED
    BY <2>2, <2>3
<1> QED
  BY <1>1, <1>2, <1>3 DEF IInv

LEMMA RestartStep == ASSUME IInv, Restart PROVE IInv'
<1>1. TypeOK' /\ Lock!Ordered'
  BY LockRestart, RestartAssumption DEF IInv, TypeOK, Restart, redisVars, Answer
<1>2. LedgerExact'
  BY DEF IInv, LedgerExact, Restart, redisVars
<1>3. ASSUME NEW d \in Call PROVE CallInv(d)'
  BY DEF IInv, TypeOK, Restart, Lock!Restart, Lock!Present, CallInv,
         ApplyAwait, EnsureAwait, ConfirmAwait
<1> QED
  BY <1>1, <1>2, <1>3 DEF IInv

-----------------------------------------------------------------------------
(* ensureCart *)

LEMMA ThrowStep == ASSUME IInv, NEW c \in Call, Throw(c) PROVE IInv'
<1>1. Failure(c) \in SUBSET Answer
  BY CallAssumption DEF Failure, Answer
<1>2. pc[c] # "idle"
  BY DEF Throw, Await
<1>3. broadcast' \in [CartId -> Nat]
  BY DEF IInv, TypeOK, Throw
<1> QED
  BY <1>1, <1>2, <1>3, LeaveStep DEF Throw

LEMMA EnsureReadStep == ASSUME IInv, NEW c \in Call, EnsureRead(c) PROVE IInv'
<1> USE CallAssumption
<1>1. pc[c] = "read" /\ Kind[c] = "ensure" /\ UNCHANGED <<redisVars, kitchen, broadcast, restarts>>
  BY DEF EnsureRead
<1>2. CASE Leave(c, {})
  BY <1>1, <1>2, LeaveStep DEF IInv, TypeOK
<1>3. CASE /\ store[CartOf[c]] = None
           /\ GoTo(c, "create")
           /\ cart' = [cart EXCEPT ![c] = emptyCart(DeviceOf[c], TableOf[c])]
           /\ UNCHANGED <<opNo, refused>>
  <2>1. emptyCart(DeviceOf[c], TableOf[c]) \in Cart
    BY EmptyCartType
  <2>2. TypeOK'
    BY <1>1, <1>3, <2>1 DEF IInv, TypeOK, GoTo, lockVars, redisVars, Await, Lock!TypeOK
  <2>3. LedgerExact'
    BY <1>1 DEF IInv, LedgerExact, redisVars
  <2>4. CallInv(c)'
    BY <1>1, <1>3, <2>1 DEF IInv, TypeOK, GoTo, lockVars, redisVars, CallInv,
                            ApplyAwait, EnsureAwait, ConfirmAwait
  <2>5. opNo' = [opNo EXCEPT ![c] = opNo[c]]
    BY <1>3 DEF IInv, TypeOK
  <2> QED
    BY <1>1, <1>3, <2>2, <2>3, <2>4, <2>5, GoToStep DEF redisVars, Await
<1> QED
  BY <1>2, <1>3 DEF EnsureRead

LEMMA PersistType ==
    ASSUME TypeOK, NEW c \in Call, cart[c] \in Cart, Persist(c)
    PROVE  /\ store' \in [CartId -> Cart \cup {None}]
           /\ store'[CartOf[c]] = cart[c]
           /\ \A k \in CartId : k # CartOf[c] => store'[k] = store[k]
           /\ deviceIndex' \in [Device -> SUBSET CartId]
           /\ tableIndex' \in [Table -> SUBSET CartId]
  BY CallAssumption DEF TypeOK, Persist

LEMMA CommitCreatedStep == ASSUME IInv, NEW c \in Call, commitCreated(c) PROVE IInv'
<1>1. /\ pc[c] = "create" /\ cart[c] \in Cart /\ Kind[c] = "ensure"
      /\ Persist(c) /\ GoTo(c, "created")
      /\ UNCHANGED <<localVars, ledger, commits, kitchen, broadcast, restarts>>
  BY DEF IInv, CallInv, commitCreated, EnsureAwait
<1>2. TypeOK'
  BY <1>1, PersistType DEF IInv, TypeOK, GoTo, lockVars, localVars, Await, Lock!TypeOK
<1>3. LedgerExact'
  BY <1>1 DEF IInv, LedgerExact
<1>4. CallInv(c)'
  BY <1>1 DEF IInv, TypeOK, GoTo, lockVars, localVars, CallInv, ApplyAwait, EnsureAwait, ConfirmAwait
<1>5. cart' = [cart EXCEPT ![c] = cart[c]] /\ opNo' = [opNo EXCEPT ![c] = opNo[c]]
  BY <1>1 DEF IInv, TypeOK, localVars
<1> QED
  BY <1>1, <1>2, <1>3, <1>4, <1>5, PersistType, GoToStep DEF Await, IInv

LEMMA CreatedStep == ASSUME IInv, NEW c \in Call, Created(c) PROVE IInv'
  BY LeaveStep DEF Created, IInv, TypeOK

-----------------------------------------------------------------------------
(* applyProposal *)

LEMMA WasProcessedStep == ASSUME IInv, NEW c \in Call, wasProcessed(c) PROVE IInv'
<1> USE CallAssumption
<1>1. /\ pc[c] = "ledger" /\ Kind[c] = "apply"
      /\ UNCHANGED <<redisVars, kitchen, broadcast, restarts>>
  BY DEF wasProcessed, IInv, CallInv, ApplyAwait
<1>2. CASE Leave(c, {"duplicate"})
  BY <1>1, <1>2, LeaveStep DEF IInv, TypeOK, Answer
<1>3. CASE ledger[RequestOf[c]] = "none" /\ GoTo(c, "read") /\ UNCHANGED localVars
  <2>1. TypeOK'
    BY <1>1, <1>3 DEF IInv, TypeOK, GoTo, lockVars, localVars, redisVars, Await, Lock!TypeOK
  <2>2. LedgerExact'
    BY <1>1 DEF IInv, LedgerExact, redisVars
  <2>3. CallInv(c)'
    BY <1>1, <1>3 DEF IInv, TypeOK, GoTo, lockVars, localVars, redisVars, CallInv,
                      ApplyAwait, EnsureAwait, ConfirmAwait
  <2>4. cart' = [cart EXCEPT ![c] = cart[c]] /\ opNo' = [opNo EXCEPT ![c] = opNo[c]]
    BY <1>3 DEF IInv, TypeOK, localVars
  <2> QED
    BY <1>1, <1>3, <2>1, <2>2, <2>3, <2>4, GoToStep DEF redisVars, Await
<1> QED
  BY <1>2, <1>3 DEF wasProcessed

LEMMA ApplyReadStep == ASSUME IInv, NEW c \in Call, ApplyRead(c) PROVE IInv'
<1> USE CallAssumption
<1> DEFINE current == Current(CartOf[c])
<1>1. /\ pc[c] = "read" /\ Kind[c] = "apply"
      /\ cart' = [cart EXCEPT ![c] = current]
      /\ UNCHANGED <<redisVars, kitchen, broadcast, restarts>>
  BY DEF ApplyRead, Current
<1>2. current \in Cart
  BY CurrentType DEF IInv
<1>3. LedgerExact' /\ ledger[RequestOf[c]] = "none"
  BY <1>1 DEF IInv, LedgerExact, redisVars, CallInv
<1>4. Batch(c) \in Seq(Operation) /\ Len(Batch(c)) \in Nat /\ Len(Batch(c)) > 0
  BY OpsAssumption DEF Batch
<1>5. CASE /\ current.confirmed
           /\ GoTo(c, "mark")
           /\ refused' = [refused EXCEPT ![c] = AllOps(c)]
           /\ UNCHANGED opNo
  <2>1. TypeOK'
    BY <1>1, <1>2, <1>4, <1>5 DEF IInv, TypeOK, GoTo, lockVars, redisVars, Await, Lock!TypeOK, AllOps
  <2>2. CallInv(c)'
    BY <1>1, <1>3, <1>5 DEF IInv, TypeOK, GoTo, lockVars, redisVars, CallInv,
                            ApplyAwait, EnsureAwait, ConfirmAwait
  <2>3. opNo' = [opNo EXCEPT ![c] = opNo[c]]
    BY <1>5 DEF IInv, TypeOK
  <2> QED
    BY <1>1, <1>3, <1>5, <2>1, <2>2, <2>3, GoToStep DEF redisVars, Await
<1>6. CASE /\ ~current.confirmed
           /\ GoTo(c, "op")
           /\ opNo' = [opNo EXCEPT ![c] = 1]
           /\ UNCHANGED refused
  <2>1. TypeOK'
    BY <1>1, <1>2, <1>6 DEF IInv, TypeOK, GoTo, lockVars, redisVars, Await, Lock!TypeOK
  <2>2. SameCart(current, current, 0)
    BY <1>2, <1>6 DEF SameCart, Cart
  <2>3. current' = current /\ cart'[c] = current /\ opNo'[c] = 1 /\ pc'[c] = "op"
    BY <1>1, <1>6 DEF IInv, TypeOK, GoTo, redisVars, Current
  <2>4. CallInv(c)'
    <3> HIDE DEF current
    <3> QED
      BY <1>1, <1>2, <1>3, <1>4, <1>6, <2>2, <2>3
         DEF IInv, GoTo, lockVars, redisVars, CallInv, ApplyAwait, EnsureAwait, ConfirmAwait, Batch, current
  <2> QED
    BY <1>1, <1>3, <1>6, <2>1, <2>4, GoToStep DEF redisVars, Await
<1> QED
  BY <1>5, <1>6 DEF ApplyRead, Current

LEMMA ApplyOpStep ==
    ASSUME IInv, NEW c \in Call, NEW offered \in BOOLEAN, ApplyOp(c, offered)
    PROVE  IInv'
<1> USE CallAssumption
<1> DEFINE i == opNo[c]
           op == Batch(c)[i]
           accepted == Accepts(cart[c].items, op, offered)
           edited == [cart[c] EXCEPT !.items = applyOperation(@, op, <<c, i>>)]
           base == IF accepted THEN edited ELSE cart[c]
           current == Current(CartOf[c])
<1>1. /\ pc[c] = "op" /\ Kind[c] = "apply" /\ cart[c] \in Cart
      /\ i \in 1..Len(Batch(c)) /\ ledger[RequestOf[c]] = "none"
      /\ SameCart(current, cart[c], 0)
      /\ UNCHANGED <<redisVars, kitchen, broadcast, restarts>>
  BY DEF IInv, CallInv, ApplyOp, ApplyAwait
<1>2. Batch(c) \in Seq(Operation) /\ Len(Batch(c)) \in Nat /\ i \in Nat
  BY <1>1, OpsAssumption DEF Batch
<1>3. op \in Operation
  BY <1>1, <1>2
<1>4. applyOperation(cart[c].items, op, <<c, i>>) \in SUBSET Line
  <2> HIDE DEF op, i
  <2>1. cart[c].items \in SUBSET Line /\ <<c, i>> \in LineId
    BY <1>1, <1>2 DEF Cart, LineId
  <2> QED
    BY <1>3, <2>1, OperationType
<1> HIDE DEF op, accepted, i
<1>5. base \in Cart /\ SameCart(current, base, 0)
  <2> HIDE DEF current
  <2>1. edited \in Cart
    BY <1>1, <1>4 DEF Cart
  <2>2. SameCart(current, edited, 0)
    BY <1>1 DEF SameCart, Cart
  <2> QED
    BY <1>1, <2>1, <2>2
<1>6. LedgerExact' /\ current' = current
  BY <1>1 DEF IInv, LedgerExact, redisVars, Current
<1>7. refused' = [refused EXCEPT ![c] = IF accepted THEN @ ELSE @ \cup {i}]
  BY DEF ApplyOp, i, accepted, op
<1> HIDE DEF base
<1>8. CASE /\ i < Len(Batch(c))
           /\ cart' = [cart EXCEPT ![c] = base]
           /\ opNo' = [opNo EXCEPT ![c] = i + 1]
           /\ GoTo(c, "op")
  <2>1. TypeOK'
    BY <1>1, <1>2, <1>5, <1>7, <1>8
       DEF IInv, TypeOK, GoTo, lockVars, redisVars, Await, Lock!TypeOK
  <2>2. cart'[c] = base /\ opNo'[c] = i + 1 /\ pc'[c] = "op"
    BY <1>8 DEF IInv, TypeOK, GoTo
  <2>3. CallInv(c)'
    <3> HIDE DEF current
    <3> QED
      BY <1>1, <1>2, <1>5, <1>6, <1>8, <2>2
         DEF IInv, GoTo, lockVars, redisVars, CallInv, ApplyAwait, EnsureAwait, ConfirmAwait, Batch, current
  <2> QED
    BY <1>1, <1>6, <1>8, <2>1, <2>3, GoToStep DEF redisVars, Await
<1>9. CASE /\ cart' = [cart EXCEPT ![c] = [base EXCEPT !.version = @ + 1]]
           /\ GoTo(c, "quote")
           /\ UNCHANGED opNo
  <2>1. /\ [base EXCEPT !.version = @ + 1] \in Cart
        /\ SameCart(current, [base EXCEPT !.version = @ + 1], 1)
    <3> HIDE DEF current
    <3>1. current \in Cart
      BY CurrentType DEF IInv, current
    <3> QED
      BY <1>5, <3>1 DEF SameCart, Cart
  <2>2. TypeOK'
    BY <1>1, <1>2, <1>7, <1>9, <2>1
       DEF IInv, TypeOK, GoTo, lockVars, redisVars, Await, Lock!TypeOK
  <2>3. cart'[c] = [base EXCEPT !.version = @ + 1] /\ pc'[c] = "quote"
    BY <1>9 DEF IInv, TypeOK, GoTo
  <2>4. CallInv(c)'
    <3> HIDE DEF current
    <3> QED
      BY <1>1, <1>6, <1>9, <2>1, <2>3
         DEF IInv, GoTo, lockVars, redisVars, CallInv, ApplyAwait, EnsureAwait, ConfirmAwait, current
  <2>5. opNo' = [opNo EXCEPT ![c] = opNo[c]]
    BY <1>9 DEF IInv, TypeOK
  <2> QED
    BY <1>1, <1>6, <1>9, <2>2, <2>4, <2>5, GoToStep DEF redisVars, Await
<1>10. CASE GoTo(c, "mark") /\ UNCHANGED <<cart, opNo>>
  <2>1. TypeOK'
    BY <1>1, <1>2, <1>7, <1>10 DEF IInv, TypeOK, GoTo, lockVars, redisVars, Await, Lock!TypeOK
  <2>2. CallInv(c)'
    BY <1>1, <1>10 DEF IInv, TypeOK, GoTo, lockVars, redisVars, CallInv,
                       ApplyAwait, EnsureAwait, ConfirmAwait
  <2>3. cart' = [cart EXCEPT ![c] = cart[c]] /\ opNo' = [opNo EXCEPT ![c] = opNo[c]]
    BY <1>10 DEF IInv, TypeOK
  <2> QED
    BY <1>1, <1>6, <1>10, <2>1, <2>2, <2>3, GoToStep DEF redisVars, Await
<1> QED
  BY <1>8, <1>9, <1>10 DEF ApplyOp, base, i, op, accepted

LEMMA QuoteStep == ASSUME IInv, NEW c \in Call, Quote(c) PROVE IInv'
<1> USE CallAssumption
<1> DEFINE current == Current(CartOf[c])
<1>1. /\ pc[c] = "quote" /\ Kind[c] = "apply" /\ cart[c] \in Cart
      /\ ledger[RequestOf[c]] = "none" /\ SameCart(current, cart[c], 1)
      /\ GoTo(c, "commit")
      /\ UNCHANGED <<localVars, redisVars, kitchen, broadcast, restarts>>
  BY DEF IInv, CallInv, Quote, ApplyAwait
<1>2. TypeOK'
  BY <1>1 DEF IInv, TypeOK, GoTo, lockVars, localVars, redisVars, Await, Lock!TypeOK
<1>3. LedgerExact' /\ current' = current
  BY <1>1 DEF IInv, LedgerExact, redisVars, Current
<1>4. cart'[c] = cart[c] /\ pc'[c] = "commit"
  BY <1>1 DEF IInv, TypeOK, GoTo, localVars
<1>5. CallInv(c)'
  <2> HIDE DEF current
  <2> QED
    BY <1>1, <1>3, <1>4
       DEF IInv, GoTo, lockVars, redisVars, CallInv, ApplyAwait, EnsureAwait, ConfirmAwait, current
<1>6. cart' = [cart EXCEPT ![c] = cart[c]] /\ opNo' = [opNo EXCEPT ![c] = opNo[c]]
  BY <1>1 DEF IInv, TypeOK, localVars
<1> QED
  BY <1>1, <1>2, <1>3, <1>5, <1>6, GoToStep DEF redisVars, Await

LEMMA CommitAppliedStep == ASSUME IInv, NEW c \in Call, commitApplied(c) PROVE IInv'
<1> USE CallAssumption
<1>1. /\ pc[c] = "commit" /\ Kind[c] = "apply" /\ cart[c] \in Cart
      /\ ledger[RequestOf[c]] = "none"
      /\ Persist(c) /\ GoTo(c, "committed")
      /\ ledger' = [ledger EXCEPT ![RequestOf[c]] = "applied"]
      /\ commits' = [commits EXCEPT ![RequestOf[c]] = @ + 1]
      /\ UNCHANGED <<localVars, kitchen, broadcast, restarts>>
  BY DEF IInv, CallInv, commitApplied, ApplyAwait
<1>2. TypeOK'
  BY <1>1, PersistType DEF IInv, TypeOK, GoTo, lockVars, localVars, Await, Lock!TypeOK
<1>3. LedgerExact'
  BY <1>1 DEF IInv, TypeOK, LedgerExact
<1>4. CallInv(c)'
  BY <1>1 DEF IInv, TypeOK, GoTo, lockVars, localVars, CallInv, ApplyAwait, EnsureAwait, ConfirmAwait
<1>5. cart' = [cart EXCEPT ![c] = cart[c]] /\ opNo' = [opNo EXCEPT ![c] = opNo[c]]
  BY <1>1 DEF IInv, TypeOK, localVars
<1>6. \A r \in Request : ledger'[r] = ledger[r] \/ (Kind[c] = "apply" /\ r = RequestOf[c])
  BY <1>1 DEF IInv, TypeOK
<1> QED
  BY <1>1, <1>2, <1>3, <1>4, <1>5, <1>6, PersistType, GoToStep DEF Await, IInv

LEMMA CommittedStep == ASSUME IInv, NEW c \in Call, Committed(c) PROVE IInv'
<1>1. pc[c] = "committed" /\ cart[c] \in Cart
  BY DEF IInv, CallInv, Committed
<1>2. broadcast' \in [CartId -> Nat]
  BY <1>1 DEF IInv, TypeOK, Committed, Cart
<1>3. {"updated"} \cup (IF refused[c] = {} THEN {} ELSE {"rejected"}) \in SUBSET Answer
  BY DEF Answer
<1> QED
  BY <1>1, <1>2, <1>3, LeaveStep DEF Committed

LEMMA MarkProcessedStep == ASSUME IInv, NEW c \in Call, markProcessed(c) PROVE IInv'
<1> USE CallAssumption
<1>1. /\ pc[c] = "mark" /\ Kind[c] = "apply" /\ ledger[RequestOf[c]] = "none"
      /\ ledger' = [ledger EXCEPT ![RequestOf[c]] = "rejected"]
      /\ GoTo(c, "marked")
      /\ UNCHANGED <<localVars, store, deviceIndex, tableIndex, commits, kitchen, broadcast, restarts>>
  BY DEF IInv, CallInv, markProcessed, ApplyAwait
<1>2. TypeOK'
  BY <1>1 DEF IInv, TypeOK, GoTo, lockVars, localVars, Await, Lock!TypeOK
<1>3. LedgerExact'
  BY <1>1 DEF IInv, TypeOK, LedgerExact
<1>4. CallInv(c)'
  BY <1>1 DEF IInv, TypeOK, GoTo, lockVars, localVars, CallInv, ApplyAwait, EnsureAwait, ConfirmAwait
<1>5. cart' = [cart EXCEPT ![c] = cart[c]] /\ opNo' = [opNo EXCEPT ![c] = opNo[c]]
  BY <1>1 DEF IInv, TypeOK, localVars
<1>6. \A r \in Request : ledger'[r] = ledger[r] \/ (Kind[c] = "apply" /\ r = RequestOf[c])
  BY <1>1 DEF IInv, TypeOK
<1> QED
  BY <1>1, <1>2, <1>3, <1>4, <1>5, <1>6, GoToStep DEF Await

LEMMA MarkedStep == ASSUME IInv, NEW c \in Call, Marked(c) PROVE IInv'
  BY LeaveStep DEF Marked, IInv, TypeOK, Answer

-----------------------------------------------------------------------------
(* confirm *)

LEMMA ConfirmReadStep == ASSUME IInv, NEW c \in Call, ConfirmRead(c) PROVE IInv'
<1> USE CallAssumption
<1>1. pc[c] = "read" /\ Kind[c] = "confirm" /\ UNCHANGED <<redisVars, kitchen, broadcast, restarts>>
  BY DEF ConfirmRead
<1>2. CASE Leave(c, {"not_found"}) \/ Leave(c, {"order"})
  BY <1>1, <1>2, LeaveStep DEF IInv, TypeOK, Answer
<1>3. CASE /\ store[CartOf[c]] # None /\ ~store[CartOf[c]].confirmed
           /\ GoTo(c, "insert")
           /\ cart' = [cart EXCEPT ![c] = store[CartOf[c]]]
           /\ UNCHANGED <<opNo, refused>>
  <2>1. store[CartOf[c]] \in Cart
    BY <1>3 DEF IInv, TypeOK
  <2>2. TypeOK'
    BY <1>1, <1>3, <2>1 DEF IInv, TypeOK, GoTo, lockVars, redisVars, Await, Lock!TypeOK
  <2>3. LedgerExact'
    BY <1>1 DEF IInv, LedgerExact, redisVars
  <2>4. CallInv(c)'
    BY <1>1, <1>3, <2>1 DEF IInv, TypeOK, GoTo, lockVars, redisVars, CallInv,
                            ApplyAwait, EnsureAwait, ConfirmAwait
  <2>5. opNo' = [opNo EXCEPT ![c] = opNo[c]]
    BY <1>3 DEF IInv, TypeOK
  <2> QED
    BY <1>1, <1>3, <2>2, <2>3, <2>4, <2>5, GoToStep DEF redisVars, Await
<1> QED
  BY <1>2, <1>3 DEF ConfirmRead

LEMMA ConfirmOrderStep == ASSUME IInv, NEW c \in Call, confirmOrder(c) PROVE IInv'
<1> USE CallAssumption
<1>1. /\ pc[c] = "insert" /\ Kind[c] = "confirm" /\ cart[c] \in Cart
      /\ GoTo(c, "inserted") /\ UNCHANGED <<localVars, redisVars, broadcast, restarts>>
  BY DEF IInv, CallInv, confirmOrder, ConfirmAwait
<1>2. kitchen' \in [CartId -> SUBSET Line]
  BY <1>1 DEF IInv, TypeOK, confirmOrder, Cart
<1>3. TypeOK'
  BY <1>1, <1>2 DEF IInv, TypeOK, GoTo, lockVars, localVars, redisVars, Await, Lock!TypeOK
<1>4. LedgerExact'
  BY <1>1 DEF IInv, LedgerExact, redisVars
<1>5. CallInv(c)'
  BY <1>1 DEF IInv, TypeOK, GoTo, lockVars, localVars, redisVars, CallInv,
              ApplyAwait, EnsureAwait, ConfirmAwait
<1>6. cart' = [cart EXCEPT ![c] = cart[c]] /\ opNo' = [opNo EXCEPT ![c] = opNo[c]]
  BY <1>1 DEF IInv, TypeOK, localVars
<1> QED
  BY <1>1, <1>3, <1>4, <1>5, <1>6, GoToStep DEF redisVars, Await

LEMMA InsertedStep == ASSUME IInv, NEW c \in Call, Inserted(c) PROVE IInv'
<1> USE CallAssumption
<1> DEFINE new == [cart[c] EXCEPT !.confirmed = TRUE]
<1>1. /\ pc[c] = "inserted" /\ Kind[c] = "confirm" /\ cart[c] \in Cart
      /\ store[CartOf[c]] = cart[c] /\ ~cart[c].confirmed
      /\ GoTo(c, "stamp") /\ cart' = [cart EXCEPT ![c] = new]
      /\ UNCHANGED <<opNo, refused, redisVars, kitchen, broadcast, restarts>>
  BY DEF IInv, CallInv, Inserted, ConfirmAwait
<1>2. new \in Cart
  BY <1>1 DEF Cart
<1>3. TypeOK'
  BY <1>1, <1>2 DEF IInv, TypeOK, GoTo, lockVars, redisVars, Await, Lock!TypeOK
<1>4. LedgerExact'
  BY <1>1 DEF IInv, LedgerExact, redisVars
<1>5. CallInv(c)'
  BY ZenonT(60), <1>1, <1>2 DEF IInv, TypeOK, GoTo, lockVars, redisVars, CallInv,
                    ApplyAwait, EnsureAwait, ConfirmAwait
<1>6. opNo' = [opNo EXCEPT ![c] = opNo[c]]
  BY <1>1 DEF IInv, TypeOK
<1> QED
  BY <1>1, <1>3, <1>4, <1>5, <1>6, GoToStep DEF redisVars, Await

LEMMA StampStep == ASSUME IInv, NEW c \in Call, Stamp(c) PROVE IInv'
<1> USE CallAssumption
<1>1. /\ pc[c] = "stamp" /\ Kind[c] = "confirm" /\ cart[c] \in Cart
      /\ store' = [store EXCEPT ![CartOf[c]] = cart[c]] /\ GoTo(c, "stamped")
      /\ UNCHANGED <<localVars, ledger, deviceIndex, tableIndex, commits, kitchen, broadcast, restarts>>
  BY DEF IInv, CallInv, Stamp, ConfirmAwait
<1>2. TypeOK'
  BY <1>1 DEF IInv, TypeOK, GoTo, lockVars, localVars, Await, Lock!TypeOK
<1>3. LedgerExact'
  BY <1>1 DEF IInv, LedgerExact
<1>4. CallInv(c)'
  BY <1>1 DEF IInv, TypeOK, GoTo, lockVars, localVars, CallInv, ApplyAwait, EnsureAwait, ConfirmAwait
<1>5. cart' = [cart EXCEPT ![c] = cart[c]] /\ opNo' = [opNo EXCEPT ![c] = opNo[c]]
  BY <1>1 DEF IInv, TypeOK, localVars
<1>6. \A k \in CartId : k # CartOf[c] => store'[k] = store[k]
  BY <1>1 DEF IInv, TypeOK
<1> QED
  BY <1>1, <1>2, <1>3, <1>4, <1>5, <1>6, GoToStep DEF Await

LEMMA StampedStep == ASSUME IInv, NEW c \in Call, Stamped(c) PROVE IInv'
  BY LeaveStep DEF Stamped, IInv, TypeOK, Answer

-----------------------------------------------------------------------------
(* The inductive invariant. *)

LEMMA WorkStep == ASSUME IInv, NEW c \in Call, Work(c) PROVE IInv'
  BY EnterStep, ThrowStep, EnsureReadStep, CommitCreatedStep, CreatedStep, WasProcessedStep,
     ApplyReadStep, ApplyOpStep, QuoteStep, CommitAppliedStep, CommittedStep, MarkProcessedStep,
     MarkedStep, ConfirmReadStep, ConfirmOrderStep, InsertedStep, StampStep, StampedStep
     DEF Work

LEMMA InitIInv == Init => IInv
<1> SUFFICES ASSUME Init PROVE IInv
  OBVIOUS
<1>1. TypeOK
  BY RestartAssumption DEF Init, TypeOK, Lock!Init, Lock!TypeOK, Lock!Phase, Await
<1>2. Lock!Ordered
  BY DEF Init, Lock!Init, Lock!Ordered, Lock!Present
<1>3. LedgerExact /\ \A c \in Call : CallInv(c)
  BY DEF Init, Lock!Init, LedgerExact, CallInv, ApplyAwait, EnsureAwait, ConfirmAwait
<1> QED
  BY <1>1, <1>2, <1>3 DEF IInv

LEMMA NextIInv == IInv /\ [Next]_vars => IInv'
<1> SUFFICES ASSUME IInv, [Next]_vars PROVE IInv'
  OBVIOUS
<1>1. CASE Restart
  BY <1>1, RestartStep
<1>2. ASSUME NEW c \in Call, Arrive(c) PROVE IInv'
  BY <1>2, ArriveStep
<1>3. ASSUME NEW c \in Call, Work(c) PROVE IInv'
  BY <1>3, WorkStep
<1>4. CASE UNCHANGED vars
  BY <1>4 DEF vars, IInv, TypeOK, Lock!TypeOK, Lock!Ordered, Lock!Present, LedgerExact,
              CallInv, Current, Batch
<1> QED
  BY <1>1, <1>2, <1>3, <1>4 DEF Next

LEMMA IInvHolds == Spec => []IInv
  BY InitIInv, NextIInv, PTL DEF Spec

(* Every variable keeps its type, whatever fails or restarts. *)
THEOREM TypeCorrect == Spec => []TypeOK
<1>1. IInv => TypeOK
  BY DEF IInv
<1> QED
  BY <1>1, IInvHolds, PTL

(* A request is applied at most once, and is marked exactly when it was. *)
THEOREM ExactlyOnce == Spec => []LedgerExact
<1>1. IInv => LedgerExact
  BY DEF IInv
<1> QED
  BY <1>1, IInvHolds, PTL

-----------------------------------------------------------------------------
(* Four actions write to Redis. *)
LEMMA RedisWriters ==
    ASSUME [Next]_vars
    PROVE  UNCHANGED redisVars \/ \E c \in Call : commitCreated(c) \/ commitApplied(c)
                                                 \/ Stamp(c) \/ markProcessed(c)
<1>1. CASE UNCHANGED vars
  BY <1>1 DEF vars, redisVars
<1>2. CASE Restart \/ \E c \in Call : Arrive(c)
  BY <1>2 DEF Restart, Arrive
<1>3. ASSUME NEW c \in Call, Work(c)
      PROVE  UNCHANGED redisVars \/ commitCreated(c) \/ commitApplied(c) \/ Stamp(c) \/ markProcessed(c)
  BY ZenonT(60), <1>3 DEF Work, Enter, Throw, EnsureRead, Created, wasProcessed, ApplyRead, ApplyOp,
     Quote, Committed, Marked, ConfirmRead, confirmOrder, Inserted, Stamped
<1> QED
  BY <1>1, <1>2, <1>3 DEF Next

(* What a step may do to a stored cart: nothing, unless it is not confirmed,
   and then it keeps its identity. *)
LEMMA StoredCartStep ==
    ASSUME IInv, [Next]_vars, NEW k \in CartId, store[k] # None
    PROVE  \/ store'[k] = store[k]
           \/ /\ ~store[k].confirmed
              /\ store'[k].device = store[k].device /\ store'[k].table = store[k].table
<1> USE CallAssumption
<1>1. CASE UNCHANGED store
  BY <1>1
<1>2. ASSUME NEW c \in Call, Persist(c) \/ Stamp(c), k # CartOf[c]
      PROVE  store'[k] = store[k]
  BY <1>2 DEF IInv, TypeOK, Persist, Stamp
<1>3. ASSUME NEW c \in Call, commitCreated(c), k = CartOf[c] PROVE FALSE
  BY <1>3 DEF IInv, CallInv, commitCreated
<1>4. ASSUME NEW c \in Call, commitApplied(c), k = CartOf[c]
      PROVE  /\ ~store[k].confirmed
             /\ store'[k].device = store[k].device /\ store'[k].table = store[k].table
  BY <1>4 DEF IInv, TypeOK, CallInv, commitApplied, Persist, SameCart, Current
<1>5. ASSUME NEW c \in Call, Stamp(c), k = CartOf[c]
      PROVE  /\ ~store[k].confirmed
             /\ store'[k].device = store[k].device /\ store'[k].table = store[k].table
  <2>1. /\ store[k] \in Cart /\ ~store[k].confirmed
        /\ store'[k] = [store[k] EXCEPT !.confirmed = TRUE]
    BY <1>5 DEF IInv, TypeOK, CallInv, Stamp
  <2> QED
    BY <2>1 DEF Cart
<1>6. CASE \E c \in Call : commitCreated(c) \/ commitApplied(c) \/ Stamp(c)
  BY <1>2, <1>3, <1>4, <1>5, <1>6 DEF commitCreated, commitApplied
<1>7. UNCHANGED store \/ \E c \in Call : commitCreated(c) \/ commitApplied(c) \/ Stamp(c)
  BY RedisWriters DEF redisVars, markProcessed
<1> QED
  BY <1>1, <1>6, <1>7

(* Once a cart is stamped as confirmed, no call changes it any more. *)
THEOREM ConfirmationLock == Spec => ConfirmedFrozen
<1>1. IInv /\ [Next]_vars =>
        [\A k \in CartId : store[k] # None /\ store[k].confirmed => store'[k] = store[k]]_vars
  BY StoredCartStep
<1> QED
  BY <1>1, IInvHolds, PTL DEF Spec, ConfirmedFrozen

(* The device and the table of a stored cart never change. *)
THEOREM IdentitySetOnce == Spec => IdentityFixed
<1>1. IInv /\ [Next]_vars =>
        [\A k \in CartId : store[k] # None =>
            store'[k].device = store[k].device /\ store'[k].table = store[k].table]_vars
  BY StoredCartStep
<1> QED
  BY <1>1, IInvHolds, PTL DEF Spec, IdentityFixed

(* Whatever the calls, the failures and the restarts, a stored cart keeps its
   identity, and keeps everything once it is confirmed. *)
THEOREM StoredCartIsKept == Spec => StoredCartKept
  BY ConfirmationLock, IdentitySetOnce DEF StoredCartKept

(* A step that stores a cart lists it under its identity, which is the one it
   already has there if it was stored before. *)
LEMMA IndexStep == ASSUME IInv, IndexExact, [Next]_vars PROVE IndexExact'
<1> USE CallAssumption
<1>1. CASE UNCHANGED <<store, deviceIndex, tableIndex>>
  BY <1>1 DEF IndexExact
<1>2. ASSUME NEW c \in Call, Persist(c), cart[c] \in Cart,
             store[CartOf[c]] # None => SameCart(store[CartOf[c]], cart[c], 1)
      PROVE  IndexExact'
  <2>1. /\ \A k \in CartId : store'[k] = IF k = CartOf[c] THEN cart[c] ELSE store[k]
        /\ cart[c] # None
    BY <1>2, NoneAssumption DEF IInv, TypeOK, Persist
  <2>2. ASSUME NEW d \in Device
        PROVE  deviceIndex'[d] = {k \in CartId : store'[k] # None /\ store'[k].device = d}
    BY <1>2, <2>1 DEF IndexExact, Persist, SameCart
  <2>3. ASSUME NEW t \in Table
        PROVE  tableIndex'[t] = {k \in CartId : store'[k] # None /\ store'[k].table = t}
    BY <1>2, <2>1 DEF IndexExact, Persist, SameCart
  <2> QED
    BY <2>2, <2>3 DEF IndexExact
<1>3. ASSUME NEW c \in Call, Stamp(c) PROVE IndexExact'
  <2>1. /\ store[CartOf[c]] \in Cart
        /\ cart[c] = [store[CartOf[c]] EXCEPT !.confirmed = TRUE]
    BY <1>3 DEF IInv, CallInv, Stamp
  <2>2. /\ cart[c] # None /\ store[CartOf[c]] # None
        /\ cart[c].device = store[CartOf[c]].device /\ cart[c].table = store[CartOf[c]].table
    BY <2>1, NoneAssumption DEF Cart
  <2>3. /\ \A k \in CartId : store'[k] = IF k = CartOf[c] THEN cart[c] ELSE store[k]
        /\ UNCHANGED <<deviceIndex, tableIndex>>
    BY <1>3 DEF IInv, TypeOK, Stamp
  <2> QED
    BY <2>2, <2>3 DEF IndexExact
<1>4. ASSUME NEW c \in Call, commitCreated(c) PROVE IndexExact'
  BY <1>2, <1>4 DEF IInv, CallInv, commitCreated
<1>5. ASSUME NEW c \in Call, commitApplied(c) PROVE IndexExact'
  BY <1>2, <1>5 DEF IInv, CallInv, commitApplied, Current
<1>6. CASE UNCHANGED redisVars
  BY <1>1, <1>6 DEF redisVars
<1>7. ASSUME NEW c \in Call, markProcessed(c) PROVE IndexExact'
  BY <1>1, <1>7 DEF markProcessed
<1> QED
  BY <1>3, <1>4, <1>5, <1>6, <1>7, RedisWriters

(* A stored cart is listed under its own device and table, and nothing else is
   listed, at every await of every call. *)
THEOREM IndexesExact == Spec => []IndexExact
<1>1. Init => IndexExact
  BY DEF Init, IndexExact
<1> QED
  BY <1>1, IndexStep, IInvHolds, PTL DEF Spec

-----------------------------------------------------------------------------
(* What a call in flight has done, beyond CallInv: the part that broadcasts, *)
(* answers, the kitchen and the atomic cart depend on.                       *)
Told(c) ==
    /\ pc[c] = "create" => cart[c] = emptyCart(DeviceOf[c], TableOf[c])
    /\ pc[c] = "created" => store[CartOf[c]] # None
    /\ pc[c] \in {"op", "quote", "commit"} =>
           Atomic!OnlyTouches(RequestOf[c], Current(CartOf[c]).items, cart[c].items)
    /\ pc[c] = "committed" =>
           /\ ledger[RequestOf[c]] = "applied"
           /\ store[CartOf[c]] = cart[c] /\ broadcast[CartOf[c]] < cart[c].version
    /\ pc[c] = "marked" => ledger[RequestOf[c]] = "rejected"
    /\ pc[c] \in {"inserted", "stamp"} => \A l \in cart[c].items : HasLine(kitchen[CartOf[c]], l.id)
    /\ pc[c] = "stamped" => store[CartOf[c]] # None /\ store[CartOf[c]].confirmed

Applied(k) == {r \in RequestsOf(k) : ledger[r] = "applied"}

Version(k) == IF store[k] = None THEN 0 ELSE store[k].version

\* A cart, what was committed to it, broadcast of it and sent to the kitchen.
Kept(k) ==
    /\ IsFiniteSet(Applied(k)) /\ Cardinality(Applied(k)) = Version(k)
    /\ broadcast[k] <= Version(k)
    /\ store[k] # None /\ store[k].confirmed => \A l \in store[k].items : HasLine(kitchen[k], l.id)

CartsInv == (\A c \in Call : Told(c)) /\ (\A k \in CartId : Kept(k))

\* A step of call c leaves alone what belongs to the other calls and carts.
OnlyOwn(c) ==
    /\ \A d \in Call \ {c} : /\ pc'[d] = pc[d] /\ cart'[d] = cart[d]
                             /\ answers'[d] = answers[d] /\ phase'[d] = phase[d]
    /\ \A k \in CartId \ {CartOf[c]} :
           store'[k] = store[k] /\ kitchen'[k] = kitchen[k] /\ broadcast'[k] = broadcast[k]
    /\ \A r \in Request : ledger'[r] = ledger[r] \/ (Kind[c] = "apply" /\ r = RequestOf[c])

-----------------------------------------------------------------------------
(* Lemmas about the lines of a cart and of the kitchen. *)

(* An operation of request r, accepted, touches no line r does not name. *)
LEMMA OperationTouches ==
    ASSUME NEW old, NEW items \in SUBSET Line, NEW c \in Call, Kind[c] = "apply",
           NEW i \in 1..Len(Batch(c)), Batch(c) \in Seq(Operation),
           Atomic!OnlyTouches(RequestOf[c], old, items)
    PROVE  Atomic!OnlyTouches(RequestOf[c], old, applyOperation(items, Batch(c)[i], <<c, i>>))
<1> DEFINE op == Batch(c)[i]
           named == {Ops[RequestOf[c]][j].line : j \in 1..Len(Ops[RequestOf[c]])}
           Fits(l) == \/ l \in old
                      \/ l.id \in named /\ HasLine(old, l.id)
                      \/ Atomic!Carries(l.id[1], RequestOf[c])
           Kept1(new) == \A l \in old : l.id \notin named => l \in new
           Kept2(new) == \A l \in new : Fits(l)
           setQty(l) == [l EXCEPT !.qty = op.qty]
           addMods(l) == [l EXCEPT !.mods = @ \cup op.mods]
           dropMods(l) == [l EXCEPT !.mods = @ \ op.mods]
           line == [id |-> <<c, i>>, qty |-> op.qty, mods |-> op.mods]
<1>1. \A new : Atomic!OnlyTouches(RequestOf[c], old, new) <=> Kept1(new) /\ Kept2(new)
  BY ZenonT(60) DEF Atomic!OnlyTouches, Atomic!HasLine, HasLine
<1>2. op \in Operation /\ op.line \in named /\ op.action \in Action
  <2>1. op \in Operation
    OBVIOUS
  <2>2. op.line \in named
    BY DEF Batch
  <2> QED
    BY <2>1, <2>2 DEF Operation
<1>3. Kept1(items) /\ Kept2(items)
  BY <1>1
<1>4. Fits(line)
  BY DEF Atomic!Carries
<1>5. Kept1(items \cup {line}) /\ Kept2(items \cup {line})
  <2> HIDE DEF Fits, line
  <2> QED
    BY <1>3, <1>4
<1>6. Kept1({l \in items : l.id # op.line}) /\ Kept2({l \in items : l.id # op.line})
  <2> HIDE DEF Fits, named
  <2> QED
    BY <1>2, <1>3
<1>7. \A l \in items : /\ setQty(l).id = l.id /\ addMods(l).id = l.id /\ dropMods(l).id = l.id
  BY DEF Line
<1>8. \A l, m \in Line \cup {setQty(n) : n \in items} \cup {addMods(n) : n \in items} \cup {dropMods(n) : n \in items} :
          l.id = op.line /\ m.id = l.id /\ Fits(l) => Fits(m)
  BY <1>2 DEF HasLine
<1> DEFINE Edited(Change(_)) == Edit(items, op.line, Change)
<1>9. Kept1(Edited(setQty)) /\ Kept2(Edited(setQty))
  <2> HIDE DEF Fits, setQty, addMods, dropMods, named
  <2> QED
    BY <1>2, <1>3, <1>7, <1>8 DEF Edit
<1>10. Kept1(Edited(addMods)) /\ Kept2(Edited(addMods))
  <2> HIDE DEF Fits, setQty, addMods, dropMods, named
  <2> QED
    BY <1>2, <1>3, <1>7, <1>8 DEF Edit
<1>11. Kept1(Edited(dropMods)) /\ Kept2(Edited(dropMods))
  <2> HIDE DEF Fits, setQty, addMods, dropMods, named
  <2> QED
    BY <1>2, <1>3, <1>7, <1>8 DEF Edit
<1>12. \/ applyOperation(items, op, <<c, i>>) = items \cup {line}
       \/ applyOperation(items, op, <<c, i>>) = {l \in items : l.id # op.line}
       \/ applyOperation(items, op, <<c, i>>) = Edited(setQty)
       \/ applyOperation(items, op, <<c, i>>) = Edited(addMods)
       \/ applyOperation(items, op, <<c, i>>) = Edited(dropMods)
  BY <1>2 DEF applyOperation, Action
<1> HIDE DEF Kept1, Kept2, Edited, line
<1> QED
  BY <1>1, <1>5, <1>6, <1>9, <1>10, <1>11, <1>12

LEMMA NothingTouched == ASSUME NEW r, NEW items PROVE Atomic!OnlyTouches(r, items, items)
  BY DEF Atomic!OnlyTouches

-----------------------------------------------------------------------------
(* Whose a step is. *)

LEMMA LeaveOwn ==
    ASSUME IInv, NEW c \in Call, NEW what, Leave(c, what)
    PROVE  /\ pc' = [pc EXCEPT ![c] = "idle"] /\ cart' = [cart EXCEPT ![c] = None]
           /\ answers' = [answers EXCEPT ![c] = what] /\ phase' = [phase EXCEPT ![c] = "left"]
  BY DEF Leave, Lock!Leave

LEMMA WorkOwn == ASSUME IInv, NEW c \in Call, Work(c) PROVE OnlyOwn(c)
<1> USE CallAssumption
<1>1. /\ \E x : pc' = [pc EXCEPT ![c] = x]
      /\ \E x : answers' = [answers EXCEPT ![c] = x]
      /\ \E x : phase' = [phase EXCEPT ![c] = x]
      /\ \E x : cart' = [cart EXCEPT ![c] = x]
  <2>1. \A x : Leave(c, x) => /\ \E y : pc' = [pc EXCEPT ![c] = y]
                              /\ \E y : answers' = [answers EXCEPT ![c] = y]
                              /\ \E y : phase' = [phase EXCEPT ![c] = y]
                              /\ \E y : cart' = [cart EXCEPT ![c] = y]
    BY DEF Leave, Lock!Leave
  <2>2. \A x : GoTo(c, x) => /\ \E y : pc' = [pc EXCEPT ![c] = y]
                             /\ \E y : answers' = [answers EXCEPT ![c] = y]
                             /\ \E y : phase' = [phase EXCEPT ![c] = y]
    <3>1. answers = [answers EXCEPT ![c] = answers[c]] /\ phase = [phase EXCEPT ![c] = phase[c]]
      BY DEF IInv, TypeOK, Lock!TypeOK
    <3> QED
      BY <3>1 DEF GoTo, lockVars
  <2>3. cart = [cart EXCEPT ![c] = cart[c]]
    BY DEF IInv, TypeOK
  <2>4. CASE Enter(c)
    <3>1. answers = [answers EXCEPT ![c] = answers[c]]
      BY DEF IInv, TypeOK
    <3> QED
      BY <2>3, <2>4, <3>1 DEF Enter, Lock!Enter, localVars
  <2>5. CASE Throw(c) \/ Created(c) \/ Committed(c) \/ Marked(c) \/ Stamped(c)
    BY <2>1, <2>5 DEF Throw, Created, Committed, Marked, Stamped
  <2>6. CASE EnsureRead(c)
    BY <2>1, <2>2, <2>3, <2>6 DEF EnsureRead
  <2>7. CASE wasProcessed(c)
    BY <2>1, <2>2, <2>3, <2>7 DEF wasProcessed, localVars
  <2>8. CASE ConfirmRead(c)
    BY <2>1, <2>2, <2>3, <2>8 DEF ConfirmRead
  <2>9. CASE ApplyRead(c)
    BY <2>2, <2>9 DEF ApplyRead
  <2>10. ASSUME NEW offered \in BOOLEAN, ApplyOp(c, offered)
         PROVE  (\E x : cart' = [cart EXCEPT ![c] = x]) /\ (\E x : GoTo(c, x))
    BY <2>3, <2>10 DEF ApplyOp
  <2>11. CASE commitCreated(c) \/ Quote(c) \/ commitApplied(c) \/ markProcessed(c) \/ confirmOrder(c) \/ Stamp(c)
    BY <2>2, <2>3, <2>11 DEF commitCreated, Quote, commitApplied, markProcessed, confirmOrder, Stamp, localVars
  <2>12. CASE Inserted(c)
    BY <2>2, <2>12 DEF Inserted
  <2> QED
    BY <2>2, <2>4, <2>5, <2>6, <2>7, <2>8, <2>9, <2>10, <2>11, <2>12 DEF Work
<1>2. \A d \in Call \ {c} : /\ pc'[d] = pc[d] /\ cart'[d] = cart[d]
                            /\ answers'[d] = answers[d] /\ phase'[d] = phase[d]
  BY <1>1 DEF IInv, TypeOK, Lock!TypeOK
<1>3. CASE UNCHANGED <<redisVars, kitchen, broadcast>>
  BY <1>2, <1>3 DEF OnlyOwn, redisVars
<1>4. CASE commitCreated(c)
  BY <1>2, <1>4 DEF commitCreated, Persist, OnlyOwn, IInv, TypeOK
<1>5. CASE commitApplied(c)
  <2>1. Kind[c] = "apply"
    BY <1>5 DEF commitApplied, IInv, CallInv, ApplyAwait
  <2> QED
    BY <1>2, <1>5, <2>1 DEF commitApplied, Persist, OnlyOwn, IInv, TypeOK
<1>6. CASE Committed(c)
  BY <1>2, <1>6 DEF Committed, OnlyOwn, IInv, TypeOK, redisVars
<1>7. CASE markProcessed(c)
  <2>1. Kind[c] = "apply"
    BY <1>7 DEF markProcessed, IInv, CallInv, ApplyAwait
  <2> QED
    BY <1>2, <1>7, <2>1 DEF markProcessed, OnlyOwn, IInv, TypeOK
<1>8. CASE confirmOrder(c)
  BY <1>2, <1>8 DEF confirmOrder, OnlyOwn, IInv, TypeOK, redisVars
<1>9. CASE Stamp(c)
  BY <1>2, <1>9 DEF Stamp, OnlyOwn, IInv, TypeOK
<1>10. \/ UNCHANGED <<redisVars, kitchen, broadcast>>
       \/ commitCreated(c) \/ commitApplied(c) \/ Committed(c) \/ markProcessed(c) \/ confirmOrder(c) \/ Stamp(c)
  BY ZenonT(60) DEF Work, Enter, Throw, EnsureRead, Created, wasProcessed, ApplyRead, ApplyOp, Quote,
     Marked, ConfirmRead, Inserted, Stamped
<1> QED
  BY <1>3, <1>4, <1>5, <1>6, <1>7, <1>8, <1>9, <1>10

(* No step of c changes what another call in flight has told. *)
LEMMA ToldOthers ==
    ASSUME IInv, NEW c \in Call, pc[c] # "idle", OnlyOwn(c), NEW d \in Call, d # c, Told(d)
    PROVE  Told(d)'
<1> USE CallAssumption
<1>1. pc'[d] = pc[d] /\ cart'[d] = cart[d]
  BY DEF OnlyOwn
<1>2. CASE pc[d] = "idle"
  BY <1>1, <1>2 DEF Told
<1>3. CASE pc[d] # "idle"
  <2>1. CartOf[d] # CartOf[c]
    BY <1>3, OneAtATime
  <2>2. /\ store'[CartOf[d]] = store[CartOf[d]] /\ kitchen'[CartOf[d]] = kitchen[CartOf[d]]
        /\ broadcast'[CartOf[d]] = broadcast[CartOf[d]]
    BY <2>1 DEF OnlyOwn
  <2>3. Kind[d] = "apply" => ledger'[RequestOf[d]] = ledger[RequestOf[d]]
    BY <2>1, RequestAssumption DEF OnlyOwn
  <2>4. pc[d] \in {"committed", "marked"} => Kind[d] = "apply"
    BY DEF IInv, CallInv, ApplyAwait
  <2>5. Current(CartOf[d])' = Current(CartOf[d])
    BY <2>2 DEF Current
  <2> QED
    BY <1>1, <2>2, <2>3, <2>4, <2>5 DEF Told
<1> QED
  BY <1>2, <1>3

(* Nor what was committed to another cart. *)
LEMMA KeptOthers ==
    ASSUME NEW c \in Call, OnlyOwn(c), NEW k \in CartId, k # CartOf[c], Kept(k)
    PROVE  Kept(k)'
<1> USE CallAssumption
<1>1. store'[k] = store[k] /\ kitchen'[k] = kitchen[k] /\ broadcast'[k] = broadcast[k]
  BY DEF OnlyOwn
<1>2. \A r \in RequestsOf(k) : ledger'[r] = ledger[r]
  BY RequestAssumption DEF OnlyOwn, RequestsOf
<1>3. Applied(k)' = Applied(k)
  BY <1>2 DEF Applied, RequestsOf
<1>4. Version(k)' = Version(k)
  BY <1>1 DEF Version
<1> QED
  BY <1>1, <1>3, <1>4 DEF Kept

LEMMA KeptUnchanged ==
    ASSUME UNCHANGED <<store, ledger, kitchen, broadcast>>, NEW k \in CartId, Kept(k)
    PROVE  Kept(k)'
  BY DEF Kept, Applied, Version, RequestsOf

LEMMA ToldUnchanged ==
    ASSUME NEW c \in Call, UNCHANGED <<store, ledger, kitchen, broadcast>>, pc'[c] = pc[c], cart'[c] = cart[c], Told(c)
    PROVE  Told(c)'
  BY DEF Told, Current

-----------------------------------------------------------------------------
(* What each action adds to it. *)

\* A step of c that is not visible outside its locals keeps every cart.
LEMMA QuietKept ==
    ASSUME CartsInv, UNCHANGED <<redisVars, kitchen, broadcast>>
    PROVE  \A k \in CartId : Kept(k)'
  BY KeptUnchanged DEF CartsInv, redisVars

LEMMA LeaveTold == ASSUME IInv, NEW c \in Call, NEW what, Leave(c, what) PROVE Told(c)'
<1>1. pc'[c] = "idle"
  BY DEF IInv, TypeOK, Leave
<1> QED
  BY <1>1 DEF Told

LEMMA EnsureReadTold == ASSUME IInv, NEW c \in Call, EnsureRead(c) PROVE Told(c)'
<1>1. CASE Leave(c, {})
  BY <1>1, LeaveTold
<1>2. CASE GoTo(c, "create") /\ cart' = [cart EXCEPT ![c] = emptyCart(DeviceOf[c], TableOf[c])]
  BY <1>2 DEF IInv, TypeOK, GoTo, Told
<1> QED
  BY <1>1, <1>2 DEF EnsureRead

LEMMA WasProcessedTold == ASSUME IInv, NEW c \in Call, wasProcessed(c) PROVE Told(c)'
<1>1. CASE Leave(c, {"duplicate"})
  BY <1>1, LeaveTold
<1>2. CASE GoTo(c, "read")
  BY <1>2 DEF IInv, TypeOK, GoTo, Told
<1> QED
  BY <1>1, <1>2 DEF wasProcessed

LEMMA ApplyReadTold == ASSUME IInv, NEW c \in Call, ApplyRead(c) PROVE Told(c)'
<1> USE CallAssumption
<1>1. cart'[c] = Current(CartOf[c]) /\ Current(CartOf[c])' = Current(CartOf[c])
  BY DEF IInv, TypeOK, ApplyRead, Current, redisVars
<1>2. pc'[c] \in {"mark", "op"}
  BY DEF IInv, TypeOK, ApplyRead, GoTo
<1>3. Atomic!OnlyTouches(RequestOf[c], Current(CartOf[c]), Current(CartOf[c]))
  BY NothingTouched
<1>4. Atomic!OnlyTouches(RequestOf[c], Current(CartOf[c]).items, Current(CartOf[c]).items)
  BY NothingTouched
<1>5. Atomic!OnlyTouches(RequestOf[c], Current(CartOf[c]).items, cart[c].items)'
  BY <1>1, <1>4 DEF Atomic!OnlyTouches, Atomic!HasLine
<1> QED
  BY <1>2, <1>5 DEF Told

LEMMA ApplyOpTold ==
    ASSUME IInv, NEW c \in Call, Told(c), NEW offered \in BOOLEAN, ApplyOp(c, offered)
    PROVE  Told(c)'
<1> USE CallAssumption
<1> DEFINE i == opNo[c]
           op == Batch(c)[i]
           accepted == Accepts(cart[c].items, op, offered)
           edited == [cart[c] EXCEPT !.items = applyOperation(@, op, <<c, i>>)]
           old == Current(CartOf[c]).items
<1>1. /\ pc[c] = "op" /\ Kind[c] = "apply" /\ cart[c] \in Cart /\ i \in 1..Len(Batch(c))
      /\ UNCHANGED <<redisVars, kitchen, broadcast>>
  BY DEF IInv, CallInv, ApplyOp, ApplyAwait
<1>2. Batch(c) \in Seq(Operation)
  BY OpsAssumption DEF Batch
<1>3. cart[c].items \in SUBSET Line
  BY <1>1 DEF Cart
<1>4. Atomic!OnlyTouches(RequestOf[c], old, cart[c].items)
  BY <1>1 DEF Told
<1>5. Atomic!OnlyTouches(RequestOf[c], old, edited.items)
  <2>1. Atomic!OnlyTouches(RequestOf[c], old, applyOperation(cart[c].items, op, <<c, i>>))
    <3> HIDE DEF old
    <3> QED
      BY <1>1, <1>2, <1>3, <1>4, OperationTouches
  <2>2. edited.items = applyOperation(cart[c].items, op, <<c, i>>)
    BY <1>1 DEF Cart
  <2> QED
    BY <2>1, <2>2
<1>6. Current(CartOf[c])' = Current(CartOf[c])
  BY <1>1 DEF Current, redisVars
<1>7. pc'[c] = "mark" \/ (pc'[c] \in {"op", "quote"} /\ cart'[c].items \in {cart[c].items, edited.items})
  <2> DEFINE done == IF accepted THEN edited ELSE cart[c]
  <2>1. done \in {cart[c], edited} /\ [done EXCEPT !.version = @ + 1].items = done.items
    BY <1>1 DEF Cart
  <2>2. \/ GoTo(c, "mark")
        \/ GoTo(c, "op") /\ cart' = [cart EXCEPT ![c] = done]
        \/ GoTo(c, "quote") /\ cart' = [cart EXCEPT ![c] = [done EXCEPT !.version = @ + 1]]
    BY DEF ApplyOp
  <2> HIDE DEF done, edited
  <2> QED
    BY <2>1, <2>2 DEF IInv, TypeOK, GoTo
<1>8. CASE cart'[c].items \in {cart[c].items, edited.items}
  <2>1. Atomic!OnlyTouches(RequestOf[c], old, cart'[c].items)
    <3> HIDE DEF edited, old
    <3> QED
      BY <1>4, <1>5, <1>8
  <2> QED
    BY <1>7, <1>6, <2>1 DEF Told
<1>9. CASE pc'[c] = "mark"
  BY <1>9 DEF Told
<1> QED
  BY <1>7, <1>8, <1>9

LEMMA QuoteTold == ASSUME IInv, NEW c \in Call, Told(c), Quote(c) PROVE Told(c)'
<1> USE CallAssumption
<1>1. /\ pc[c] = "quote" /\ pc'[c] = "commit" /\ cart'[c] = cart[c]
      /\ Current(CartOf[c])' = Current(CartOf[c])
  BY DEF IInv, TypeOK, Quote, GoTo, localVars, redisVars, Current
<1> QED
  BY <1>1 DEF Told

LEMMA ConfirmReadTold == ASSUME IInv, NEW c \in Call, ConfirmRead(c) PROVE Told(c)'
<1>1. CASE Leave(c, {"not_found"}) \/ Leave(c, {"order"})
  BY <1>1, LeaveTold
<1>2. CASE GoTo(c, "insert")
  BY <1>2 DEF IInv, TypeOK, GoTo, Told
<1> QED
  BY <1>1, <1>2 DEF ConfirmRead

LEMMA InsertedTold == ASSUME IInv, NEW c \in Call, Told(c), Inserted(c) PROVE Told(c)'
<1> USE CallAssumption
<1>1. pc[c] = "inserted" /\ pc'[c] = "stamp" /\ cart[c] \in Cart /\ kitchen' = kitchen
  BY DEF IInv, TypeOK, CallInv, Inserted, GoTo
<1>2. cart'[c].items = cart[c].items
  BY <1>1 DEF IInv, TypeOK, Inserted, Cart
<1> QED
  BY <1>1, <1>2 DEF Told

LEMMA CommitCreatedTold ==
    ASSUME IInv, CartsInv, NEW c \in Call, commitCreated(c) PROVE Told(c)' /\ Kept(CartOf[c])'
<1> USE CallAssumption
<1> DEFINE k == CartOf[c]
<1>1. /\ pc[c] = "create" /\ pc'[c] = "created" /\ cart[c] \in Cart /\ store[k] = None
      /\ cart[c] = emptyCart(DeviceOf[c], TableOf[c]) /\ Persist(c) /\ UNCHANGED <<ledger, kitchen, broadcast>>
  BY DEF IInv, TypeOK, CallInv, CartsInv, Told, commitCreated, GoTo
<1>2. store'[k] = cart[c] /\ cart[c] # None
  BY <1>1, PersistType, NoneAssumption DEF IInv
<1>3. cart[c].version = 0 /\ ~cart[c].confirmed
  BY <1>1 DEF emptyCart
<1>4. Told(c)'
  BY <1>1, <1>2 DEF Told
<1>5. Applied(k)' = Applied(k) /\ Version(k)' = Version(k)
  BY <1>1, <1>2, <1>3 DEF Applied, Version, RequestsOf
<1>6. Kept(k)
  BY DEF CartsInv
<1>7. Kept(k)'
  BY <1>1, <1>2, <1>3, <1>5, <1>6 DEF Kept
<1> QED
  BY <1>4, <1>7

LEMMA CommitAppliedTold ==
    ASSUME IInv, CartsInv, NEW c \in Call, commitApplied(c) PROVE Told(c)' /\ Kept(CartOf[c])'
<1> USE CallAssumption
<1> DEFINE k == CartOf[c]
           r == RequestOf[c]
<1>1. /\ pc[c] = "commit" /\ Kind[c] = "apply" /\ pc'[c] = "committed" /\ cart[c] \in Cart /\ ledger[r] = "none"
      /\ SameCart(Current(k), cart[c], 1) /\ cart'[c] = cart[c]
      /\ Persist(c) /\ ledger' = [ledger EXCEPT ![r] = "applied"] /\ UNCHANGED <<kitchen, broadcast>>
  BY DEF IInv, TypeOK, CallInv, commitApplied, GoTo, ApplyAwait, localVars
<1>2. store'[k] = cart[c] /\ cart[c] # None
  BY <1>1, PersistType, NoneAssumption DEF IInv
<1>3. Kept(k)
  BY DEF CartsInv
<1>4. cart[c].version = Version(k) + 1 /\ ~cart[c].confirmed /\ Version(k) \in Nat
  BY <1>1 DEF SameCart, Current, Version, emptyCart, IInv, TypeOK, Cart
<1>5. Version(k)' = Version(k) + 1
  BY <1>2, <1>4 DEF Version
<1>6. r \in RequestsOf(k) /\ r \notin Applied(k)
  BY <1>1 DEF RequestsOf, Applied
<1>7. Applied(k)' = Applied(k) \cup {r}
  BY <1>1, <1>6 DEF Applied, RequestsOf, IInv, TypeOK
<1>8. IsFiniteSet(Applied(k) \cup {r}) /\ Cardinality(Applied(k) \cup {r}) = Cardinality(Applied(k)) + 1
  BY <1>3, <1>6, FS_AddElement DEF Kept
<1>9. broadcast'[k] = broadcast[k] /\ broadcast[k] \in Nat /\ broadcast[k] <= Version(k)
  BY <1>1, <1>3 DEF Kept, IInv, TypeOK
<1>10. ledger'[r] = "applied"
  BY <1>1 DEF IInv, TypeOK
<1>11. Told(c)'
  BY <1>1, <1>2, <1>4, <1>9, <1>10 DEF Told
<1>12. Kept(k)'
  <2>1. IsFiniteSet(Applied(k))' /\ (Cardinality(Applied(k)) = Version(k))'
    BY <1>3, <1>5, <1>7, <1>8 DEF Kept
  <2>2. (broadcast[k] <= Version(k))'
    BY <1>4, <1>5, <1>9
  <2> QED
    BY <1>2, <1>4, <2>1, <2>2 DEF Kept
<1> QED
  BY <1>11, <1>12

LEMMA CommittedTold ==
    ASSUME IInv, CartsInv, NEW c \in Call, Committed(c) PROVE Told(c)' /\ Kept(CartOf[c])'
<1> USE CallAssumption
<1> DEFINE k == CartOf[c]
<1>1. Told(c)'
  BY LeaveTold DEF Committed
<1>2. /\ pc[c] = "committed" /\ cart[c] \in Cart /\ store[k] = cart[c]
      /\ UNCHANGED <<store, ledger, kitchen>> /\ broadcast'[k] = cart[c].version
  BY DEF IInv, TypeOK, CallInv, CartsInv, Told, Committed, redisVars
<1>3. Kept(k) /\ cart[c] # None /\ cart[c].version \in Nat
  BY <1>2, NoneAssumption DEF CartsInv, Cart
<1>4. Applied(k)' = Applied(k) /\ Version(k)' = Version(k) /\ Version(k) = cart[c].version
  BY <1>2, <1>3 DEF Applied, RequestsOf, Version
<1>5. Kept(k)'
  BY <1>2, <1>3, <1>4 DEF Kept
<1> QED
  BY <1>1, <1>5

LEMMA MarkProcessedTold ==
    ASSUME IInv, CartsInv, NEW c \in Call, markProcessed(c) PROVE Told(c)' /\ Kept(CartOf[c])'
<1> USE CallAssumption
<1> DEFINE k == CartOf[c]
<1>1. /\ pc[c] = "mark" /\ pc'[c] = "marked" /\ Kind[c] = "apply" /\ ledger[RequestOf[c]] = "none"
      /\ ledger' = [ledger EXCEPT ![RequestOf[c]] = "rejected"] /\ UNCHANGED <<store, kitchen, broadcast>>
  BY DEF IInv, TypeOK, CallInv, markProcessed, GoTo, ApplyAwait
<1>2. ledger'[RequestOf[c]] = "rejected"
  BY <1>1 DEF IInv, TypeOK
<1>3. Told(c)'
  BY <1>1, <1>2 DEF Told
<1>4. Applied(k)' = Applied(k)
  BY <1>1, <1>2 DEF Applied, RequestsOf, IInv, TypeOK
<1>5. Version(k)' = Version(k) /\ Kept(k)
  BY <1>1 DEF Version, CartsInv
<1>6. Kept(k)'
  BY <1>1, <1>4, <1>5 DEF Kept
<1> QED
  BY <1>3, <1>6

LEMMA ConfirmOrderTold ==
    ASSUME IInv, CartsInv, NEW c \in Call, confirmOrder(c) PROVE Told(c)' /\ Kept(CartOf[c])'
<1> USE CallAssumption
<1> DEFINE k == CartOf[c]
<1>1. /\ pc[c] = "insert" /\ pc'[c] = "inserted" /\ cart'[c] = cart[c]
      /\ UNCHANGED <<store, ledger, broadcast>>
      /\ kitchen'[k] = kitchen[k] \cup {l \in cart[c].items : ~HasLine(kitchen[k], l.id)}
  BY DEF IInv, TypeOK, confirmOrder, GoTo, localVars, redisVars
<1>2. \A l \in cart[c].items : HasLine(kitchen'[k], l.id)
  BY <1>1 DEF HasLine
<1>3. \A l : HasLine(kitchen[k], l) => HasLine(kitchen'[k], l)
  BY <1>1 DEF HasLine
<1>4. Told(c)'
  BY <1>1, <1>2 DEF Told
<1>5. Applied(k)' = Applied(k) /\ Version(k)' = Version(k) /\ Kept(k)
  BY <1>1 DEF Applied, RequestsOf, Version, CartsInv
<1>6. Kept(k)'
  BY <1>1, <1>3, <1>5 DEF Kept
<1> QED
  BY <1>4, <1>6

LEMMA StampTold ==
    ASSUME IInv, CartsInv, NEW c \in Call, Stamp(c) PROVE Told(c)' /\ Kept(CartOf[c])'
<1> USE CallAssumption
<1> DEFINE k == CartOf[c]
<1>1. /\ pc[c] = "stamp" /\ pc'[c] = "stamped" /\ cart[c] \in Cart /\ store[k] \in Cart
      /\ cart[c] = [store[k] EXCEPT !.confirmed = TRUE]
      /\ UNCHANGED <<ledger, kitchen, broadcast>> /\ store'[k] = cart[c]
      /\ \A l \in cart[c].items : HasLine(kitchen[k], l.id)
  <2>1. pc[c] = "stamp" /\ Told(c) /\ CallInv(c)
    BY DEF IInv, CartsInv, Stamp
  <2>2. \A l \in cart[c].items : HasLine(kitchen[k], l.id)
    BY <2>1 DEF Told
  <2>3. /\ cart[c] \in Cart /\ store[k] \in Cart
        /\ cart[c] = [store[k] EXCEPT !.confirmed = TRUE]
    BY <2>1 DEF CallInv
  <2>4. pc'[c] = "stamped" /\ UNCHANGED <<ledger, kitchen, broadcast>> /\ store'[k] = cart[c]
    BY DEF IInv, TypeOK, Stamp, GoTo
  <2> QED
    BY <2>1, <2>2, <2>3, <2>4
<1>2. cart[c] # None /\ store[k] # None
  BY <1>1, NoneAssumption
<1>3. cart[c].version = store[k].version /\ cart[c].confirmed
  BY <1>1 DEF Cart
<1>4. Told(c)'
  BY <1>1, <1>2, <1>3 DEF Told
<1>5. Applied(k)' = Applied(k) /\ Version(k)' = Version(k) /\ Kept(k)
  BY <1>1, <1>2, <1>3 DEF Applied, RequestsOf, Version, CartsInv
<1>6. Kept(k)'
  BY <1>1, <1>5 DEF Kept
<1> QED
  BY <1>4, <1>6

LEMMA WorkCarts == ASSUME IInv, CartsInv, NEW c \in Call, Work(c) PROVE CartsInv'
<1> USE CallAssumption
<1>1. Told(c)
  BY DEF CartsInv
<1>2. CASE Enter(c)
  <2>1. UNCHANGED <<redisVars, kitchen, broadcast>> /\ cart' = cart
        /\ pc'[c] \in {"ledger", "read"} /\ \A d \in Call \ {c} : pc'[d] = pc[d]
    BY <1>2 DEF Enter, localVars, IInv, TypeOK
  <2>2. \A d \in Call \ {c} : Told(d)'
    BY <2>1, ToldUnchanged DEF CartsInv, redisVars
  <2>3. Told(c)'
    BY <2>1 DEF Told
  <2> QED
    BY <2>1, <2>2, <2>3, QuietKept DEF CartsInv
<1>3. CASE pc[c] # "idle"
  <2>1. \A d \in Call \ {c} : Told(d)'
    BY <1>3, WorkOwn, ToldOthers DEF CartsInv
  <2>2. \A k \in CartId \ {CartOf[c]} : Kept(k)'
    BY WorkOwn, KeptOthers DEF CartsInv
  <2>3. ASSUME Told(c)', Kept(CartOf[c])' PROVE CartsInv'
    BY <2>1, <2>2, <2>3 DEF CartsInv
  <2>4. ASSUME UNCHANGED <<redisVars, kitchen, broadcast>>, Told(c)' PROVE CartsInv'
    BY <2>1, <2>4, QuietKept DEF CartsInv
  <2>5. CASE Throw(c) \/ Created(c) \/ Marked(c) \/ Stamped(c)
    BY <2>4, <2>5, LeaveTold DEF Throw, Created, Marked, Stamped
  <2>6. CASE EnsureRead(c) \/ wasProcessed(c) \/ ConfirmRead(c)
    BY <2>4, <2>6, EnsureReadTold, WasProcessedTold, ConfirmReadTold DEF EnsureRead, wasProcessed, ConfirmRead
  <2>7. CASE ApplyRead(c) \/ Quote(c) \/ Inserted(c)
    BY <1>1, <2>4, <2>7, ApplyReadTold, QuoteTold, InsertedTold DEF ApplyRead, Quote, Inserted
  <2>8. CASE \E offered \in BOOLEAN : ApplyOp(c, offered)
    BY <1>1, <2>4, <2>8, ApplyOpTold DEF ApplyOp
  <2>9. CASE commitCreated(c) \/ commitApplied(c) \/ Committed(c)
    BY <2>3, <2>9, CommitCreatedTold, CommitAppliedTold, CommittedTold
  <2>10. CASE markProcessed(c) \/ confirmOrder(c) \/ Stamp(c)
    BY <2>3, <2>10, MarkProcessedTold, ConfirmOrderTold, StampTold
  <2>11. CASE Enter(c)
    BY <1>2, <2>11
  <2> QED
    BY <2>5, <2>6, <2>7, <2>8, <2>9, <2>10, <2>11 DEF Work
<1>4. Enter(c) \/ pc[c] # "idle"
  BY DEF Work, Throw, EnsureRead, commitCreated, Created, wasProcessed, ApplyRead, ApplyOp, Quote,
         commitApplied, Committed, markProcessed, Marked, ConfirmRead, confirmOrder, Inserted, Stamp, Stamped, Await
<1> QED
  BY <1>2, <1>3, <1>4

LEMMA NextCarts == IInv /\ CartsInv /\ [Next]_vars => CartsInv'
<1> SUFFICES ASSUME IInv, CartsInv, [Next]_vars PROVE CartsInv'
  OBVIOUS
<1>1. CASE Restart
  <2>1. UNCHANGED <<redisVars, kitchen, broadcast>> /\ \A c \in Call : pc'[c] = "idle"
    BY <1>1 DEF Restart
  <2>2. \A c \in Call : Told(c)'
    BY <2>1 DEF Told
  <2> QED
    BY <2>1, <2>2, QuietKept DEF CartsInv
<1>2. ASSUME UNCHANGED <<pc, cart, redisVars, kitchen, broadcast>> PROVE CartsInv'
  BY <1>2, QuietKept, ToldUnchanged DEF CartsInv, redisVars
<1>3. CASE UNCHANGED vars
  BY <1>2, <1>3 DEF vars, redisVars
<1>4. ASSUME NEW c \in Call, Arrive(c) PROVE CartsInv'
  BY <1>2, <1>4 DEF Arrive, localVars
<1>5. ASSUME NEW c \in Call, Work(c) PROVE CartsInv'
  BY <1>5, WorkCarts
<1> QED
  BY <1>1, <1>3, <1>4, <1>5 DEF Next

LEMMA InitCarts == Init => CartsInv
<1> SUFFICES ASSUME Init PROVE CartsInv
  OBVIOUS
<1>1. \A c \in Call : Told(c)
  BY DEF Init, Told
<1>2. ASSUME NEW k \in CartId PROVE Kept(k)
  <2>1. Applied(k) = {} /\ Version(k) = 0 /\ broadcast[k] = 0 /\ store[k] = None
    BY CallAssumption DEF Init, Applied, RequestsOf, Version
  <2> QED
    BY <2>1, FS_EmptySet DEF Kept
<1> QED
  BY <1>1, <1>2 DEF CartsInv

LEMMA CartsHold == Spec => []CartsInv
  BY IInvHolds, InitCarts, NextCarts, PTL DEF Spec

(* The version of a cart counts the requests committed to it: no commit was
   overwritten by one that had not read it. *)
THEOREM NoUpdateIsLost == Spec => []NoLostUpdate
<1>1. CartsInv => NoLostUpdate
  BY DEF CartsInv, Kept, Applied, Version, NoLostUpdate
<1> QED
  BY <1>1, CartsHold, PTL

(* A cart is stamped as confirmed only when the kitchen has its lines. *)
THEOREM KitchenIsTold == Spec => []KitchenHasOrder
<1>1. CartsInv => KitchenHasOrder
  BY DEF CartsInv, Kept, KitchenHasOrder
<1> QED
  BY <1>1, CartsHold, PTL

(* What the tablets are sent is the stored version, and newer than before. *)
THEOREM BroadcastsInOrder == Spec => BroadcastInOrder
<1>1. ASSUME IInv, CartsInv, [Next]_vars, NEW k \in CartId, broadcast'[k] # broadcast[k]
      PROVE  broadcast[k] < broadcast'[k] /\ broadcast'[k] = store[k].version
  <2>1. PICK c \in Call : Committed(c)
    BY ZenonT(60), <1>1 DEF Next, vars, Restart, Arrive, Work, Enter, Throw, EnsureRead, commitCreated,
       Created, wasProcessed, ApplyRead, ApplyOp, Quote, commitApplied, markProcessed, Marked,
       ConfirmRead, confirmOrder, Inserted, Stamp, Stamped
  <2>2. /\ pc[c] = "committed" /\ broadcast' = [broadcast EXCEPT ![CartOf[c]] = cart[c].version]
    BY <2>1 DEF Committed
  <2>3. k = CartOf[c] /\ broadcast'[k] = cart[c].version
    BY <1>1, <2>2 DEF IInv, TypeOK
  <2>4. store[k] = cart[c] /\ broadcast[k] < cart[c].version
    BY <1>1, <2>2, <2>3 DEF CartsInv, Told
  <2> QED
    BY <2>3, <2>4
<1>2. IInv /\ CartsInv /\ [Next]_vars =>
        [\A k \in CartId : broadcast'[k] # broadcast[k] =>
            broadcast[k] < broadcast'[k] /\ broadcast'[k] = store[k].version]_vars
  BY <1>1
<1> QED
  BY <1>2, IInvHolds, CartsHold, PTL DEF Spec, BroadcastInOrder

-----------------------------------------------------------------------------
(* The atomic cart: each write to Redis is one of its steps, on what is stored *)
(* at that moment, and everything between two writes is invisible.            *)

LEMMA CreateStep ==
    ASSUME IInv, CartsInv, NEW c \in Call, commitCreated(c)
    PROVE  Atomic!Create(CartOf[c])
<1> USE CallAssumption
<1>1. /\ store[CartOf[c]] = None /\ cart[c] = emptyCart(DeviceOf[c], TableOf[c])
      /\ store' = [store EXCEPT ![CartOf[c]] = cart[c]] /\ UNCHANGED ledger
  BY DEF IInv, CallInv, CartsInv, Told, commitCreated, Persist
<1>2. DeviceOf[c] \in Device /\ TableOf[c] \in Table \cup {None}
  OBVIOUS
<1>3. emptyCart(DeviceOf[c], TableOf[c]) = Atomic!emptyCart(DeviceOf[c], TableOf[c])
  BY DEF emptyCart, Atomic!emptyCart
<1> QED
  BY <1>1, <1>2, <1>3 DEF Atomic!Create

LEMMA AtomicApplyStep ==
    ASSUME IInv, CartsInv, NEW c \in Call, commitApplied(c)
    PROVE  Atomic!Apply(RequestOf[c], CartOf[c])
<1> USE CallAssumption
<1> DEFINE k == CartOf[c]
           r == RequestOf[c]
           old == Current(k)
<1>1. /\ pc[c] = "commit" /\ Kind[c] = "apply" /\ cart[c] \in Cart /\ ledger[r] = "none"
      /\ SameCart(old, cart[c], 1)
  BY DEF IInv, CallInv, commitApplied, ApplyAwait
<1>2. store' = [store EXCEPT ![k] = cart[c]] /\ ledger' = [ledger EXCEPT ![r] = "applied"]
  BY DEF commitApplied, Persist
<1>3. Atomic!OnlyTouches(r, old.items, cart[c].items)
  BY <1>1 DEF CartsInv, Told
<1>4. old \in Cart /\ store'[k] = cart[c]
  BY <1>2, CurrentType DEF IInv, TypeOK
<1>5. old = IF store[k] = None THEN Atomic!emptyCart(None, None) ELSE store[k]
  BY DEF Current, emptyCart, Atomic!emptyCart
<1>6. cart[c] = [old EXCEPT !.version = @ + 1, !.items = cart[c].items]
  <2> HIDE DEF old
  <2>1. /\ cart[c].version = old.version + 1 /\ cart[c].device = old.device
        /\ cart[c].table = old.table /\ cart[c].confirmed = old.confirmed
    BY <1>1, <1>4 DEF SameCart, Cart
  <2> QED
    BY <1>1, <1>4, <2>1 DEF Cart
<1>7. Atomic!Carries(c, r) /\ CartOf[c] = k /\ ~old.confirmed
  BY <1>1 DEF Atomic!Carries, SameCart
<1>8. store' = [store EXCEPT ![k] = [old EXCEPT !.version = @ + 1, !.items = store'[k].items]]
  BY <1>2, <1>4, <1>6
<1>9. Atomic!OnlyTouches(r, old.items, store'[k].items)
  BY <1>3, <1>4
<1> HIDE DEF old
<1> QED
  BY <1>1, <1>2, <1>5, <1>7, <1>8, <1>9 DEF Atomic!Apply

LEMMA ConfirmStep ==
    ASSUME IInv, NEW c \in Call, Stamp(c) PROVE Atomic!Confirm(CartOf[c])
<1> USE CallAssumption
<1>1. /\ store[CartOf[c]] \in Cart /\ ~store[CartOf[c]].confirmed
      /\ cart[c] = [store[CartOf[c]] EXCEPT !.confirmed = TRUE]
      /\ store' = [store EXCEPT ![CartOf[c]] = cart[c]] /\ UNCHANGED ledger
  BY DEF IInv, CallInv, Stamp
<1>2. store[CartOf[c]] # None
  BY <1>1, NoneAssumption
<1> QED
  BY <1>1, <1>2 DEF Atomic!Confirm

LEMMA RejectStep ==
    ASSUME IInv, NEW c \in Call, markProcessed(c) PROVE Atomic!Reject(RequestOf[c])
  BY DEF IInv, CallInv, ApplyAwait, markProcessed, Atomic!Reject

(* With its lock, its awaits, its failures and its restarts the Cart Module
   implements the cart that applies a request in one step. *)
THEOREM RefinesAtomicCart == Spec => ImplementsAtomicCart
<1>1. Init => Atomic!Init
  BY DEF Init, Atomic!Init
<1>2. IInv /\ CartsInv /\ [Next]_vars => [Atomic!Next]_(Atomic!vars)
  <2> SUFFICES ASSUME IInv, CartsInv, [Next]_vars PROVE Atomic!Next \/ UNCHANGED Atomic!vars
    OBVIOUS
  <2>1. CASE UNCHANGED redisVars
    BY <2>1 DEF redisVars, Atomic!vars
  <2>2. ASSUME NEW c \in Call, commitCreated(c) PROVE Atomic!Next
    BY <2>2, CreateStep, CallAssumption DEF Atomic!Next
  <2>3. ASSUME NEW c \in Call, commitApplied(c) PROVE Atomic!Next
    BY <2>3, AtomicApplyStep, CallAssumption DEF Atomic!Next
  <2>4. ASSUME NEW c \in Call, Stamp(c) PROVE Atomic!Next
    BY <2>4, ConfirmStep, CallAssumption DEF Atomic!Next
  <2>5. ASSUME NEW c \in Call, markProcessed(c) PROVE Atomic!Next
    BY <2>5, RejectStep, CallAssumption DEF Atomic!Next
  <2> QED
    BY <2>1, <2>2, <2>3, <2>4, <2>5, RedisWriters
<1> QED
  BY <1>1, <1>2, IInvHolds, CartsHold, PTL DEF Spec, ImplementsAtomicCart, Atomic!Spec

-----------------------------------------------------------------------------
(* What the callers heard. *)

Logged(c) == answers[c] \in {{"logged"}, {"lost"}}

\* What a call that left told.
Answered(c) ==
    /\ answers[c] # {} => phase[c] = "left"
    /\ "updated" \in answers[c] => ledger[RequestOf[c]] = "applied"
    /\ answers[c] = {"rejected"} => ledger[RequestOf[c]] = "rejected"
    /\ "order" \in answers[c] => store[CartOf[c]] # None /\ store[CartOf[c]].confirmed
    /\ Kind[c] = "apply" /\ phase[c] = "left" => answers[c] # {}
    /\ Kind[c] = "ensure" /\ phase[c] = "left" => store[CartOf[c]] # None \/ Logged(c)

\* An ensureCart of its cart is ahead of a proposal in the lock, or over.
Joined(c) ==
    Kind[c] = "apply" /\ Lock!Present(c) =>
        \E d \in Call : /\ Kind[d] = "ensure" /\ CartOf[d] = CartOf[c]
                        /\ d \in ahead[c] \/ phase[d] = "left"

AnswersInv == NamelessOnlyAfterFailure /\ \A c \in Call : Answered(c) /\ Joined(c)

(* A request that was marked stays marked as it was. *)
LEMMA MarkStays ==
    ASSUME IInv, [Next]_vars, NEW r \in Request, ledger[r] # "none"
    PROVE  ledger'[r] = ledger[r]
<1>1. ASSUME NEW c \in Call, commitApplied(c) \/ markProcessed(c) PROVE ledger'[r] = ledger[r]
  <2>1. /\ pc[c] \in {"commit", "mark"} /\ Kind[c] = "apply"
        /\ \E x : ledger' = [ledger EXCEPT ![RequestOf[c]] = x]
    BY <1>1 DEF commitApplied, markProcessed, IInv, CallInv, ApplyAwait
  <2>2. ledger[RequestOf[c]] = "none"
    BY <2>1 DEF IInv, CallInv
  <2> QED
    BY <2>1, <2>2 DEF IInv, TypeOK
<1>2. ASSUME NEW c \in Call, commitCreated(c) \/ Stamp(c) PROVE ledger'[r] = ledger[r]
  BY <1>2 DEF commitCreated, Stamp
<1> QED
  BY <1>1, <1>2, RedisWriters DEF redisVars

(* A cart that is not there comes to be there by a creation, or by a proposal
   that found none. *)
LEMMA StoredStep ==
    ASSUME IInv, CartsInv, [Next]_vars, NEW k \in CartId
    PROVE  /\ store[k] # None => store'[k] # None
           /\ store[k] = None /\ store'[k] # None /\ store'[k].device = None =>
                  \E c \in Call : Kind[c] = "apply" /\ CartOf[c] = k /\ phase[c] = "running"
<1> USE CallAssumption
<1>1. ASSUME NEW c \in Call, commitCreated(c) \/ commitApplied(c) \/ Stamp(c)
      PROVE  /\ cart[c] # None
             /\ store'[k] = IF k = CartOf[c] THEN cart[c] ELSE store[k]
  <2>1. cart[c] \in Cart
    BY <1>1 DEF IInv, CallInv, commitCreated, commitApplied, Stamp
  <2>2. store' = [store EXCEPT ![CartOf[c]] = cart[c]]
    BY <1>1 DEF commitCreated, commitApplied, Persist, Stamp
  <2> QED
    BY <2>1, <2>2, NoneAssumption DEF IInv, TypeOK
<1>2. ASSUME NEW c \in Call, commitCreated(c) PROVE cart[c].device # None
  <2>1. cart[c] = emptyCart(DeviceOf[c], TableOf[c])
    BY <1>2 DEF CartsInv, Told, commitCreated
  <2> QED
    BY <2>1, NoneAssumption DEF emptyCart
<1>3. ASSUME NEW c \in Call, commitApplied(c) PROVE Kind[c] = "apply" /\ phase[c] = "running"
  BY <1>3 DEF IInv, CallInv, ApplyAwait, commitApplied
<1>4. ASSUME NEW c \in Call, Stamp(c) PROVE store[CartOf[c]] # None
  <2>1. pc[c] = "stamp" /\ CallInv(c)
    BY <1>4 DEF IInv, Stamp
  <2> QED
    BY <2>1, NoneAssumption DEF CallInv
<1>5. CASE UNCHANGED store
  BY <1>5
<1>6. CASE \E c \in Call : commitCreated(c) \/ commitApplied(c) \/ Stamp(c)
  BY <1>1, <1>2, <1>3, <1>4, <1>6
<1> QED
  BY <1>5, <1>6, RedisWriters DEF redisVars, markProcessed

(* What a call heard stays true. *)
LEMMA AnswerStays ==
    ASSUME IInv, CartsInv, [Next]_vars, NEW c \in Call, Answered(c),
           answers'[c] = answers[c], answers[c] # {} \/ phase'[c] # "left" \/ phase[c] = "left",
           phase[c] = "left" => phase'[c] = "left"
    PROVE  Answered(c)'
<1> USE CallAssumption
<1>1. ledger[RequestOf[c]] # "none" => ledger'[RequestOf[c]] = ledger[RequestOf[c]]
  BY MarkStays
<1>2. store[CartOf[c]] # None => store'[CartOf[c]] # None
  BY StoredStep
<1>3. store[CartOf[c]] # None /\ store[CartOf[c]].confirmed => store'[CartOf[c]] = store[CartOf[c]]
  BY StoredCartStep
<1>4. Logged(c)' <=> Logged(c)
  BY DEF Logged
<1> QED
  BY <1>1, <1>2, <1>3, <1>4 DEF Answered

(* A call that settles tells the truth. *)
LEMMA LeaveAnswered ==
    ASSUME IInv, CartsInv, NEW c \in Call, Work(c), phase[c] = "running", phase'[c] = "left"
    PROVE  Answered(c)'
<1> USE CallAssumption
<1>1. \A x : Leave(c, x) => answers'[c] = x
  BY DEF Leave, IInv, TypeOK
<1>2. CASE Throw(c)
  <2>1. answers'[c] = Failure(c)
    BY <1>1, <1>2 DEF Throw
  <2>2. \/ answers'[c] = {"internal_error"} /\ Kind[c] = "apply"
        \/ answers'[c] = {"failed"} /\ Kind[c] = "confirm"
        \/ answers'[c] = {"logged"} /\ Kind[c] = "ensure"
    BY <2>1 DEF Failure
  <2>3. Kind[c] = "ensure" => Logged(c)'
    BY <2>2 DEF Logged
  <2>4. answers'[c] # {} /\ "updated" \notin answers'[c] /\ answers'[c] # {"rejected"} /\ "order" \notin answers'[c]
    BY <2>2
  <2> QED
    BY <2>3, <2>4 DEF Answered
<1>3. CASE Kind[c] = "ensure" /\ answers'[c] = {} /\ store'[CartOf[c]] # None
  BY <1>3 DEF Answered
<1>4. CASE EnsureRead(c)
  <2>1. ~GoTo(c, "create")
    BY DEF GoTo, lockVars
  <2>2. Leave(c, {}) /\ store[CartOf[c]] # None /\ store' = store /\ Kind[c] = "ensure"
    BY <1>4, <2>1 DEF EnsureRead, redisVars
  <2> QED
    BY <1>1, <1>3, <2>2
<1>5. CASE Created(c)
  <2>1. store[CartOf[c]] # None /\ store' = store /\ Kind[c] = "ensure" /\ Leave(c, {})
    BY <1>5 DEF Created, redisVars, CartsInv, Told, IInv, CallInv, EnsureAwait
  <2> QED
    BY <1>1, <1>3, <2>1
<1>6. CASE wasProcessed(c)
  <2>1. Leave(c, {"duplicate"}) /\ Kind[c] = "apply"
    BY <1>6 DEF wasProcessed, GoTo, lockVars, IInv, CallInv, ApplyAwait
  <2>2. answers'[c] = {"duplicate"}
    BY <1>1, <2>1
  <2>3. answers'[c] # {} /\ "updated" \notin answers'[c] /\ answers'[c] # {"rejected"} /\ "order" \notin answers'[c]
    BY <2>2
  <2> QED
    BY <2>1, <2>3 DEF Answered
<1>7. CASE Committed(c)
  <2>1. ledger[RequestOf[c]] = "applied" /\ ledger' = ledger /\ Kind[c] = "apply"
    BY <1>7 DEF Committed, redisVars, CartsInv, Told, IInv, CallInv, ApplyAwait
  <2>2. answers'[c] \in {{"updated"}, {"updated", "rejected"}}
    BY <1>1, <1>7 DEF Committed
  <2>3. answers'[c] # {} /\ answers'[c] # {"rejected"} /\ "order" \notin answers'[c]
    BY <2>2
  <2> QED
    BY <2>1, <2>3 DEF Answered
<1>8. CASE Marked(c)
  <2>1. ledger[RequestOf[c]] = "rejected" /\ ledger' = ledger /\ Kind[c] = "apply"
    BY <1>8 DEF Marked, redisVars, CartsInv, Told, IInv, CallInv, ApplyAwait
  <2>2. answers'[c] = {"rejected"}
    BY <1>1, <1>8 DEF Marked
  <2> QED
    BY <2>1, <2>2 DEF Answered
<1>9. CASE /\ answers'[c] = {"order"} /\ Kind[c] = "confirm"
           /\ store'[CartOf[c]] # None /\ store'[CartOf[c]].confirmed
  <2>1. answers'[c] # {} /\ "updated" \notin answers'[c] /\ answers'[c] # {"rejected"}
    BY <1>9
  <2> QED
    BY <1>9, <2>1 DEF Answered
<1>10. CASE ConfirmRead(c)
  <2>1. Kind[c] = "confirm" /\ store' = store
    BY <1>10 DEF ConfirmRead, redisVars
  <2>2. \/ answers'[c] = {"not_found"}
        \/ answers'[c] = {"order"} /\ store[CartOf[c]] # None /\ store[CartOf[c]].confirmed
    BY <1>1, <1>10 DEF ConfirmRead, GoTo, lockVars
  <2>3. CASE answers'[c] = {"not_found"}
    <3>1. answers'[c] # {} /\ "updated" \notin answers'[c] /\ answers'[c] # {"rejected"} /\ "order" \notin answers'[c]
      BY <2>3
    <3> QED
      BY <2>1, <3>1 DEF Answered
  <2> QED
    BY <1>9, <2>1, <2>2, <2>3
<1>11. CASE Stamped(c)
  <2>1. /\ store[CartOf[c]] # None /\ store[CartOf[c]].confirmed /\ store' = store /\ Kind[c] = "confirm"
    BY <1>11 DEF Stamped, redisVars, CartsInv, Told, IInv, CallInv, ConfirmAwait
  <2>2. answers'[c] = {"order"}
    BY <1>1, <1>11 DEF Stamped
  <2> QED
    BY <1>9, <2>1, <2>2
<1>12. ~Enter(c)
  BY DEF Enter, Lock!Enter
<1>13. ASSUME NEW x, GoTo(c, x) PROVE FALSE
  BY <1>13 DEF GoTo, lockVars
<1> QED
  BY <1>2, <1>4, <1>5, <1>6, <1>7, <1>8, <1>10, <1>11, <1>12, <1>13
     DEF Work, commitCreated, ApplyRead, ApplyOp, Quote, commitApplied, markProcessed,
         confirmOrder, Inserted, Stamp

(* The three things a step of a call may do to the lock. *)
LEMMA WorkLock ==
    ASSUME NEW c \in Call, Work(c)
    PROVE  \/ Lock!Enter(c) /\ UNCHANGED answers
           \/ Lock!Leave(c)
           \/ UNCHANGED <<phase, ahead, answers>>
<1>1. \A x : Leave(c, x) => Lock!Leave(c)
  BY DEF Leave
<1>2. \A x : GoTo(c, x) => UNCHANGED <<phase, ahead, answers>>
  BY DEF GoTo, lockVars
<1> QED
  BY <1>1, <1>2 DEF Work, Enter, Throw, EnsureRead, commitCreated, Created, wasProcessed, ApplyRead,
     ApplyOp, Quote, commitApplied, Committed, markProcessed, Marked, ConfirmRead, confirmOrder,
     Inserted, Stamp, Stamped

LEMMA WorkAnswered ==
    ASSUME IInv, CartsInv, AnswersInv, NEW c \in Call, Work(c)
    PROVE  \A d \in Call : Answered(d)'
<1>1. [Next]_vars
  BY DEF Next
<1>2. ASSUME NEW d \in Call, d # c PROVE Answered(d)'
  <2>1. answers'[d] = answers[d] /\ phase'[d] = phase[d]
    BY <1>2, WorkOwn DEF OnlyOwn
  <2> QED
    BY <1>1, <2>1, AnswerStays DEF AnswersInv
<1>3. Answered(c)'
  <2>1. CASE Lock!Leave(c)
    <3>1. phase[c] = "running" /\ phase'[c] = "left"
      BY <2>1 DEF Lock!Leave, IInv, TypeOK, Lock!TypeOK
    <3> QED
      BY <3>1, LeaveAnswered
  <2>2. CASE Lock!Enter(c) /\ UNCHANGED answers
    <3>1. phase[c] = "waiting" /\ phase'[c] = "running"
      BY <2>2 DEF Lock!Enter, IInv, TypeOK, Lock!TypeOK
    <3> QED
      BY <1>1, <2>2, <3>1, AnswerStays DEF AnswersInv
  <2>3. CASE UNCHANGED <<phase, ahead, answers>>
    BY <1>1, <2>3, AnswerStays DEF AnswersInv
  <2> QED
    BY <2>1, <2>2, <2>3, WorkLock
<1> QED
  BY <1>2, <1>3

LEMMA WorkJoined ==
    ASSUME IInv, AnswersInv, NEW c \in Call, Work(c), NEW d \in Call
    PROVE  Joined(d)'
<1>1. Joined(d)
  BY DEF AnswersInv
<1>2. CASE Lock!Leave(c)
  <2>1. /\ phase' = [phase EXCEPT ![c] = "left"] /\ phase'[c] = "left"
        /\ ahead'[d] = ahead[d] \ {c}
    BY <1>2 DEF Lock!Leave, IInv, TypeOK, Lock!TypeOK
  <2>2. \A e \in Call : phase[e] = "left" => phase'[e] = "left"
    BY <2>1 DEF IInv, TypeOK, Lock!TypeOK
  <2>3. Lock!Present(d)' => Lock!Present(d)
    BY <2>1 DEF Lock!Present, IInv, TypeOK, Lock!TypeOK
  <2> QED
    BY <1>1, <2>1, <2>2, <2>3 DEF Joined
<1>3. CASE Lock!Enter(c)
  <2>1. phase' = [phase EXCEPT ![c] = "running"] /\ ahead' = ahead /\ phase[c] = "waiting"
    BY <1>3 DEF Lock!Enter
  <2>2. \A e \in Call : phase[e] = "left" => phase'[e] = "left"
    BY <2>1 DEF IInv, TypeOK, Lock!TypeOK
  <2>3. Lock!Present(d)' => Lock!Present(d)
    BY <2>1 DEF Lock!Present, IInv, TypeOK, Lock!TypeOK
  <2> QED
    BY <1>1, <2>1, <2>2, <2>3 DEF Joined
<1>4. CASE UNCHANGED <<phase, ahead, answers>>
  BY <1>1, <1>4 DEF Joined, Lock!Present
<1> QED
  BY <1>2, <1>3, <1>4, WorkLock

LEMMA ArriveAnswers ==
    ASSUME IInv, CartsInv, AnswersInv, NEW c \in Call, Arrive(c)
    PROVE  \A d \in Call : Answered(d)' /\ Joined(d)'
<1> USE CallAssumption
<1>1. [Next]_vars
  BY DEF Next
<1>2. /\ phase[c] = "idle" /\ phase' = [phase EXCEPT ![c] = "waiting"]
      /\ ahead' = [ahead EXCEPT ![c] = {d \in Call : CartOf[d] = CartOf[c] /\ Lock!Present(d)}]
      /\ UNCHANGED answers
  BY DEF Arrive, Lock!Queue
<1>3. ASSUME NEW d \in Call PROVE Answered(d)'
  <2>1. phase'[d] = "left" <=> phase[d] = "left"
    BY <1>2 DEF IInv, TypeOK, Lock!TypeOK
  <2> QED
    BY <1>1, <1>2, <2>1, AnswerStays DEF AnswersInv
<1>4. \A e \in Call : phase[e] = "left" => phase'[e] = "left"
  BY <1>2 DEF IInv, TypeOK, Lock!TypeOK
<1>5. ASSUME NEW d \in Call, d # c PROVE Joined(d)'
  <2>1. ahead'[d] = ahead[d] /\ phase'[d] = phase[d] /\ Joined(d)
    BY <1>2, <1>5 DEF IInv, TypeOK, Lock!TypeOK, AnswersInv
  <2> QED
    BY <1>4, <2>1 DEF Joined, Lock!Present
<1>6. Joined(c)'
  <2> SUFFICES ASSUME Kind[c] = "apply" PROVE Joined(c)'
    BY DEF Joined
  <2>1. PICK e \in Call : Kind[e] = "ensure" /\ CartOf[e] = CartOf[c] /\ phase[e] # "idle"
    BY DEF Arrive
  <2>2. e \in ahead'[c] \/ phase'[e] = "left"
    <3>1. ahead'[c] = {d \in Call : CartOf[d] = CartOf[c] /\ Lock!Present(d)}
      BY <1>2 DEF IInv, TypeOK, Lock!TypeOK
    <3>2. phase[e] = "left" \/ Lock!Present(e)
      BY <2>1 DEF IInv, TypeOK, Lock!TypeOK, Lock!Phase, Lock!Present
    <3> QED
      BY <1>4, <2>1, <3>1, <3>2
  <2> QED
    BY <2>1, <2>2 DEF Joined
<1> QED
  BY <1>3, <1>5, <1>6

LEMMA RestartAnswers ==
    ASSUME IInv, CartsInv, AnswersInv, Restart
    PROVE  \A d \in Call : Answered(d)' /\ Joined(d)'
<1> SUFFICES ASSUME NEW d \in Call PROVE Answered(d)' /\ Joined(d)'
  OBVIOUS
<1>1. /\ phase'[d] = IF Lock!Present(d) THEN "left" ELSE phase[d]
      /\ answers'[d] = IF Lock!Present(d) THEN {"lost"} ELSE answers[d]
  BY DEF Restart, Lock!Restart
<1>2. ~Lock!Present(d)'
  BY <1>1 DEF Lock!Present
<1>3. CASE Lock!Present(d)
  <2>1. answers'[d] = {"lost"} /\ phase'[d] = "left"
    BY <1>1, <1>3
  <2>2. answers'[d] # {} /\ "updated" \notin answers'[d] /\ answers'[d] # {"rejected"} /\ "order" \notin answers'[d]
    BY <2>1
  <2>3. Logged(d)'
    BY <2>1 DEF Logged
  <2> QED
    BY <1>2, <2>1, <2>2, <2>3 DEF Answered, Joined
<1>4. CASE ~Lock!Present(d)
  <2>1. answers'[d] = answers[d] /\ phase'[d] = phase[d]
    BY <1>1, <1>4
  <2>2. [Next]_vars
    BY DEF Next
  <2> QED
    BY <1>2, <2>1, <2>2, AnswerStays DEF AnswersInv, Joined
<1> QED
  BY <1>3, <1>4

(* Once an ensureCart of it left in silence, a cart has a device. *)
LEMMA NamelessStep ==
    ASSUME IInv, CartsInv, AnswersInv, [Next]_vars
    PROVE  NamelessOnlyAfterFailure'
<1>1. ASSUME NEW e \in Call, phase[e] = "left" PROVE answers'[e] = answers[e]
  <2>1. ASSUME NEW c \in Call, Work(c) PROVE answers'[e] = answers[e]
    <3>1. CASE e = c
      <4>1. UNCHANGED answers
        BY <1>1, <2>1, <3>1, WorkLock DEF Lock!Leave, Lock!Enter
      <4> QED
        BY <4>1
    <3> QED
      BY <2>1, <3>1, WorkOwn DEF OnlyOwn
  <2>2. CASE Restart
    BY <1>1, <2>2 DEF Restart, Lock!Present
  <2> QED
    BY <2>1, <2>2 DEF Next, Arrive, vars
<1>2. \A e \in Call : Logged(e) => Logged(e)'
  BY <1>1 DEF AnswersInv, Answered, Logged
<1> SUFFICES ASSUME NEW k \in CartId, store'[k] # None, store'[k].device = None
             PROVE  \E e \in Call : Kind[e] = "ensure" /\ CartOf[e] = k /\ Logged(e)'
  BY DEF NamelessOnlyAfterFailure, Logged
<1>3. \E e \in Call : Kind[e] = "ensure" /\ CartOf[e] = k /\ Logged(e)
  <2>1. CASE store[k] # None
    <3>1. store[k].device = None
      BY <2>1, StoredCartStep
    <3> QED
      BY <2>1, <3>1 DEF AnswersInv, NamelessOnlyAfterFailure, Logged
  <2>2. CASE store[k] = None
    <3>1. PICK c \in Call : Kind[c] = "apply" /\ CartOf[c] = k /\ phase[c] = "running"
      BY <2>2, StoredStep
    <3>2. ahead[c] = {} /\ Lock!Present(c)
      BY <3>1 DEF IInv, Lock!Ordered, Lock!Present
    <3>3. PICK e \in Call : Kind[e] = "ensure" /\ CartOf[e] = k /\ phase[e] = "left"
      BY <3>1, <3>2 DEF AnswersInv, Joined
    <3> QED
      BY <2>2, <3>3 DEF AnswersInv, Answered
  <2> QED
    BY <2>1, <2>2
<1> QED
  BY <1>2, <1>3

LEMMA AnswersHold == Spec => []AnswersInv
<1>1. Init => AnswersInv
  BY DEF Init, Lock!Init, AnswersInv, NamelessOnlyAfterFailure, Answered, Joined, Lock!Present
<1>2. IInv /\ CartsInv /\ AnswersInv /\ [Next]_vars => AnswersInv'
  <2> SUFFICES ASSUME IInv, CartsInv, AnswersInv, [Next]_vars
               PROVE  \A c \in Call : Answered(c)' /\ Joined(c)'
    BY NamelessStep DEF AnswersInv
  <2>1. ASSUME NEW c \in Call, Work(c) PROVE \A d \in Call : Answered(d)' /\ Joined(d)'
    BY <2>1, WorkAnswered, WorkJoined
  <2>2. ASSUME NEW c \in Call, Arrive(c) PROVE \A d \in Call : Answered(d)' /\ Joined(d)'
    BY <2>2, ArriveAnswers
  <2>3. CASE UNCHANGED vars
    BY <2>3 DEF vars, AnswersInv, Answered, Logged, Joined, Lock!Present
  <2>4. CASE Restart
    BY <2>4, RestartAnswers
  <2> QED
    BY <2>1, <2>2, <2>3, <2>4 DEF Next
<1> QED
  BY <1>1, <1>2, IInvHolds, CartsHold, PTL DEF Spec

(* What a caller heard is so in Redis, a proposal is never dropped in silence,
   and behind a cart without identity there is an ensureCart that failed. *)
THEOREM AnswersAreHonest == Spec => []HonestAnswers
<1>1. AnswersInv => HonestAnswers
  BY DEF AnswersInv, Answered, HonestAnswers
<1> QED
  BY <1>1, AnswersHold, PTL
=============================================================================
