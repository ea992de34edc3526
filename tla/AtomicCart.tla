------------------------------ MODULE AtomicCart ------------------------------
(***************************************************************************)
(* What the Cart Module promises about carts, without its awaits, lock and *)
(* failures: a request is applied to the current cart in one step, at most *)
(* once, and touches only the lines it names and the lines it adds; a cart *)
(* keeps the identity it was created with; a confirmed cart never changes. *)
(***************************************************************************)
EXTENDS CartOperations

CONSTANTS CartId, Kind, CartOf, RequestOf, Ops

VARIABLES cart,         \* cart[k]: the cart, None until it exists
          handled       \* handled[r]: "none", or the outcome of request r

vars == <<cart, handled>>

Init == /\ cart = [k \in CartId |-> None]
        /\ handled = [r \in Request |-> "none"]

Carries(c, r) == Kind[c] = "apply" /\ RequestOf[c] = r

\* Lines the operations of r do not name are kept as they are, and every line
\* of the result was there, or r's own operations added it.
OnlyTouches(r, old, new) ==
    LET named == {Ops[r][i].line : i \in 1..Len(Ops[r])} IN
    /\ \A l \in old : l.id \notin named => l \in new
    /\ \A l \in new : \/ l \in old
                      \/ l.id \in named /\ HasLine(old, l.id)
                      \/ Carries(l.id[1], r)

Create(k) ==
    /\ cart[k] = None
    /\ \E d \in Device, t \in Table \cup {None} : cart' = [cart EXCEPT ![k] = emptyCart(d, t)]
    /\ UNCHANGED handled

Apply(r, k) ==
    LET old == IF cart[k] = None THEN emptyCart(None, None) ELSE cart[k]
        new == cart'[k]
    IN
    /\ handled[r] = "none"
    /\ \E c \in Call : Carries(c, r) /\ CartOf[c] = k
    /\ ~old.confirmed
    /\ handled' = [handled EXCEPT ![r] = "applied"]
    /\ OnlyTouches(r, old.items, new.items)
    /\ cart' = [cart EXCEPT ![k] = [old EXCEPT !.version = @ + 1, !.items = new.items]]

Reject(r) ==
    /\ handled[r] = "none"
    /\ handled' = [handled EXCEPT ![r] = "rejected"]
    /\ UNCHANGED cart

Confirm(k) ==
    /\ cart[k] # None
    /\ ~cart[k].confirmed
    /\ cart' = [cart EXCEPT ![k].confirmed = TRUE]
    /\ UNCHANGED handled

Next == \/ \E k \in CartId : Create(k) \/ Confirm(k) \/ \E r \in Request : Apply(r, k)
        \/ \E r \in Request : Reject(r)

Spec == Init /\ [][Next]_vars
=============================================================================
