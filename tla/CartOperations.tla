---------------------------- MODULE CartOperations ----------------------------
(***************************************************************************)
(* Carts and the five operations of a proposal (src/cart/cart-types.ts,    *)
(* src/cart/cart-operation-applier.ts, src/contracts/                      *)
(* cart-operation.schema.ts).  A cart's lines are a set of records: their  *)
(* order, names and prices are not modelled.  What the menu answers,       *)
(* whether the item is sold and the option is one of its options, is a     *)
(* parameter.                                                              *)
(***************************************************************************)
EXTENDS Naturals, Sequences

CONSTANTS Call,         \* the calls of CartController under the cart's lock
          Request,      \* request ids, one per understood utterance
          Modifier,     \* options of a menu item (ptav ids)
          Device, Table,
          None          \* an absent device, table or cart

\* newLineId is a uuid: unique to the call and the operation that made it.
LineId == Call \X Nat

Line == [id : LineId, qty : Nat, mods : SUBSET Modifier]

Cart == [version : Nat, items : SUBSET Line, device : Device \cup {None},
         table : Table \cup {None}, confirmed : BOOLEAN]

Action == {"add_item", "remove_item", "update_quantity", "add_modifier", "remove_modifier"}

\* One record for the five shapes: a field an action does not have is unused.
Operation == [action : Action, line : LineId, qty : Nat, mods : SUBSET Modifier]

emptyCart(device, table) ==
    [version |-> 0, items |-> {}, device |-> device, table |-> table,
     confirmed |-> FALSE]

HasLine(items, id) == \E l \in items : l.id = id

\* Whether an operation applies to these lines.
Accepts(items, op, offered) ==
    CASE op.action = "add_item" -> offered
      [] op.action = "remove_item" -> HasLine(items, op.line)
      [] op.action = "update_quantity" -> HasLine(items, op.line) /\ op.qty > 0
      [] OTHER -> HasLine(items, op.line) /\ offered

Edit(items, id, Change(_)) == {IF l.id = id THEN Change(l) ELSE l : l \in items}

\* The lines after an accepted operation; newLine is the id an added line gets.
applyOperation(items, op, newLine) ==
    LET setQty(l) == [l EXCEPT !.qty = op.qty]
        addMods(l) == [l EXCEPT !.mods = @ \cup op.mods]
        dropMods(l) == [l EXCEPT !.mods = @ \ op.mods]
    IN  CASE op.action = "add_item" -> items \cup {[id |-> newLine, qty |-> op.qty, mods |-> op.mods]}
          [] op.action = "remove_item" -> {l \in items : l.id # op.line}
          [] op.action = "update_quantity" -> Edit(items, op.line, setQty)
          [] op.action = "add_modifier" -> Edit(items, op.line, addMods)
          [] op.action = "remove_modifier" -> Edit(items, op.line, dropMods)
=============================================================================
