------------------------- MODULE RequiredModifiers -------------------------
(***************************************************************************)
(* Required option groups ("pick exactly one"): the check a proposal goes  *)
(* through in the agent's turn, and what the cart later makes of the same  *)
(* batch.  The check simulates the batch on the view the turn started      *)
(* from; the cart applies it, one operation at a time, to the cart and the *)
(* menu as they are by then.  All lines are of one product.                *)
(***************************************************************************)
EXTENDS Naturals, Sequences, FiniteSetsExt, SequencesExt, Functions

CONSTANTS CartTurns,        \* the turns on one cart, 1..n, in the order of its queue
          Option, Group,    \* options of the product, and their groups
          ModifierKey,      \* the keys the agent may name, of an option or not
          GroupOf,          \* the group of each option, NoGroup for a plain extra
          NoGroup,
          Attribute,        \* what Odoo has of each group: display type, live, on a line
          Batches,          \* Batches[t]: what the agent may propose in turn t
          InitialChoices,   \* what the line may hold at the start
          Withdrawn         \* the options the menu may withdraw at any time

VARIABLES lines,     \* lines[id]: the options of a line, in the order chosen
          offered,   \* the options the menu offers now
          view,      \* view[t]: the lines and the options turn t saw at its start
          batch, known, pc

modifierVars == <<lines, offered, view, batch, known, pc>>

ASSUME ModifierAssumption ==
  /\ GroupOf \in [Option -> Group \union {NoGroup}]
  /\ NoGroup \notin Group
  /\ Attribute \in [Group -> [display : {"null", "multi", "radio"}, live : BOOLEAN, line : BOOLEAN]]
  /\ Withdrawn \subseteq Option
  /\ Option \subseteq ModifierKey

(* Of a required group exactly one option is due.  Odoo has no column for   *)
(* it; data that is missing or archived makes no group required.            *)
Required == { g \in Group : Attribute[g].display \notin {"null", "multi"} /\ Attribute[g].live /\ Attribute[g].line }

L == <<0, 1>>   \* the line that is there at the start; operation i of turn t adds <<t, i>>
Gone == [id \in {} |-> <<>>]

(* What the agent may propose, but for quantities, which no group counts.   *)
Edit == [action : {"add_modifier", "remove_modifier"}, line : Nat \X Nat, key : ModifierKey]
          \union [action : {"remove_item"}, line : Nat \X Nat]
Operation == Edit \union [action : {"add_item"}, mods : Seq(ModifierKey)]

ASSUME BatchAssumption ==
  /\ CartTurns \subseteq Nat \ {0}
  /\ InitialChoices \subseteq Seq(ModifierKey)
  /\ Batches \in [CartTurns -> SUBSET Seq(Operation)]

\* The keys that are in S, in their order.
Only(keys, S) ==
  LET kept[i \in 0..Len(keys)] ==
        IF i = 0 THEN <<>>
        ELSE IF keys[i] \in S THEN Append(kept[i - 1], keys[i]) ELSE kept[i - 1]
  IN kept[Len(keys)]

Drop(keys, key) == Only(keys, Range(keys) \ {key})
Without(f, id) == [i \in DOMAIN f \ {id} |-> f[i]]
WithLine(f, id, keys) == [i \in DOMAIN f \union {id} |-> IF i = id THEN keys ELSE f[i]]

-----------------------------------------------------------------------------
(* The check.                                                              *)

(* The required groups among these groups that do not hold exactly one of  *)
(* the options; a key that is not an option is the cart's to refuse.       *)
Count(keys, options, g) == Cardinality({ i \in DOMAIN keys : keys[i] \in options /\ GroupOf[keys[i]] = g })
RequiredIn(options) == Required \cap { GroupOf[o] : o \in options }
\* Mutant: only an empty group is reported, not one with two choices.
checkAtLeastOne(keys, options, groups) ==
  { g \in RequiredIn(options) \cap groups : Count(keys, options, g) = 0 }

checkExactlyOne(keys, options, groups) ==
  { g \in RequiredIn(options) \cap groups : Count(keys, options, g) # 1 }

(* One edit on the state of a line.                                        *)
Touch(st, o, options) == IF o \in options THEN st.touched \union {GroupOf[o]} ELSE st.touched

simulate(st, op, options) ==
  CASE op.action = "add_modifier" ->
         [st EXCEPT !.touched = Touch(st, op.key, options),
                    !.keys = IF op.key \in Range(@) THEN @ ELSE Append(@, op.key)]
    [] op.action = "remove_modifier" ->
         [st EXCEPT !.touched = Touch(st, op.key, options), !.keys = Drop(@, op.key)]
    [] op.action = "remove_item" -> [st EXCEPT !.removed = TRUE]

Edits(op, id) == op.action # "add_item" /\ op.line = id

LineState(ops, v, id) ==
  LET st[i \in 0..Len(ops)] ==
        IF i = 0 THEN [keys |-> v.lines[id], touched |-> {}, removed |-> FALSE]
        ELSE IF Edits(ops[i], id) THEN simulate(st[i - 1], ops[i], v.options) ELSE st[i - 1]
  IN st[Len(ops)]

(* An added line is judged on every group, an edited one on the groups the *)
(* batch touched, a removed one not at all; an item the menu did not       *)
(* resolve, or does not sell, is not judged either.                        *)
AddViolations(ops, menu, found) ==
  { at \in (DOMAIN ops) \X Required :
      /\ ops[at[1]].action = "add_item" /\ found = "sold"
      /\ at[2] \in checkExactlyOne(ops[at[1]].mods, menu, Required) }

\* Mutant: an edited line is judged on all its groups.
EditViolationsAll(ops, v) ==
  { at \in (DOMAIN v.lines) \X Required :
      LET st == LineState(ops, v, at[1]) IN
      ~st.removed /\ st.touched # {} /\ at[2] \in checkExactlyOne(st.keys, v.options, Required) }

EditViolations(ops, v) ==
  { at \in (DOMAIN v.lines) \X Required :
      LET st == LineState(ops, v, at[1]) IN
      ~st.removed /\ at[2] \in checkExactlyOne(st.keys, v.options, st.touched) }

findRequiredModifierViolations(ops, v, menu, found) ==
  <<AddViolations(ops, menu, found), EditViolations(ops, v)>>

Compliant == <<{}, {}>>

-----------------------------------------------------------------------------
(* The cart.  An operation that cannot be applied is rejected and skipped; *)
(* the others of its batch are applied.                                    *)
WithOption(keys, key) == IF key \in Range(keys) THEN keys ELSE Append(keys, key)

applyOperation(ls, op, id, read) ==
  CASE op.action = "add_item" ->
         IF read.sold /\ Range(op.mods) \subseteq read.options THEN WithLine(ls, id, op.mods) ELSE ls
    [] op.action = "remove_item" -> Without(ls, op.line)
    [] op.action = "add_modifier" ->
         IF op.line \in DOMAIN ls /\ op.key \in read.options
         THEN [ls EXCEPT ![op.line] = WithOption(@, op.key)] ELSE ls
    [] op.action = "remove_modifier" ->
         IF op.line \in DOMAIN ls /\ op.key \in read.options
         THEN [ls EXCEPT ![op.line] = Drop(@, op.key)] ELSE ls

(* Each operation reads the menu anew: reads[i] has the options operation i *)
(* finds, and whether it finds the item on sale.                            *)
applyBatch(t, ls, ops, reads) ==
  LET acc[i \in 0..Len(ops)] ==
        IF i = 0 THEN ls ELSE applyOperation(acc[i - 1], ops[i], <<t, i>>, reads[i])
  IN acc[Len(ops)]

-----------------------------------------------------------------------------
ModifiersInit ==
  /\ \E keys \in InitialChoices : lines = [id \in {L} |-> keys]
  /\ offered = Option
  /\ view = [t \in CartTurns |-> [lines |-> Gone, options |-> {}]]
  /\ batch = [t \in CartTurns |-> <<>>]
  /\ known = [t \in CartTurns |-> "none"]
  /\ pc = [t \in CartTurns |-> "queued"]

Over(t) == pc[t] \in {"passed", "asked", "applied"}

(* The view a turn works from: an option the menu no longer offers is       *)
(* dropped from it.  The turn before has ended; its batch may be unapplied. *)
buildCartView(t) ==
  /\ pc[t] = "queued" /\ \A u \in CartTurns : u < t => Over(u)
  /\ pc' = [pc EXCEPT ![t] = "viewing"]
  /\ view' = [view EXCEPT ![t] =
       [lines |-> [id \in DOMAIN lines |-> Only(lines[id], offered)],
        options |-> offered]]
  /\ UNCHANGED <<lines, offered, batch, known>>

(* propose_cart: the items named are looked up now, and a lookup that fails *)
(* or finds nothing leaves them unjudged.  A line has its id from when the   *)
(* cart adds it: no edit is of a line its own batch adds.                   *)
propose_cart(t) ==
  /\ pc[t] = "viewing"
  /\ \E ops \in Batches[t] : \E found \in {"sold", "unavailable", "unknown"} :
       /\ \A i \in DOMAIN ops : ops[i].action # "add_item" => ops[i].line[1] # t
       /\ (found # "sold") => \E i \in DOMAIN ops : ops[i].action = "add_item"
       /\ batch' = [batch EXCEPT ![t] = ops]
       /\ known' = [known EXCEPT ![t] = found]
       /\ pc' = [pc EXCEPT ![t] =
            IF findRequiredModifierViolations(ops, view[t], offered, found) = Compliant
            THEN "passed" ELSE "asked"]
  /\ UNCHANGED <<lines, offered, view>>

(* The cart takes the batches that passed, in their order.  Meanwhile option *)
(* o may be withdrawn before operation from[o], and the item is on sale for  *)
(* some of the operations, not for others.                                   *)
commitBatch(t) ==
  /\ pc[t] = "passed" /\ \A u \in CartTurns : u < t => pc[u] # "passed"
  /\ \E from \in [offered \cap Withdrawn -> 1..Len(batch[t]) + 1], sold \in SUBSET DOMAIN batch[t] :
       LET left(i) == { o \in offered : o \in Withdrawn => i < from[o] } IN
       /\ lines' = applyBatch(t, lines, batch[t],
                     [i \in DOMAIN batch[t] |-> [options |-> left(i), sold |-> i \in sold]])
       /\ offered' = left(Len(batch[t]))
  /\ pc' = [pc EXCEPT ![t] = "applied"]
  /\ UNCHANGED <<view, batch, known>>

(* An option is withdrawn: the menu is read at every use.                   *)
menuChanges(o) ==
  /\ o \in offered
  /\ offered' = offered \ {o}
  /\ UNCHANGED <<lines, view, batch, known, pc>>

ModifiersNext ==
  \/ \E t \in CartTurns : buildCartView(t) \/ propose_cart(t) \/ commitBatch(t)
  \/ \E o \in Withdrawn : menuChanges(o)

ModifiersSpec == ModifiersInit /\ [][ModifiersNext]_modifierVars

-----------------------------------------------------------------------------
(* The groups the batch is about: those its edits name an offered option of, *)
(* and all of them for a line it adds.                                       *)
Named(t, id) ==
  IF id[1] = t THEN IF known[t] = "sold" THEN Required ELSE {}
  ELSE { GroupOf[batch[t][i].key] : i \in { j \in DOMAIN batch[t] :
           /\ batch[t][j].action \in {"add_modifier", "remove_modifier"}
           /\ batch[t][j].line = id /\ batch[t][j].key \in view[t].options } }

OfGroup(options, g) == { o \in options : GroupOf[o] = g }

(* A group of a line is still as turn t saw it: the same options of it are   *)
(* offered to the last operation, and the line held the same of them before   *)
(* the first.                                                                *)
AsSeen(t, id, g) ==
  /\ OfGroup(offered', g) = OfGroup(view[t].options, g)
  /\ id[1] # t =>
       /\ id \in DOMAIN lines \cap DOMAIN view[t].lines
       /\ Only(lines[id], OfGroup(offered', g)) = Only(view[t].lines[id], OfGroup(offered', g))

(* A batch that passed the check, applied by the cart operation by operation *)
(* and with its rejections skipped, leaves exactly one choice in every       *)
(* required group of the lines it adds, and of the lines it edits as far as  *)
(* it touches them: simulation and cart agree (swaps, repeated options,      *)
(* lines removed half-way).  Another turn or the back office can upset only  *)
(* the very groups of the very lines they changed since the view was taken.  *)
AppliedBatchIsWhole ==
  [][\A t \in CartTurns : (pc[t] = "passed" /\ pc'[t] = "applied") =>
       \A id \in DOMAIN lines' : \A g \in RequiredIn(offered') \cap Named(t, id) :
         AsSeen(t, id, g) => Count(lines'[id], offered', g) = 1]_modifierVars

(* The same of every group, whoever changed it: what the check is for, and    *)
(* what the code does not achieve.                                           *)
EveryBatchIsWhole ==
  [][\A t \in CartTurns : (pc[t] = "passed" /\ pc'[t] = "applied") =>
       \A id \in DOMAIN lines' : \A g \in RequiredIn(offered') \cap Named(t, id) :
         Count(lines'[id], offered', g) = 1]_modifierVars

(* The customer is asked only for a reason: a batch the check turned down     *)
(* would have left a line it names incomplete, or adds an item with an option *)
(* the item does not have, or the menu has withdrawn an option of a required  *)
(* group since the turn read it.                                             *)
Whole(t, ls) ==
  \A id \in DOMAIN ls : \A g \in RequiredIn(offered) \cap Named(t, id) : Count(ls[id], offered, g) = 1
AtOnce(t) == [i \in DOMAIN batch[t] |-> [options |-> offered, sold |-> TRUE]]
Reason(t) ==
  \/ ~Whole(t, applyBatch(t, view[t].lines, batch[t], AtOnce(t)))
  \/ \E i \in DOMAIN batch[t] : /\ batch[t][i].action = "add_item"
                               /\ ~(Range(batch[t][i].mods) \subseteq offered)
  \/ \E g \in Required : OfGroup(offered, g) # OfGroup(view[t].options, g)
AskedForAReason == [][\A t \in CartTurns : (pc[t] = "viewing" /\ pc'[t] = "asked") => Reason(t)']_modifierVars

(* Types.                                                                  *)
ModifiersTypeOK ==
  /\ lines = [id \in DOMAIN lines |-> lines[id]] /\ DOMAIN lines \subseteq Nat \X Nat
  /\ \A id \in DOMAIN lines : lines[id] \in Seq(ModifierKey)
  /\ offered \subseteq Option
  /\ DOMAIN view = CartTurns /\ \A t \in CartTurns : view[t].options \subseteq Option
  /\ batch \in [CartTurns -> Seq(Operation)]
  /\ known \in [CartTurns -> {"none", "sold", "unavailable", "unknown"}]
  /\ pc \in [CartTurns -> {"queued", "viewing", "passed", "asked", "applied"}]
=============================================================================
