---------------------------- MODULE MCAgentTools ----------------------------
(* The two tools of the agent.  They share no state: in a behaviour one is   *)
(* called and the other stays as it is.                                      *)
(*                                                                           *)
(* propose_cart: one required group g with two choices, an extra x of another *)
(* group, and a key y that is no option.                                     *)
EXTENDS RequiredModifiers, MenuSearch

CONSTANTS a, b, x, y, g, h

MCGroupOf == (a :> g) @@ (b :> g) @@ (x :> h)

MCAttribute == (g :> [display |-> "radio", live |-> TRUE, line |-> TRUE])
                 @@ (h :> [display |-> "radio", live |-> FALSE, line |-> TRUE])

LineEdits == [action : {"add_modifier", "remove_modifier"}, line : {L}, key : {a, b, x}]
            \union { [action |-> "remove_item", line |-> L], [action |-> "add_modifier", line |-> L, key |-> y],
                     [action |-> "add_modifier", line |-> <<1, 1>>, key |-> b] }
Additions == [action : {"add_item"}, mods : { <<>>, <<a>>, <<a, b>>, <<a, x>> }]
Adds(key) == [action |-> "add_modifier", line |-> L, key |-> key]
Removes(key) == [action |-> "remove_modifier", line |-> L, key |-> key]
Swaps == { Adds(a), Adds(b), Removes(a), Removes(b), [action |-> "remove_item", line |-> L] }

\* The first turn's batches are few, the second's, which it may overtake, many.
MCBatches ==
  <<{ <<Adds(a)>>, <<Removes(a)>>, <<Removes(a), Adds(b)>>, <<Adds(x)>>,
      <<[action |-> "remove_item", line |-> L], [action |-> "add_item", mods |-> <<a>>]>> },
    [1..3 -> Swaps] \union UNION { [1..n -> LineEdits \union Additions] : n \in 1..2 }>>
MCChoices == { <<>>, <<a, b>>, <<a, x>> }

(* search_menu: similarities to the phrases 1 and 2.  The last dish has more *)
(* names than KNN_ROW_OVERFETCH, and ties with the second and the third.     *)
Known(names, near, worded, extras) == [names |-> names, near |-> near, worded |-> worded, extras |-> extras]
Sells(price, available, qty) == [price |-> price, available |-> available, qty |-> qty]
MCDishes == <<
  Known(<< <<90, 10>>, <<85, 12>> >>, <<30, 5>>, {}, <<0, 0>>) @@ Sells(1, TRUE, 5),
  Known(<< <<80, 20>>, <<78, 22>> >>, <<90, 10>>, {1}, <<0, 0>>) @@ Sells(2, TRUE, 0),
  Known(<< <<20, 70>> >>, <<10, 95>>, {2}, <<0, 0>>) @@ Sells(1, TRUE, 9),
  Known(<< <<5, 3>> >>, <<2, 2>>, {}, <<0, 0>>) @@ Sells(3, TRUE, 20),
  Known(<<>>, <<90, 90>>, {1}, <<0, 0>>) @@ Sells(1, TRUE, 30),
  Known(<< <<60, 55>>, <<62, 50>> >>, <<50, 40>>, {1, 2}, <<70, 0>>) @@ Sells(2, FALSE, 7),
  Known(<< <<40, 0>>, <<15, 1>> >>, <<20, 0>>, {}, <<0, 65>>) @@ Sells(3, TRUE, -2),
  Known(<< <<80, 20>>, <<79, 70>>, <<77, 69>> >>, <<90, 10>>, {}, <<0, 0>>) @@ Sells(2, TRUE, 9) >>
\* A scan of the index comes to every row, or not to the first of 1, or to none of 2.
MCMissed == { {}, {<<1, 1>>}, {<<2, 1>>, <<2, 2>>} }
MCMenus ==
  { [i \in 1..3 |-> MCDishes[m[i]]] :
      m \in { <<1, 2, 3>>, <<1, 2, 8>>, <<2, 3, 8>>, <<3, 4, 5>>, <<4, 5, 7>>, <<2, 6, 7>> } }

Asked(limit, min, max) == [limit |-> limit, min |-> min, max |-> max]
MCAsked == { Asked(Absent, Absent, Absent), Asked(1, Absent, Absent), Asked(3, Absent, 2), Asked(Absent, 2, Absent) }
MCSearches ==
  { [query |-> ps # {}, phrases |-> ps, sort |-> s] @@ q : ps \in SUBSET {1, 2}, s \in {Absent, "popularity"}, q \in MCAsked }
  \union { [query |-> TRUE, phrases |-> {}, sort |-> s] @@ Asked(1, Absent, Absent) : s \in {Absent, "popularity"} }

MCMenu == CHOOSE m \in MCMenus : TRUE
MCSearch == CHOOSE s \in MCSearches : TRUE

VARIABLE tool
MCInit ==
  /\ ModifiersInit /\ SearchInit
  /\ \/ tool = "search_menu" /\ lines = (L :> <<>>)
     \/ tool = "propose_cart" /\ menu = MCMenu /\ search = MCSearch
MCNext ==
  /\ UNCHANGED tool
  /\ \/ tool = "propose_cart" /\ ModifiersNext /\ UNCHANGED searchVars
     \/ tool = "search_menu" /\ SearchNext /\ UNCHANGED modifierVars
MCSpec == MCInit /\ [][MCNext]_<<tool, modifierVars, searchVars>>
=============================================================================
