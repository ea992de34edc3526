-------------------------- MODULE MCCartController --------------------------
(***************************************************************************)
(* Small instances of CartController: calls about one cart.                *)
(***************************************************************************)
EXTENDS CartController, TLC

CONSTANTS join1, join2,             \* ensureCart: two devices, one of them untabled
          apply1, replay1, apply2,  \* applyProposal; replay1 delivers req1 again
          confirm1, confirm2,
          cart1, req1, req2, dev1, dev2, table1, mod1

\* Two devices join one cart; requests, a replay and a confirmation race on it.
RacingCalls == {join1, join2, apply1, replay1, apply2, confirm1}

\* A confirmation that is tried again after a failure, with an edit in between.
RetryCalls == {join1, apply1, apply2, confirm1, confirm2}

MCKind == [c \in Call |-> CASE c \in {join1, join2} -> "ensure"
                            [] c \in {apply1, replay1, apply2} -> "apply"
                            [] c \in {confirm1, confirm2} -> "confirm"]
MCCartOf == [c \in Call |-> cart1]
MCRequestOf == [c \in Call |-> IF c = apply2 THEN req2 ELSE req1]
MCDeviceOf == [c \in Call |-> IF c = join2 THEN dev2 ELSE dev1]
MCTableOf == [c \in Call |-> IF c = join2 THEN None ELSE table1]

op(action, line, qty, mods) == [action |-> action, line |-> line, qty |-> qty, mods |-> mods]

\* The second request edits the line the first one adds, and adds one itself.
line1 == <<apply1, 1>>
MCOps ==
    [r \in {req1, req2} |->
        IF r = req1 THEN <<op("add_item", line1, 1, {})>>
                    ELSE <<op("update_quantity", line1, 2, {}), op("add_item", line1, 1, {mod1})>>]
=============================================================================
