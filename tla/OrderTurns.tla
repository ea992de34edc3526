------------------------------ MODULE OrderTurns ------------------------------
(***************************************************************************)
(* The understanding of a cart's utterances (src/ordering/): the turn      *)
(* queue, the graph of one turn with the channels its checkpointer keeps   *)
(* between turns, the outcome, and the proposal's way to the cart's lock.  *)
(* The queue and the lock are the FIFO that KeyedLock implements.  What    *)
(* the LLM answers and what the tools return is any of the shapes the code *)
(* tells apart; a text is only who wrote it, an item only its key.         *)
(***************************************************************************)
EXTENDS Naturals, Sequences, SequencesExt

CONSTANTS Turns,          \* bound: final transcripts of the cart
          Key,            \* menu_item_keys
          maxAgentSteps, maxHistoryTurns,
          BatchSize,      \* bound: tool calls in one answer of the LLM
          Nothing         \* an absent output, reply, language or failure

ASSUME SizesAssumption ==
    Turns \in Nat /\ maxAgentSteps \in Nat /\ maxHistoryTurns \in Nat \ {0} /\ BatchSize \in Nat

\* Turns are numbered as their transcripts arrive, whoever spoke them.
Turn == 1..Turns

VARIABLES turn, turnAhead,    \* CartTurnQueue
          apply, applyAhead,  \* the cart's lock
          node,               \* the graph node of the running turn
          ch,                 \* the channels, kept by the checkpointer
          history,            \* the history channel
          outcome,            \* outcome[t]: what t dispatched
          cart,               \* the turns whose proposal was committed
          seen,               \* history: seen[t] is the cart t was understood against
          hops                \* history: supersteps of the running turn

vars == <<turn, turnAhead, apply, applyAhead, node, ch, history, outcome, cart, seen, hops>>

Queue == INSTANCE FifoMutex WITH
    Call <- Turn, Key <- {"cart"}, KeyOf <- [t \in Turn |-> "cart"],
    phase <- turn, ahead <- turnAhead
Lock == INSTANCE FifoMutex WITH
    Call <- Turn, Key <- {"cart"}, KeyOf <- [t \in Turn |-> "cart"],
    phase <- apply, ahead <- applyAhead

\* Who wrote a text: the agent of a turn, in the i-th call of its last batch,
\* or (0) in an answer without a call.
Author == Turn \X (0..BatchSize)

ASSUME NothingAssumption == Nothing \notin Author \cup {"agent_step_limit", "agent_no_terminal"}

\* A call the agent asks for.  A proposal may bundle a reply, which may declare
\* its language and the items it names.
Ask == [tool : {"search_menu", "propose_cart"}, says : BOOLEAN, lang : BOOLEAN, names : SUBSET Key]
Asks == {a \in Ask : /\ a.says => a.tool = "propose_cart"
                     /\ (a.lang \/ a.names # {}) => a.says}

Channels ==
    [intent : {"service", "junk"},
     output : Author \cup {Nothing}, reply : Author \cup {Nothing},
     reply_language : Author \cup {Nothing},
     calls : UNION {[1..n -> Asks] : n \in 0..BatchSize},  \* of the last agent message
     agent_steps : 0..maxAgentSteps,
     search_results : SUBSET (Turn \X Key),                \* an item, and the turn that found it
     mentioned_items : SUBSET (Turn \X Key),
     failure_reason : {Nothing, "agent_step_limit", "agent_no_terminal"}]

Outcome ==
    [status : {"none", "junk", "fail", "reply", "complete"},
     output : Author \cup {Nothing}, reply : Author \cup {Nothing},
     language : Author \cup {Nothing}, mentioned : SUBSET (Turn \X Key),
     reason : {Nothing, "agent_step_limit", "agent_no_terminal", "llm_rate_limited",
               "order_parse_failed"}]

Node == {"idle", "classify", "load_cart", "agent", "tools", "finalize", "interpret"}

TypeOK ==
    /\ Queue!TypeOK /\ Lock!TypeOK
    /\ node \in Node
    /\ ch \in Channels
    /\ history \in Seq([turn : Turn, agent_reply : Author \cup {Nothing}])
    /\ Len(history) <= maxHistoryTurns
    /\ outcome \in [Turn -> Outcome]
    /\ cart \in Seq(Turn)
    /\ seen \in [Turn -> SUBSET Turn]
    /\ hops \in Nat

cleared == [intent |-> "service", output |-> Nothing, reply |-> Nothing,
            reply_language |-> Nothing, calls |-> <<>>, agent_steps |-> 0,
            search_results |-> {}, mentioned_items |-> {}, failure_reason |-> Nothing]

quiet == [status |-> "none", output |-> Nothing, reply |-> Nothing, language |-> Nothing,
          mentioned |-> {}, reason |-> Nothing]

Init ==
    /\ Queue!Init /\ Lock!Init
    /\ node = "idle"
    /\ ch = cleared
    /\ history = <<>>
    /\ outcome = [t \in Turn |-> quiet]
    /\ cart = <<>>
    /\ seen = [t \in Turn |-> {}]
    /\ hops = 0

Now == CHOOSE t \in Turn : turn[t] = "running"

-----------------------------------------------------------------------------
(* The queue in front of the graph *)

\* stt.final_transcript.received
handleFinalTranscript(t) ==
    /\ \A u \in Turn : u < t => turn[u] # "idle"
    /\ Queue!Queue(t)
    /\ UNCHANGED <<apply, applyAhead, node, ch, history, outcome, cart, seen, hops>>

\* One superstep of the graph: a patch of the channels, and the next node.
Superstep(patched, next) ==
    /\ ch' = patched
    /\ node' = next
    /\ hops' = hops + 1
    /\ UNCHANGED <<turn, turnAhead, apply, applyAhead, outcome, cart>>

\* Mutant: the terminal outcomes are not cleared.
normalizeKeepsReply(t) ==
    /\ node = "idle"
    /\ Queue!Enter(t)
    /\ ch' = [cleared EXCEPT !.intent = ch.intent, !.reply = ch.reply, !.output = ch.output]
    /\ node' = "classify"
    /\ hops' = 1
    /\ UNCHANGED <<apply, applyAhead, history, outcome, cart, seen>>

\* The turn's invocation: what an earlier one left in the channels is cleared.
normalize(t) ==
    /\ node = "idle"
    /\ Queue!Enter(t)
    /\ ch' = [cleared EXCEPT !.intent = ch.intent]
    /\ node' = "classify"
    /\ hops' = 1
    /\ UNCHANGED <<apply, applyAhead, history, outcome, cart, seen>>

-----------------------------------------------------------------------------
(* The graph *)

\* Mutant: an answer is put to the junk gate like any utterance.
classifyAll ==
    /\ node = "classify"
    /\ \E intent \in {"service", "junk"} :
          Superstep([ch EXCEPT !.intent = intent],
                    IF intent = "junk" THEN "interpret" ELSE "load_cart")
    /\ UNCHANGED <<history, seen>>

answering == history # <<>> /\ Last(history).agent_reply # Nothing

\* The junk gate.  An utterance that may answer a reply passes unasked; a
\* classifier that fails says "service".
classify ==
    /\ node = "classify"
    /\ \E intent \in IF answering THEN {"service"} ELSE {"service", "junk"} :
          Superstep([ch EXCEPT !.intent = intent],
                    IF intent = "junk" THEN "interpret" ELSE "load_cart")
    /\ UNCHANGED <<history, seen>>

load_cart ==
    /\ node = "load_cart"
    /\ seen' = [seen EXCEPT ![Now] = Range(cart)]
    /\ Superstep(ch, "agent")
    /\ UNCHANGED history

\* The declared items that a search of this turn returned.
resolveMentionedItems(names, known) == {item \in known : item[2] \in names}

\* Mutant: the steps are not counted.
agentUncounted ==
    /\ node = "agent"
    /\ \E n \in 1..BatchSize : \E asks \in [1..n -> Asks] :
          Superstep([ch EXCEPT !.calls = asks], "tools")
    /\ UNCHANGED <<history, seen>>

\* One answer of the LLM: it speaks, says nothing usable, or asks for tools.
agent ==
    LET stepped == [ch EXCEPT !.agent_steps = @ + 1, !.calls = <<>>] IN
    /\ node = "agent"
    /\ \/ /\ ch.agent_steps = maxAgentSteps
          /\ Superstep([ch EXCEPT !.failure_reason = "agent_step_limit"], "finalize")
       \/ /\ ch.agent_steps < maxAgentSteps
          /\ \/ \E lang \in {Nothing, <<Now, 0>>}, names \in SUBSET Key :
                   Superstep([stepped EXCEPT !.reply = <<Now, 0>>, !.reply_language = lang,
                                 !.mentioned_items =
                                     resolveMentionedItems(names, ch.search_results)],
                             "finalize")
             \/ Superstep([stepped EXCEPT !.failure_reason = "agent_no_terminal"], "finalize")
             \/ \E n \in 1..BatchSize : \E asks \in [1..n -> Asks] :
                   Superstep([stepped EXCEPT !.calls = asks], "tools")
    /\ UNCHANGED <<history, seen>>

\* What a call returns: the items of a search, acceptance of a proposal, or a
\* tool error for the agent to retry.
Result == [ok : BOOLEAN, items : SUBSET Key]

Possible(ask) == {r \in Result : r.items # {} => r.ok /\ ask.tool = "search_menu"}

\* The channels after the i-th call: the last proposal that is accepted sets
\* the output, the last that speaks the reply, the last that declares one the
\* language.
ran(patched, ask, result, i) ==
    CASE ~result.ok -> patched
      [] result.ok /\ ask.tool = "search_menu" ->
            [patched EXCEPT !.search_results =
                {item \in @ : item[2] \notin result.items} \cup ({Now} \X result.items)]
      [] OTHER ->
            [patched EXCEPT !.output = <<Now, i>>,
                            !.reply = IF ask.says THEN <<Now, i>> ELSE @,
                            !.reply_language = IF ask.lang THEN <<Now, i>> ELSE @,
                            !.mentioned_items =
                                IF ask.says THEN resolveMentionedItems(ask.names, patched.search_results)
                                ELSE @]

runTools ==
    /\ node = "tools"
    /\ \E result \in [DOMAIN ch.calls -> Result] :
          /\ \A i \in DOMAIN ch.calls : result[i] \in Possible(ch.calls[i])
          /\ LET step(patched, i) == ran(patched, ch.calls[i], result[i], i)
                 patched == FoldLeft(step, ch, [i \in DOMAIN ch.calls |-> i])
             IN  Superstep(patched, IF patched.output # Nothing THEN "finalize" ELSE "agent")
    /\ UNCHANGED <<history, seen>>

\* The turn is appended; the oldest beyond the cap are dropped.
mergeHistory(prev, next) ==
    LET all == prev \o next IN
    SubSeq(all, IF Len(all) > maxHistoryTurns THEN Len(all) - maxHistoryTurns + 1 ELSE 1, Len(all))

finalize ==
    /\ node = "finalize"
    /\ history' = mergeHistory(history, <<[turn |-> Now, agent_reply |-> ch.reply]>>)
    /\ Superstep(ch, "interpret")
    /\ UNCHANGED seen

-----------------------------------------------------------------------------
(* The outcome *)

\* OrderGraph.interpret
interpret ==
    LET spoken == [quiet EXCEPT !.reply = ch.reply,
                      !.language = IF ch.reply = Nothing THEN Nothing ELSE ch.reply_language,
                      !.mentioned = IF ch.reply = Nothing THEN {} ELSE ch.mentioned_items]
    IN  CASE ch.intent = "junk" -> [quiet EXCEPT !.status = "junk"]
          [] ch.intent # "junk" /\ ch.failure_reason # Nothing ->
                [quiet EXCEPT !.status = "fail", !.reason = ch.failure_reason]
          [] OTHER -> [spoken EXCEPT !.status = IF ch.output # Nothing THEN "complete" ELSE "reply",
                                     !.output = ch.output]

\* The turn's outcome is emitted; a proposal asks for the cart's lock, in the
\* same step, and nobody awaits its application.
Dispatch(result) ==
    LET t == Now IN
    /\ outcome' = [outcome EXCEPT ![t] = result]
    /\ IF result.status = "complete" THEN Lock!Queue(t) ELSE UNCHANGED <<apply, applyAhead>>
    /\ Queue!Leave(t)
    /\ node' = "idle"
    /\ hops' = 0
    /\ UNCHANGED <<ch, history, cart, seen>>

dispatch == node = "interpret" /\ Dispatch(interpret)

\* A node throws: the LLM has no capacity, or it, the menu or the cart's store
\* fails.  The channels stay what the last node made of them.
NodeThrows ==
    /\ node \in {"load_cart", "agent", "tools"}
    /\ node = "agent" => ch.agent_steps < maxAgentSteps
    /\ \E reason \in {"order_parse_failed"} \cup (IF node = "agent" THEN {"llm_rate_limited"} ELSE {}) :
          Dispatch([quiet EXCEPT !.status = "fail", !.reason = reason])

\* CartController.applyProposal, in the cart's lock: committed, or not.
applyProposal(t) ==
    /\ \/ Lock!Enter(t) /\ UNCHANGED cart
       \/ Lock!Leave(t) /\ cart' \in {cart, Append(cart, t)}
    /\ UNCHANGED <<turn, turnAhead, node, ch, history, outcome, seen, hops>>

Graph == (\E t \in Turn : normalize(t)) \/ classify \/ load_cart \/ agent \/ runTools \/ finalize
             \/ dispatch \/ NodeThrows

Next == Graph \/ \E t \in Turn : handleFinalTranscript(t) \/ applyProposal(t)

\* Every call of a provider answers or times out, so every node ends.
Spec == Init /\ [][Next]_vars /\ WF_vars(Graph) /\ \A t \in Turn : WF_vars(applyProposal(t))

-----------------------------------------------------------------------------
(* Safety *)

Written(t) == {outcome[t].output, outcome[t].reply, outcome[t].language} \ {Nothing}

(* What a turn proposes and says was written by its own agent: nothing that an
   earlier turn, ended or thrown out of any node, left in the checkpointer.
   The items of a reply were returned by a search of the same turn: never
   invented, never from the menu an earlier turn saw. *)
OutcomeIsOwn ==
    \A t \in Turn :
        /\ \A text \in Written(t) : text[1] = t
        /\ \A item \in outcome[t].mentioned : item[1] = t
        /\ outcome[t].status = "complete" <=> outcome[t].output # Nothing
        /\ outcome[t].status = "reply" => outcome[t].reply # Nothing

(* The bound on agent steps is reached before LangGraph's on supersteps, and
   the turn ends in words, not in a GraphRecursionError: with the code's 8
   steps a turn takes at most 21 supersteps, and LangGraph allows 25. *)
WithinRecursionLimit == hops <= 2 * maxAgentSteps + 5

(* Whoever the backend spoke to is heard: the utterance after a reply is not
   dropped by the junk gate. *)
AnswersAreHeard ==
    \A t \in Turn : t > 1 /\ outcome[t - 1].reply # Nothing => outcome[t].status # "junk"

(* The cart holds the proposals in the order the utterances were spoken, over
   two queues and whatever the LLM took for each. *)
CommitsInOrder == \A i, j \in DOMAIN cart : i < j => cart[i] < cart[j]

-----------------------------------------------------------------------------
(* What comments say and the code does not do *)

(* "Turn 2 sees turn 1's result and loads a fresh base_version"
   (cart-turn-queue.ts): a turn loads the cart when every proposal of the
   turns before it is applied. *)
TurnSeesPrevious ==
    [][load_cart => \A u \in Turn : apply[u] \notin {"waiting", "running"}]_vars

(* "Both are written by the SAME terminal propose_cart" (order-graph.ts). *)
ReplyConfirmsProposal ==
    \A t \in Turn : outcome[t].output # Nothing /\ outcome[t].reply # Nothing
                        => outcome[t].reply = outcome[t].output

(* "A turn that committed operations (or failed) records only its utterance"
   (build-graph.ts). *)
CommitKeepsUtteranceOnly ==
    \A i \in DOMAIN history :
        outcome[history[i].turn].status = "complete" => history[i].agent_reply = Nothing
=============================================================================
