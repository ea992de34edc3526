----------------------------- MODULE AgentProofs -----------------------------
(***************************************************************************)
(* The agent's turns, and the two tools it calls in them.                  *)
(*                                                                         *)
(* The turns of a cart, for any number of transcripts, calls, steps and    *)
(* keys: what a turn says is its own, it ends before LangGraph's limit,    *)
(* an answer to it is heard, and the cart keeps the order of the speakers. *)
(* The argument: turns run and leave in the order of their numbers         *)
(* (TurnsInOrder), so at most one is in the graph, and their proposals     *)
(* follow each other through the lock (ProposalsInOrder).  The one in the  *)
(* graph has only its own texts in the channels, and which it can have     *)
(* follows the node it is at (Running, Counted).  Between two turns the    *)
(* history ends with what the latest one said (AtRest).                    *)
(*                                                                         *)
(* The check, for any batches, lines and menus: what it passes is whole    *)
(* once applied wherever neither the line nor the options of the group     *)
(* changed since the turn began, whatever happened to the other groups and *)
(* lines, and what it turns down has a reason.  The argument: restricted   *)
(* to the options of one group, a line of the cart and the line of the     *)
(* simulation are the same sequence after every operation of the batch,    *)
(* though each reads the menu anew (Follows), and the count of the group   *)
(* depends on nothing else (CountSame).                                    *)
(*                                                                         *)
(* The search, for any menu, arguments, bounds and answers of the index:   *)
(* it gives the best of all that its queries returned.  The argument: what *)
(* is kept of the pages is the nearest products on them, by their best     *)
(* row (RetrievedIs); everything kept or found by a word is read           *)
(* (Hydrated), ordered by a total order, which sorts it (OrderedSorts),    *)
(* and only then cut (AnswerIsBest).                                       *)
(***************************************************************************)
EXTENDS OrderTurns, RequiredModifiers, MenuSearch, FiniteSetTheorems, SequenceTheorems, TLAPS

\* Turns run and leave in the order of their numbers.
TurnsInOrder ==
    /\ \A t, u \in Turn : u < t /\ turn[t] # "idle" => turn[u] # "idle"
    /\ \A t, u \in Turn : u < t /\ turn[t] \in {"running", "left"} => turn[u] = "left"
    /\ \A t, u \in Turn : u < t /\ turn[t] = "waiting" /\ Queue!Present(u) => u \in turnAhead[t]

\* So do their proposals, which wait for the lock from when their turn ended.
ProposalsInOrder ==
    /\ \A t \in Turn : apply[t] # "idle" => turn[t] = "left"
    /\ \A t, u \in Turn : u < t /\ Lock!Present(u) =>
          /\ apply[t] = "waiting" => u \in applyAhead[t]
          /\ apply[t] \notin {"running", "left"}
    /\ \A i \in DOMAIN cart : apply[cart[i]] = "left"

Latest(t) == turn[t] = "left" /\ \A u \in Turn : t < u => turn[u] # "left"

\* Between two turns the latest one's reply is what the history ends with.
AtRest ==
    /\ node = "idle" <=> \A t \in Turn : turn[t] # "running"
    /\ node = "idle" => \A t \in Turn : Latest(t) /\ outcome[t].reply # Nothing => answering
    /\ node = "idle" => hops = 0

Own(c, r) ==
    /\ \A text \in {c.output, c.reply, c.reply_language} \ {Nothing} : text[1] = r
    /\ \A item \in c.search_results \cup c.mentioned_items : item[1] = r

Silent(c) ==
    c.output = Nothing /\ c.reply = Nothing /\ c.reply_language = Nothing /\ c.failure_reason = Nothing

Concluded(c) == c.failure_reason # Nothing \/ c.output # Nothing \/ c.reply # Nothing

Heard(r) == r > 1 /\ outcome[r - 1].reply # Nothing

\* What the running turn r has in the channels, at each node of the graph.
Running(r) ==
    /\ Own(ch, r)
    /\ node \in {"classify", "load_cart", "agent", "tools"} => Silent(ch)
    /\ node \in {"load_cart", "agent", "tools", "finalize"} => ch.intent = "service"
    /\ node = "finalize" => Concluded(ch)
    /\ node = "interpret" /\ ch.intent = "service" =>
          Concluded(ch) /\ history # <<>> /\ Last(history).agent_reply = ch.reply
    /\ node = "classify" /\ Heard(r) => answering
    /\ node = "interpret" /\ ch.intent = "junk" => ~Heard(r)

\* The supersteps so far, at each node.
Counted ==
    /\ node = "classify" => hops = 1 /\ ch.agent_steps = 0
    /\ node = "load_cart" => hops = 2 /\ ch.agent_steps = 0
    /\ node = "agent" => hops = 2 * ch.agent_steps + 3
    /\ node = "tools" => hops = 2 * ch.agent_steps + 2
    /\ node = "finalize" => hops <= 2 * maxAgentSteps + 4
    /\ node = "interpret" => hops <= 2 * maxAgentSteps + 5

Outcomes ==
    /\ \A t \in Turn : turn[t] # "left" => outcome[t] = quiet
    /\ OutcomeIsOwn /\ AnswersAreHeard

IInv ==
    /\ TypeOK /\ TurnsInOrder /\ ProposalsInOrder /\ CommitsInOrder
    /\ AtRest /\ Counted /\ Outcomes
    /\ \A r \in Turn : turn[r] = "running" => Running(r)

Standing == {"idle", "waiting", "running", "left"}

-----------------------------------------------------------------------------
(* The two queues, as what they do to the turns. *)

LEMMA QueueTypes ==
    /\ Queue!TypeOK <=> turn \in [Turn -> Standing] /\ turnAhead \in [Turn -> SUBSET Turn]
    /\ Lock!TypeOK <=> apply \in [Turn -> Standing] /\ applyAhead \in [Turn -> SUBSET Turn]
    /\ \A t \in Turn : Queue!Present(t) <=> turn[t] \in {"waiting", "running"}
    /\ \A t \in Turn : Lock!Present(t) <=> apply[t] \in {"waiting", "running"}
  BY DEF Queue!TypeOK, Lock!TypeOK, Queue!Phase, Lock!Phase, Queue!Present, Lock!Present, Standing

LEMMA Queued ==
    ASSUME NEW t \in Turn
    PROVE  /\ Queue!Queue(t) =>
                /\ turn[t] = "idle" /\ turn' = [turn EXCEPT ![t] = "waiting"]
                /\ turnAhead' = [turnAhead EXCEPT ![t] = {u \in Turn : Queue!Present(u)}]
           /\ Lock!Queue(t) =>
                /\ apply[t] = "idle" /\ apply' = [apply EXCEPT ![t] = "waiting"]
                /\ applyAhead' = [applyAhead EXCEPT ![t] = {u \in Turn : Lock!Present(u)}]
<1>1. \A u \in Turn : [x \in Turn |-> "cart"][u] = "cart"
  OBVIOUS
<1>2. {u \in Turn : [x \in Turn |-> "cart"][u] = [x \in Turn |-> "cart"][t] /\ Queue!Present(u)}
        = {u \in Turn : Queue!Present(u)}
  BY <1>1
<1>3. {u \in Turn : [x \in Turn |-> "cart"][u] = [x \in Turn |-> "cart"][t] /\ Lock!Present(u)}
        = {u \in Turn : Lock!Present(u)}
  BY <1>1
<1> QED
  BY <1>2, <1>3 DEF Queue!Queue, Lock!Queue

LEMMA Entered ==
    ASSUME NEW t \in Turn
    PROVE  /\ Queue!Enter(t) =>
                /\ turn[t] = "waiting" /\ turnAhead[t] = {}
                /\ turn' = [turn EXCEPT ![t] = "running"] /\ turnAhead' = turnAhead
           /\ Lock!Enter(t) =>
                /\ apply[t] = "waiting" /\ applyAhead[t] = {}
                /\ apply' = [apply EXCEPT ![t] = "running"] /\ applyAhead' = applyAhead
  BY DEF Queue!Enter, Lock!Enter

LEMMA Departed ==
    ASSUME NEW t \in Turn
    PROVE  /\ Queue!Leave(t) =>
                /\ turn[t] = "running" /\ turn' = [turn EXCEPT ![t] = "left"]
                /\ turnAhead' = [u \in Turn |-> turnAhead[u] \ {t}]
           /\ Lock!Leave(t) =>
                /\ apply[t] = "running" /\ apply' = [apply EXCEPT ![t] = "left"]
                /\ applyAhead' = [u \in Turn |-> applyAhead[u] \ {t}]
  BY DEF Queue!Leave, Lock!Leave

(* The turn in the graph is one, and is the one its nodes work for. *)
LEMMA InGraph ==
    ASSUME IInv, node # "idle"
    PROVE  \E r \in Turn : /\ turn[r] = "running" /\ Now = r /\ Running(r)
                           /\ \A u \in Turn : turn[u] = "running" => u = r
                           /\ \A u \in Turn : turn[u] = "left" => u < r
<1>1. PICK r \in Turn : turn[r] = "running"
  BY DEF IInv, AtRest
<1>2. \A t, u \in Turn : u < t /\ turn[t] \in {"running", "left"} => turn[u] = "left"
  BY DEF IInv, TurnsInOrder
<1>3. \A u \in Turn : turn[u] = "running" \/ turn[u] = "left" => u = r \/ u < r
  BY <1>1, <1>2, SizesAssumption DEF Turn
<1>4. \A u \in Turn : turn[u] = "running" => u = r
  BY <1>1, <1>2, <1>3
<1>5. Now = r
  BY <1>1, <1>4 DEF Now
<1> QED
  BY <1>1, <1>3, <1>4, <1>5 DEF IInv

LEMMA InitIInv == Init => IInv
<1> SUFFICES ASSUME Init PROVE IInv
  OBVIOUS
<1>1. /\ turn = [t \in Turn |-> "idle"] /\ turnAhead = [t \in Turn |-> {}]
      /\ apply = [t \in Turn |-> "idle"] /\ applyAhead = [t \in Turn |-> {}]
      /\ node = "idle" /\ history = <<>> /\ cart = <<>> /\ hops = 0
      /\ outcome = [t \in Turn |-> quiet] /\ seen = [t \in Turn |-> {}] /\ ch = cleared
  BY DEF Init, Queue!Init, Lock!Init
<1>2. <<>> \in UNION {[1..n -> Asks] : n \in 0..BatchSize}
  <2>1. 0 \in 0..BatchSize /\ <<>> \in [1..0 -> Asks]
    BY SizesAssumption
  <2> QED
    BY <2>1
<1>3. ch \in Channels
  <2>1. 0 \in 0..maxAgentSteps
    BY SizesAssumption
  <2> QED
    BY <1>1, <1>2, <2>1 DEF cleared, Channels
<1>4. quiet \in Outcome
  BY DEF quiet, Outcome
<1>5. TypeOK
  <2>1. Queue!TypeOK /\ Lock!TypeOK
    BY <1>1, QueueTypes DEF Standing
  <2>2. Len(history) <= maxHistoryTurns
    BY <1>1, SizesAssumption
  <2>3. /\ history \in Seq([turn : Turn, agent_reply : Author \cup {Nothing}])
        /\ cart \in Seq(Turn)
    BY <1>1
  <2> QED
    BY <1>1, <1>3, <1>4, <2>1, <2>2, <2>3 DEF TypeOK, Node
<1>6. TurnsInOrder /\ ProposalsInOrder /\ CommitsInOrder
  BY <1>1, QueueTypes DEF TurnsInOrder, ProposalsInOrder, CommitsInOrder
<1>7. AtRest /\ Counted
  BY <1>1 DEF AtRest, Latest, Counted
<1>8. Outcomes
  <2>1. \A t \in Turn : outcome[t] = quiet
    BY <1>1
  <2>2. /\ quiet.output = Nothing /\ quiet.reply = Nothing /\ quiet.language = Nothing
        /\ quiet.mentioned = {} /\ quiet.status = "none"
    BY DEF quiet
  <2> QED
    BY <2>1, <2>2 DEF Outcomes, OutcomeIsOwn, AnswersAreHeard, Written
<1> QED
  BY <1>1, <1>5, <1>6, <1>7, <1>8 DEF IInv

-----------------------------------------------------------------------------
(* The queues' steps. *)

(* A transcript joins the turn queue behind all that came before it. *)
LEMMA TranscriptKeeps ==
    ASSUME IInv, NEW t \in Turn, handleFinalTranscript(t)
    PROVE  IInv'
<1>1. /\ turn[t] = "idle" /\ turn' = [turn EXCEPT ![t] = "waiting"]
      /\ turnAhead' = [turnAhead EXCEPT ![t] = {u \in Turn : Queue!Present(u)}]
      /\ \A u \in Turn : u < t => turn[u] # "idle"
      /\ UNCHANGED <<apply, applyAhead, node, ch, history, outcome, cart, seen, hops>>
  BY Queued DEF handleFinalTranscript
<1>2. TypeOK
  BY DEF IInv
<1>3. turn \in [Turn -> Standing] /\ turnAhead \in [Turn -> SUBSET Turn]
  BY <1>2, QueueTypes DEF TypeOK
<1>4. /\ \A u \in Turn : turn'[u] = IF u = t THEN "waiting" ELSE turn[u]
      /\ \A u \in Turn : turnAhead'[u] = IF u = t THEN {x \in Turn : Queue!Present(x)} ELSE turnAhead[u]
      /\ turn' \in [Turn -> Standing] /\ turnAhead' \in [Turn -> SUBSET Turn]
  BY <1>1, <1>3 DEF Standing
<1>5. TypeOK'
  <2>1. Lock!TypeOK'
    BY <1>1, <1>2 DEF TypeOK, Lock!TypeOK
  <2>2. Queue!TypeOK'
    BY <1>4 DEF Queue!TypeOK, Queue!Phase, Standing
  <2> QED
    BY <1>1, <1>2, <2>1, <2>2 DEF TypeOK
<1>6. TurnsInOrder'
  <2>1. TurnsInOrder
    BY DEF IInv
  <2>2. \A x, u \in Turn : u < x /\ turn[x] # "idle" => turn[u] # "idle"
    BY <2>1 DEF TurnsInOrder
  <2>3. \A x, u \in Turn : u < x /\ turn[x] \in {"running", "left"} => turn[u] = "left"
    BY <2>1 DEF TurnsInOrder
  <2>4. \A x, u \in Turn : u < x /\ turn[x] = "waiting" /\ turn[u] \in {"waiting", "running"} => u \in turnAhead[x]
    BY <2>1, QueueTypes DEF TurnsInOrder
  <2>5. \A x, u \in Turn : u < x /\ turn'[x] # "idle" => turn'[u] # "idle"
    BY <1>1, <1>4, <2>2
  <2>6. \A x, u \in Turn : u < x /\ turn'[x] \in {"running", "left"} => turn'[u] = "left"
    BY <1>1, <1>4, <2>3
  <2>7. \A x, u \in Turn : u < x /\ turn'[x] = "waiting" /\ turn'[u] \in {"waiting", "running"} => u \in turnAhead'[x]
    <3> SUFFICES ASSUME NEW x \in Turn, NEW u \in Turn, u < x, turn'[x] = "waiting",
                        turn'[u] \in {"waiting", "running"}
                 PROVE  u \in turnAhead'[x]
      OBVIOUS
    <3>1. x = t => u # t /\ Queue!Present(u)
      BY <1>4, QueueTypes, SizesAssumption DEF Turn
    <3>2. x # t => turn[x] = "waiting" /\ u # t
      BY <1>1, <1>4, <2>2
    <3> QED
      BY <1>4, <2>4, <3>1, <3>2
  <2> QED
    BY <2>5, <2>6, <2>7 DEF TurnsInOrder, Queue!Present
<1>7. ProposalsInOrder' /\ CommitsInOrder'
  <2>1. ProposalsInOrder /\ CommitsInOrder
    BY DEF IInv
  <2>2. \A x \in Turn : turn[x] = "left" => turn'[x] = "left"
    BY <1>1, <1>4
  <2> QED
    BY <1>1, <2>1, <2>2 DEF ProposalsInOrder, CommitsInOrder, Lock!Present
<1>8. AtRest' /\ Counted'
  <2>1. AtRest /\ Counted
    BY DEF IInv
  <2>2. \A x \in Turn : /\ turn'[x] = "left" <=> turn[x] = "left"
                        /\ turn'[x] = "running" <=> turn[x] = "running"
    BY <1>1, <1>4
  <2>3. \A x \in Turn : Latest(x)' <=> Latest(x)
    BY <2>2 DEF Latest
  <2>4. answering' <=> answering
    BY <1>1 DEF answering
  <2> QED
    BY <1>1, <2>1, <2>2, <2>3, <2>4 DEF AtRest, Counted
<1>9. Outcomes'
  <2>1. Outcomes
    BY DEF IInv
  <2>2. \A x \in Turn : turn'[x] # "left" => turn[x] # "left"
    BY <1>1, <1>4
  <2> QED
    BY <1>1, <2>1, <2>2 DEF Outcomes, OutcomeIsOwn, AnswersAreHeard, Written
<1>10. ASSUME NEW r \in Turn, turn'[r] = "running" PROVE Running(r)'
  <2>1. Running(r)
    BY <1>1, <1>4, <1>10 DEF IInv
  <2> QED
    BY <1>1, <2>1 DEF Running, Own, Silent, Concluded, Heard, answering
<1> QED
  BY <1>5, <1>6, <1>7, <1>8, <1>9, <1>10 DEF IInv

(* A step of the cart's lock. *)
LEMMA ApplyKeeps ==
    ASSUME IInv, NEW t \in Turn, applyProposal(t)
    PROVE  IInv'
<1>1. UNCHANGED <<turn, turnAhead, node, ch, history, outcome, seen, hops>>
  BY DEF applyProposal
<1>2. TypeOK /\ ProposalsInOrder /\ CommitsInOrder
  BY DEF IInv
<1>3. /\ apply \in [Turn -> Standing] /\ applyAhead \in [Turn -> SUBSET Turn]
      /\ cart \in Seq(Turn)
  BY <1>2, QueueTypes DEF TypeOK
<1>4. /\ \A x \in Turn : apply[x] # "idle" => turn[x] = "left"
      /\ \A i \in DOMAIN cart : apply[cart[i]] = "left"
  BY <1>2 DEF ProposalsInOrder
<1>5. \A x, u \in Turn : u < x /\ apply[u] \in {"waiting", "running"} =>
          /\ apply[x] = "waiting" => u \in applyAhead[x]
          /\ apply[x] \notin {"running", "left"}
  BY <1>2, QueueTypes DEF ProposalsInOrder
<1>6. SUFFICES /\ apply' \in [Turn -> Standing] /\ applyAhead' \in [Turn -> SUBSET Turn]
               /\ cart' \in Seq(Turn)
               /\ \A x \in Turn : apply'[x] # "idle" => turn[x] = "left"
               /\ \A i \in DOMAIN cart' : apply'[cart'[i]] = "left"
               /\ CommitsInOrder'
               /\ \A x, u \in Turn : u < x /\ apply'[u] \in {"waiting", "running"} =>
                      /\ apply'[x] = "waiting" => u \in applyAhead'[x]
                      /\ apply'[x] \notin {"running", "left"}
  <2>1. TypeOK'
    <3>1. Queue!TypeOK'
      BY <1>1, <1>2 DEF TypeOK, Queue!TypeOK
    <3>2. Lock!TypeOK'
      BY <1>6 DEF Lock!TypeOK, Lock!Phase, Standing
    <3> QED
      BY <1>1, <1>2, <1>6, <3>1, <3>2 DEF TypeOK
  <2>2. ProposalsInOrder'
    BY <1>1, <1>6 DEF ProposalsInOrder, Lock!Present
  <2>3. TurnsInOrder' /\ AtRest' /\ Counted' /\ Outcomes'
    <3>1. TurnsInOrder'
      BY <1>1 DEF IInv, TurnsInOrder, Queue!Present
    <3>2. AtRest' /\ Counted'
      BY <1>1 DEF IInv, AtRest, Latest, answering, Counted
    <3>3. Outcomes'
      BY <1>1 DEF IInv, Outcomes, OutcomeIsOwn, AnswersAreHeard, Written
    <3> QED
      BY <3>1, <3>2, <3>3
  <2>4. ASSUME NEW r \in Turn, turn'[r] = "running" PROVE Running(r)'
    <3>1. Running(r)
      BY <1>1, <2>4 DEF IInv
    <3> QED
      BY <1>1, <3>1 DEF Running, Own, Silent, Concluded, Heard, answering
  <2> QED
    BY <1>6, <2>1, <2>2, <2>3, <2>4 DEF IInv
<1>7. CASE Lock!Enter(t) /\ UNCHANGED cart
  <2>1. /\ apply[t] = "waiting" /\ applyAhead[t] = {}
        /\ applyAhead' = applyAhead /\ cart' = cart
        /\ apply' = [apply EXCEPT ![t] = "running"]
    BY <1>7, Entered
  <2>2. /\ apply' \in [Turn -> Standing]
        /\ \A x \in Turn : apply'[x] = IF x = t THEN "running" ELSE apply[x]
    BY <1>3, <2>1 DEF Standing
  <2>3. \A i \in DOMAIN cart : cart[i] \in Turn
    BY <1>3
  <2>4. \A i \in DOMAIN cart : apply'[cart[i]] = "left"
    BY <1>4, <2>1, <2>2, <2>3
  <2>5. CommitsInOrder'
    BY <1>2, <2>1 DEF CommitsInOrder
  <2>6. \A x, u \in Turn : u < x /\ apply'[u] \in {"waiting", "running"} =>
            /\ apply'[x] = "waiting" => u \in applyAhead'[x]
            /\ apply'[x] \notin {"running", "left"}
    BY <1>5, <2>1, <2>2
  <2> QED
    BY <1>3, <1>4, <2>1, <2>2, <2>4, <2>5, <2>6
<1>8. CASE Lock!Leave(t) /\ cart' \in {cart, Append(cart, t)}
  <2>1. /\ apply[t] = "running"
        /\ apply' = [apply EXCEPT ![t] = "left"]
        /\ applyAhead' = [u \in Turn |-> applyAhead[u] \ {t}]
    BY <1>8, Departed
  <2>2. /\ apply' \in [Turn -> Standing] /\ applyAhead' \in [Turn -> SUBSET Turn]
        /\ \A x \in Turn : apply'[x] = IF x = t THEN "left" ELSE apply[x]
        /\ \A x \in Turn : applyAhead'[x] = applyAhead[x] \ {t}
    BY <1>3, <2>1 DEF Standing
  <2>3. \A i \in DOMAIN cart : cart[i] \in Turn /\ cart[i] < t
    <3> TAKE i \in DOMAIN cart
    <3>1. cart[i] \in Turn /\ apply[cart[i]] = "left"
      BY <1>3, <1>4
    <3>2. ~ (t < cart[i]) /\ cart[i] # t
      BY <1>5, <2>1, <3>1
    <3> QED
      BY <3>1, <3>2, SizesAssumption DEF Turn
  <2>4. /\ cart' \in Seq(Turn)
        /\ \A i \in DOMAIN cart' : cart'[i] = t \/ (i \in DOMAIN cart /\ cart'[i] = cart[i])
    <3>1. CASE cart' = cart
      BY <1>3, <3>1
    <3>2. CASE cart' = Append(cart, t)
      <4>1. /\ cart' \in Seq(Turn) /\ DOMAIN cart = 1..Len(cart) /\ DOMAIN cart' = 1..(Len(cart) + 1)
            /\ \A i \in 1..Len(cart) : cart'[i] = cart[i]
            /\ cart'[Len(cart) + 1] = t /\ Len(cart) \in Nat
        BY <1>3, <3>2
      <4> QED
        BY <4>1
    <3> QED
      BY <1>8, <3>1, <3>2
  <2>5. \A i \in DOMAIN cart' : apply'[cart'[i]] = "left"
    BY <1>4, <2>2, <2>3, <2>4
  <2>6. CommitsInOrder'
    <3>1. CASE cart' = cart
      BY <1>2, <3>1 DEF CommitsInOrder
    <3>2. CASE cart' = Append(cart, t)
      <4>1. /\ Len(cart) \in Nat /\ DOMAIN cart = 1..Len(cart) /\ DOMAIN cart' = 1..(Len(cart) + 1)
            /\ \A i \in 1..Len(cart) : cart'[i] = cart[i]
            /\ cart'[Len(cart) + 1] = t
        BY <1>3, <3>2
      <4> QED
        BY <1>2, <2>3, <4>1 DEF CommitsInOrder
    <3> QED
      BY <1>8, <3>1, <3>2
  <2>7. \A x, u \in Turn : u < x /\ apply'[u] \in {"waiting", "running"} =>
            /\ apply'[x] = "waiting" => u \in applyAhead'[x]
            /\ apply'[x] \notin {"running", "left"}
    BY <1>5, <2>1, <2>2
  <2>8. \A x \in Turn : apply'[x] # "idle" => turn[x] = "left"
    BY <1>4, <2>1, <2>2
  <2> QED
    BY <2>2, <2>4, <2>5, <2>6, <2>7, <2>8
<1> QED
  BY <1>7, <1>8 DEF applyProposal

(* A turn enters the graph: what was left in the channels is gone, and if the
   turn before it spoke, the history ends with that. *)
LEMMA NormalizeKeeps ==
    ASSUME IInv, NEW t \in Turn, normalize(t)
    PROVE  IInv'
<1>1. /\ node = "idle" /\ turn[t] = "waiting" /\ turnAhead[t] = {}
      /\ turn' = [turn EXCEPT ![t] = "running"] /\ turnAhead' = turnAhead
      /\ ch' = [cleared EXCEPT !.intent = ch.intent]
      /\ node' = "classify" /\ hops' = 1
      /\ UNCHANGED <<apply, applyAhead, history, outcome, cart, seen>>
  BY Entered DEF normalize
<1>2. TypeOK /\ TurnsInOrder /\ AtRest
  BY DEF IInv
<1>3. turn \in [Turn -> Standing] /\ turnAhead \in [Turn -> SUBSET Turn]
  BY <1>2, QueueTypes DEF TypeOK
<1>4. /\ turn' \in [Turn -> Standing]
      /\ \A u \in Turn : turn'[u] = IF u = t THEN "running" ELSE turn[u]
  BY <1>1, <1>3 DEF Standing
<1>5. ch' = [intent |-> ch.intent, output |-> Nothing, reply |-> Nothing,
             reply_language |-> Nothing, calls |-> <<>>, agent_steps |-> 0,
             search_results |-> {}, mentioned_items |-> {}, failure_reason |-> Nothing]
  BY <1>1 DEF cleared
<1>6. ch' \in Channels
  <2>1. <<>> \in UNION {[1..n -> Asks] : n \in 0..BatchSize}
    <3>1. 0 \in 0..BatchSize /\ <<>> \in [1..0 -> Asks]
      BY SizesAssumption
    <3> QED
      BY <3>1
  <2>2. ch.intent \in {"service", "junk"} /\ 0 \in 0..maxAgentSteps
    BY <1>2, SizesAssumption DEF TypeOK, Channels
  <2> QED
    BY <1>5, <2>1, <2>2 DEF Channels
<1>7. TypeOK'
  <2>1. Queue!TypeOK'
    BY <1>1, <1>3, <1>4 DEF Queue!TypeOK, Queue!Phase, Standing
  <2>2. Lock!TypeOK'
    BY <1>1, <1>2 DEF TypeOK, Lock!TypeOK
  <2> QED
    BY <1>1, <1>2, <1>6, <2>1, <2>2 DEF TypeOK, Node
<1>8. /\ \A x, u \in Turn : u < x /\ turn[x] # "idle" => turn[u] # "idle"
      /\ \A x, u \in Turn : u < x /\ turn[x] \in {"running", "left"} => turn[u] = "left"
      /\ \A x, u \in Turn : u < x /\ turn[x] = "waiting" /\ turn[u] \in {"waiting", "running"} => u \in turnAhead[x]
  BY <1>2, QueueTypes DEF TurnsInOrder
<1>9. \A u \in Turn : /\ u < t => turn[u] = "left"
                      /\ t < u => turn[u] \notin {"running", "left"}
  BY <1>1, <1>3, <1>8 DEF Standing
<1>10. \A u \in Turn : turn[u] # "running"
  BY <1>1, <1>2 DEF AtRest
<1>11. TurnsInOrder'
  <2>1. \A x, u \in Turn : u < x /\ turn'[x] # "idle" => turn'[u] # "idle"
    BY <1>1, <1>4, <1>8
  <2>2. \A x, u \in Turn : u < x /\ turn'[x] \in {"running", "left"} => turn'[u] = "left"
    BY <1>4, <1>8, <1>9, SizesAssumption DEF Turn
  <2>3. \A x, u \in Turn : u < x /\ turn'[x] = "waiting" /\ turn'[u] \in {"waiting", "running"} => u \in turnAhead'[x]
    BY <1>1, <1>4, <1>8
  <2> QED
    BY <2>1, <2>2, <2>3 DEF TurnsInOrder, Queue!Present
<1>12. ProposalsInOrder' /\ CommitsInOrder'
  <2>1. ProposalsInOrder /\ CommitsInOrder
    BY DEF IInv
  <2>2. \A x \in Turn : turn[x] = "left" => turn'[x] = "left"
    BY <1>1, <1>4
  <2> QED
    BY <1>1, <2>1, <2>2 DEF ProposalsInOrder, CommitsInOrder, Lock!Present
<1>13. AtRest'
  BY <1>1, <1>4 DEF AtRest
<1>14. Counted'
  BY <1>1, <1>5 DEF Counted
<1>15. Outcomes'
  <2>1. Outcomes
    BY DEF IInv
  <2>2. \A x \in Turn : turn'[x] # "left" => turn[x] # "left"
    BY <1>1, <1>4
  <2> QED
    BY <1>1, <2>1, <2>2 DEF Outcomes, OutcomeIsOwn, AnswersAreHeard, Written
<1>16. Running(t)'
  <2>1. Own(ch', t) /\ Silent(ch')
    BY <1>5 DEF Own, Silent
  <2>2. ASSUME Heard(t) PROVE answering
    <3>1. t - 1 \in Turn /\ t - 1 < t /\ \A u \in Turn : t - 1 < u => u = t \/ t < u
      BY <2>2, SizesAssumption DEF Heard, Turn
    <3>2. Latest(t - 1)
      BY <1>1, <1>9, <3>1 DEF Latest
    <3> QED
      BY <1>1, <1>2, <2>2, <3>1, <3>2 DEF AtRest, Heard
  <2>3. (Heard(t)' <=> Heard(t)) /\ (answering' <=> answering)
    BY <1>1 DEF Heard, answering
  <2> QED
    BY <1>1, <2>1, <2>2, <2>3 DEF Running
<1>17. \A r \in Turn : turn'[r] = "running" => r = t
  BY <1>4, <1>10
<1> QED
  BY <1>7, <1>11, <1>12, <1>13, <1>14, <1>15, <1>16, <1>17 DEF IInv

(* A turn dispatches an outcome that is its own, and leaves. *)
LEMMA DispatchKeeps ==
    ASSUME IInv, node # "idle", NEW r \in Turn, turn[r] = "running", NEW result \in Outcome,
           Dispatch(result),
           \A text \in {result.output, result.reply, result.language} \ {Nothing} : text[1] = r,
           \A item \in result.mentioned : item[1] = r,
           result.status = "complete" <=> result.output # Nothing,
           result.status = "reply" => result.reply # Nothing,
           result.reply # Nothing => answering,
           result.status = "junk" => ~ Heard(r)
    PROVE  IInv'
<1>1. /\ Now = r
      /\ \A u \in Turn : turn[u] = "running" => u = r
      /\ \A u \in Turn : turn[u] = "left" => u < r
  BY InGraph
<1>2. /\ outcome' = [outcome EXCEPT ![r] = result]
      /\ turn' = [turn EXCEPT ![r] = "left"]
      /\ turnAhead' = [u \in Turn |-> turnAhead[u] \ {r}]
      /\ node' = "idle" /\ hops' = 0
      /\ UNCHANGED <<ch, history, cart, seen>>
  BY <1>1, Departed DEF Dispatch
<1>3. \/ apply' = apply /\ applyAhead' = applyAhead
      \/ /\ apply[r] = "idle" /\ apply' = [apply EXCEPT ![r] = "waiting"]
         /\ applyAhead' = [applyAhead EXCEPT ![r] = {u \in Turn : Lock!Present(u)}]
  BY <1>1, Queued DEF Dispatch
<1>4. TypeOK /\ TurnsInOrder /\ ProposalsInOrder /\ CommitsInOrder /\ Outcomes
  BY DEF IInv
<1>5. /\ turn \in [Turn -> Standing] /\ turnAhead \in [Turn -> SUBSET Turn]
      /\ apply \in [Turn -> Standing] /\ applyAhead \in [Turn -> SUBSET Turn]
      /\ outcome \in [Turn -> Outcome] /\ cart \in Seq(Turn)
  BY <1>4, QueueTypes DEF TypeOK
<1>6. /\ \A u \in Turn : turn'[u] = IF u = r THEN "left" ELSE turn[u]
      /\ \A u \in Turn : turnAhead'[u] = turnAhead[u] \ {r}
      /\ \A u \in Turn : outcome'[u] = IF u = r THEN result ELSE outcome[u]
      /\ turn' \in [Turn -> Standing] /\ turnAhead' \in [Turn -> SUBSET Turn]
      /\ outcome' \in [Turn -> Outcome]
  <2>1. /\ \A u \in Turn : turn'[u] = IF u = r THEN "left" ELSE turn[u]
        /\ turn' \in [Turn -> Standing]
    BY <1>2, <1>5 DEF Standing
  <2>2. /\ \A u \in Turn : turnAhead'[u] = turnAhead[u] \ {r}
        /\ turnAhead' \in [Turn -> SUBSET Turn]
    BY <1>2, <1>5
  <2> HIDE DEF Outcome
  <2>3. /\ \A u \in Turn : outcome'[u] = IF u = r THEN result ELSE outcome[u]
        /\ outcome' \in [Turn -> Outcome]
    BY <1>2, <1>5
  <2> QED
    BY <2>1, <2>2, <2>3
<1>7. /\ \A u \in Turn : u # r => apply'[u] = apply[u] /\ applyAhead'[u] = applyAhead[u]
      /\ \/ apply'[r] = apply[r]
         \/ /\ apply'[r] = "waiting"
            /\ applyAhead'[r] = {u \in Turn : apply[u] \in {"waiting", "running"}}
      /\ apply' \in [Turn -> Standing] /\ applyAhead' \in [Turn -> SUBSET Turn]
  <2>1. CASE apply' = apply /\ applyAhead' = applyAhead
    BY <1>5, <2>1
  <2>2. CASE /\ apply[r] = "idle" /\ apply' = [apply EXCEPT ![r] = "waiting"]
             /\ applyAhead' = [applyAhead EXCEPT ![r] = {u \in Turn : Lock!Present(u)}]
    <3>1. {u \in Turn : Lock!Present(u)} = {u \in Turn : apply[u] \in {"waiting", "running"}}
      BY QueueTypes
    <3> QED
      BY <1>5, <2>2, <3>1 DEF Standing
  <2> QED
    BY <1>3, <2>1, <2>2
<1>8. TypeOK'
  <2>1. Queue!TypeOK' /\ Lock!TypeOK'
    BY <1>6, <1>7 DEF Queue!TypeOK, Queue!Phase, Lock!TypeOK, Lock!Phase, Standing
  <2> QED
    BY <1>2, <1>4, <1>6, <2>1 DEF TypeOK, Node
<1>9. TurnsInOrder'
  <2>1. /\ \A x, u \in Turn : u < x /\ turn[x] # "idle" => turn[u] # "idle"
        /\ \A x, u \in Turn : u < x /\ turn[x] \in {"running", "left"} => turn[u] = "left"
        /\ \A x, u \in Turn : u < x /\ turn[x] = "waiting" /\ turn[u] \in {"waiting", "running"} => u \in turnAhead[x]
    BY <1>4, QueueTypes DEF TurnsInOrder
  <2>2. \A x, u \in Turn : u < x /\ turn'[x] # "idle" => turn'[u] # "idle"
    BY <1>6, <2>1
  <2>3. \A x, u \in Turn : u < x /\ turn'[x] \in {"running", "left"} => turn'[u] = "left"
    BY <1>6, <2>1
  <2>4. \A x, u \in Turn : u < x /\ turn'[x] = "waiting" /\ turn'[u] \in {"waiting", "running"} => u \in turnAhead'[x]
    BY <1>6, <2>1
  <2> QED
    BY <2>2, <2>3, <2>4 DEF TurnsInOrder, Queue!Present
<1>10. ProposalsInOrder' /\ CommitsInOrder'
  <2>1. /\ \A x \in Turn : apply[x] # "idle" => turn[x] = "left"
        /\ \A i \in DOMAIN cart : cart[i] \in Turn /\ apply[cart[i]] = "left"
        /\ \A x, u \in Turn : u < x /\ apply[u] \in {"waiting", "running"} =>
              /\ apply[x] = "waiting" => u \in applyAhead[x]
              /\ apply[x] \notin {"running", "left"}
    BY <1>4, <1>5, QueueTypes DEF ProposalsInOrder
  <2>2. \A x \in Turn : apply'[x] # "idle" => turn'[x] = "left"
    BY <1>6, <1>7, <2>1
  <2>3. apply[r] = "idle"
    BY <2>1
  <2>4. \A i \in DOMAIN cart : apply'[cart[i]] = "left"
    BY <1>7, <2>1, <2>3
  <2>5. ASSUME NEW x \in Turn, NEW u \in Turn, u < x, apply'[u] \in {"waiting", "running"}
        PROVE  /\ apply'[x] = "waiting" => u \in applyAhead'[x]
               /\ apply'[x] \notin {"running", "left"}
    <3>1. CASE x = r
      <4>1. u # r /\ apply[u] \in {"waiting", "running"}
        BY <1>7, <2>5, <3>1, SizesAssumption DEF Turn
      <4> QED
        BY <1>7, <2>3, <3>1, <4>1
    <3>2. CASE x # r /\ u # r
      BY <1>7, <2>1, <2>5, <3>2
    <3>3. CASE x # r /\ u = r
      <4>1. apply'[x] = "idle"
        <5>1. ~ (x < r)
          BY <2>5, <3>3, SizesAssumption DEF Turn
        <5>2. turn[x] # "left"
          BY <1>1, <5>1
        <5> QED
          BY <1>7, <2>1, <3>3, <5>2
      <4> QED
        BY <4>1
    <3> QED
      BY <3>1, <3>2, <3>3
  <2>6. CommitsInOrder'
    BY <1>2, <1>4 DEF CommitsInOrder
  <2> QED
    BY <1>2, <2>2, <2>4, <2>5, <2>6 DEF ProposalsInOrder, Lock!Present
<1>11. AtRest'
  <2>1. \A x \in Turn : turn'[x] # "running"
    BY <1>1, <1>6
  <2>2. \A x \in Turn : Latest(x)' => x = r
    BY <1>1, <1>6 DEF Latest
  <2>3. answering' <=> answering
    BY <1>2 DEF answering
  <2>4. outcome'[r].reply # Nothing => answering'
    BY <1>6, <2>3
  <2> QED
    BY <1>2, <2>1, <2>2, <2>4 DEF AtRest
<1>12. Counted'
  BY <1>2 DEF Counted
<1>13. Outcomes'
  <2>1. /\ \A x \in Turn : turn[x] # "left" => outcome[x] = quiet
        /\ OutcomeIsOwn /\ AnswersAreHeard
    BY <1>4 DEF Outcomes
  <2>2. \A x \in Turn : turn'[x] # "left" => outcome'[x] = quiet
    BY <1>6, <2>1
  <2>3. OutcomeIsOwn'
    <3>1. \A x \in Turn \ {r} : outcome'[x] = outcome[x]
      BY <1>6
    <3>2. outcome'[r] = result
      BY <1>6
    <3>3. \A x \in Turn \ {r} :
            /\ \A text \in {outcome'[x].output, outcome'[x].reply, outcome'[x].language} \ {Nothing} : text[1] = x
            /\ \A item \in outcome'[x].mentioned : item[1] = x
            /\ outcome'[x].status = "complete" <=> outcome'[x].output # Nothing
            /\ outcome'[x].status = "reply" => outcome'[x].reply # Nothing
      BY <2>1, <3>1 DEF OutcomeIsOwn, Written
    <3>4. /\ \A text \in {outcome'[r].output, outcome'[r].reply, outcome'[r].language} \ {Nothing} : text[1] = r
          /\ \A item \in outcome'[r].mentioned : item[1] = r
          /\ outcome'[r].status = "complete" <=> outcome'[r].output # Nothing
          /\ outcome'[r].status = "reply" => outcome'[r].reply # Nothing
      BY <3>2
    <3> QED
      BY <3>3, <3>4 DEF OutcomeIsOwn, Written
  <2>4. AnswersAreHeard'
    <3> SUFFICES ASSUME NEW t \in Turn, t > 1, outcome'[t - 1].reply # Nothing
                 PROVE  outcome'[t].status # "junk"
      BY DEF AnswersAreHeard
    <3>1. t - 1 \in Turn /\ t - 1 < t
      BY SizesAssumption DEF Turn
    <3>2. CASE t = r
      <4>1. t - 1 # r
        BY <3>1, <3>2, SizesAssumption DEF Turn
      <4>2. outcome'[t - 1] = outcome[t - 1]
        BY <1>6, <3>1, <4>1
      <4>3. Heard(r)
        BY <3>2, <4>2 DEF Heard
      <4> QED
        BY <1>6, <3>2, <4>3
    <3>3. CASE t - 1 = r
      <4>1. ~ (t < r) /\ t # r
        BY <3>1, <3>3, SizesAssumption DEF Turn
      <4>2. outcome'[t] = quiet
        BY <1>1, <1>6, <2>1, <4>1
      <4> QED
        BY <4>2 DEF quiet
    <3>4. CASE t # r /\ t - 1 # r
      BY <1>6, <2>1, <3>1, <3>4 DEF AnswersAreHeard
    <3> QED
      BY <3>2, <3>3, <3>4
  <2> QED
    BY <2>2, <2>3, <2>4 DEF Outcomes
<1>14. \A x \in Turn : turn'[x] # "running"
  BY <1>1, <1>6
<1> QED
  BY <1>8, <1>9, <1>10, <1>11, <1>12, <1>13, <1>14 DEF IInv

-----------------------------------------------------------------------------
(* The graph's steps. *)

(* A superstep touches the channels and what is known of the turn in the graph:
   the queues, the outcomes and the cart stay. *)
LEMMA SuperstepKeeps ==
    ASSUME IInv, node # "idle", NEW r \in Turn, turn[r] = "running",
           NEW c \in Channels, NEW next \in Node \ {"idle"}, Superstep(c, next),
           history' \in Seq([turn : Turn, agent_reply : Author \cup {Nothing}]),
           Len(history') <= maxHistoryTurns, seen' \in [Turn -> SUBSET Turn],
           Counted', Running(r)'
    PROVE  IInv'
<1>1. \A u \in Turn : turn[u] = "running" => u = r
  BY InGraph
<1>2. /\ ch' = c /\ node' = next /\ hops' = hops + 1
      /\ turn' = turn /\ turnAhead' = turnAhead /\ apply' = apply /\ applyAhead' = applyAhead
      /\ outcome' = outcome /\ cart' = cart
  BY DEF Superstep
<1>3. TypeOK'
  <2>1. TypeOK
    BY DEF IInv
  <2>2. Queue!TypeOK' /\ Lock!TypeOK'
    BY <1>2, <2>1 DEF TypeOK, Queue!TypeOK, Lock!TypeOK
  <2> QED
    BY <1>2, <2>1, <2>2 DEF TypeOK
<1>4. TurnsInOrder' /\ ProposalsInOrder' /\ CommitsInOrder'
  <2>1. TurnsInOrder'
    BY <1>2 DEF IInv, TurnsInOrder, Queue!Present
  <2>2. ProposalsInOrder' /\ CommitsInOrder'
    BY <1>2 DEF IInv, ProposalsInOrder, Lock!Present, CommitsInOrder
  <2> QED
    BY <2>1, <2>2
<1>5. AtRest'
  BY <1>2 DEF AtRest
<1>6. Outcomes'
  BY <1>2 DEF IInv, Outcomes, OutcomeIsOwn, AnswersAreHeard, Written
<1> QED
  BY <1>1, <1>2, <1>3, <1>4, <1>5, <1>6 DEF IInv

CallLists == UNION {[1..n -> Asks] : n \in 0..BatchSize}

(* A channel that is written with a value of its type leaves the channels. *)
LEMMA Patched ==
    ASSUME NEW c \in Channels, NEW intent \in {"service", "junk"},
           NEW text \in Author \cup {Nothing}, NEW calls \in CallLists,
           NEW steps \in 0..maxAgentSteps, NEW items \in SUBSET (Turn \X Key),
           NEW why \in {Nothing, "agent_step_limit", "agent_no_terminal"}
    PROVE  /\ [c EXCEPT !.intent = intent] \in Channels
           /\ [c EXCEPT !.output = text] \in Channels
           /\ [c EXCEPT !.reply = text] \in Channels
           /\ [c EXCEPT !.reply_language = text] \in Channels
           /\ [c EXCEPT !.calls = calls] \in Channels
           /\ [c EXCEPT !.agent_steps = steps] \in Channels
           /\ [c EXCEPT !.search_results = items] \in Channels
           /\ [c EXCEPT !.mentioned_items = items] \in Channels
           /\ [c EXCEPT !.failure_reason = why] \in Channels
<1>1. Channels = [intent : {"service", "junk"},
                  output : Author \cup {Nothing}, reply : Author \cup {Nothing},
                  reply_language : Author \cup {Nothing}, calls : CallLists,
                  agent_steps : 0..maxAgentSteps, search_results : SUBSET (Turn \X Key),
                  mentioned_items : SUBSET (Turn \X Key),
                  failure_reason : {Nothing, "agent_step_limit", "agent_no_terminal"}]
  BY DEF Channels, CallLists
<1> HIDE DEF Channels, CallLists, Author
<1>2. PICK T, A, J, S, B, F : /\ T = Author \cup {Nothing} /\ A = 0..maxAgentSteps
                              /\ J = SUBSET (Turn \X Key) /\ B = CallLists
                              /\ S = {"service", "junk"}
                              /\ F = {Nothing, "agent_step_limit", "agent_no_terminal"}
  OBVIOUS
<1>3. Channels = [intent : S, output : T, reply : T, reply_language : T, calls : B,
                  agent_steps : A, search_results : J, mentioned_items : J, failure_reason : F]
  BY <1>1, <1>2
<1>4. /\ intent \in S /\ text \in T /\ calls \in B /\ steps \in A /\ items \in J /\ why \in F
  BY <1>2
<1> QED
  BY ONLY c \in Channels, <1>3, <1>4

(* The junk gate lets pass what may be an answer. *)
LEMMA ClassifyKeeps ==
    ASSUME IInv, classify
    PROVE  IInv'
<1>1. node = "classify" /\ UNCHANGED <<history, seen>>
  BY DEF classify
<1>2. PICK r \in Turn : turn[r] = "running" /\ Running(r)
  BY <1>1, InGraph
<1>3. PICK intent \in IF answering THEN {"service"} ELSE {"service", "junk"} :
          Superstep([ch EXCEPT !.intent = intent], IF intent = "junk" THEN "interpret" ELSE "load_cart")
  BY DEF classify
<1>4. PICK c, next : c = [ch EXCEPT !.intent = intent] /\ next = IF intent = "junk" THEN "interpret" ELSE "load_cart"
  OBVIOUS
<1>5. Superstep(c, next) /\ ch' = c /\ node' = next /\ hops' = hops + 1 /\ outcome' = outcome
  <2>1. Superstep(c, next)
    BY <1>3, <1>4
  <2> QED
    BY <2>1 DEF Superstep
<1>6. intent \in {"service", "junk"} /\ (answering => intent = "service")
  BY <1>3
<1>7. TypeOK /\ Counted
  BY DEF IInv
<1>8. ch \in Channels
  BY <1>7 DEF TypeOK
<1>9. c \in Channels
  <2> HIDE DEF Channels
  <2>1. /\ Nothing \in Author \cup {Nothing} /\ ch.calls \in CallLists
        /\ ch.agent_steps \in 0..maxAgentSteps /\ {} \in SUBSET (Turn \X Key)
        /\ Nothing \in {Nothing, "agent_step_limit", "agent_no_terminal"}
    BY <1>8 DEF Channels, CallLists
  <2>2. [ch EXCEPT !.intent = intent] \in Channels
    BY ONLY <1>6, <1>8, <2>1, Patched
  <2> QED
    BY <1>4, <2>2
<1>10. /\ c.output = ch.output /\ c.reply = ch.reply /\ c.reply_language = ch.reply_language
       /\ c.search_results = ch.search_results /\ c.mentioned_items = ch.mentioned_items
       /\ c.failure_reason = ch.failure_reason /\ c.intent = intent /\ c.agent_steps = ch.agent_steps
  BY <1>4, <1>8 DEF Channels
<1>11. Counted'
  <2>1. hops = 1 /\ ch.agent_steps = 0
    BY <1>1, <1>7 DEF Counted
  <2> QED
    BY <1>4, <1>5, <1>10, <2>1, SizesAssumption DEF Counted
<1>12. Running(r)'
  <2>1. Own(ch, r) /\ Silent(ch) /\ (Heard(r) => answering)
    BY <1>1, <1>2 DEF Running
  <2>2. Own(c, r) /\ Silent(c)
    BY <1>10, <2>1 DEF Own, Silent
  <2>3. Heard(r)' <=> Heard(r)
    BY <1>5 DEF Heard
  <2> QED
    BY <1>4, <1>5, <1>6, <1>10, <2>1, <2>2, <2>3 DEF Running
<1>13. next \in Node \ {"idle"}
  BY <1>4 DEF Node
<1> QED
  BY <1>1, <1>2, <1>5, <1>7, <1>9, <1>11, <1>12, <1>13, SuperstepKeeps DEF TypeOK

LEMMA LoadCartKeeps ==
    ASSUME IInv, load_cart
    PROVE  IInv'
<1>1. /\ node = "load_cart" /\ history' = history /\ Superstep(ch, "agent")
      /\ seen' = [seen EXCEPT ![Now] = Range(cart)]
  BY DEF load_cart
<1>2. PICK r \in Turn : turn[r] = "running" /\ Now = r /\ Running(r)
  BY <1>1, InGraph
<1>3. /\ ch' = ch /\ node' = "agent" /\ hops' = hops + 1 /\ outcome' = outcome
  BY <1>1 DEF Superstep
<1>4. TypeOK /\ Counted
  BY DEF IInv
<1>5. seen' \in [Turn -> SUBSET Turn]
  <2>1. Range(cart) \in SUBSET Turn
    <3>1. cart \in Seq(Turn)
      BY <1>4 DEF TypeOK
    <3> QED
      BY <3>1 DEF Range
  <2> QED
    BY <1>1, <1>2, <1>4, <2>1 DEF TypeOK
<1>6. Counted'
  BY <1>1, <1>3, <1>4 DEF Counted
<1>7. Running(r)'
  BY <1>1, <1>2, <1>3 DEF Running, Own, Silent
<1> QED
  <2>1. ch \in Channels /\ "agent" \in Node \ {"idle"}
    BY <1>4 DEF TypeOK, Node
  <2> QED
    BY <1>1, <1>2, <1>4, <1>5, <1>6, <1>7, <2>1, SuperstepKeeps DEF TypeOK

(* The turn that is appended stays, whatever is dropped for it. *)
LEMMA Merged ==
    ASSUME NEW S, NEW h \in Seq(S), Len(h) <= maxHistoryTurns, NEW e \in S
    PROVE  /\ mergeHistory(h, <<e>>) \in Seq(S)
           /\ Len(mergeHistory(h, <<e>>)) <= maxHistoryTurns
           /\ mergeHistory(h, <<e>>) # <<>> /\ Last(mergeHistory(h, <<e>>)) = e
<1>1. PICK all, k : /\ all = h \o <<e>>
                    /\ k = IF Len(all) > maxHistoryTurns THEN Len(all) - maxHistoryTurns + 1 ELSE 1
  OBVIOUS
<1>2. all \in Seq(S) /\ Len(all) = Len(h) + 1 /\ all[Len(all)] = e
  BY <1>1
<1>3. k \in 1..Len(all) /\ Len(all) - k + 1 \in Nat /\ Len(all) - k + 1 <= maxHistoryTurns
  BY <1>1, <1>2, SizesAssumption
<1>4. PICK m : m = SubSeq(all, k, Len(all))
  OBVIOUS
<1>5. m \in Seq(S) /\ Len(m) = Len(all) - k + 1 /\ m[Len(m)] = all[Len(all)]
  <2>1. /\ m \in Seq(S) /\ Len(m) = Len(all) - k + 1
        /\ \A i \in 1..(Len(all) - k + 1) : m[i] = all[k + i - 1]
    BY <1>2, <1>3, <1>4, SubSeqProperties
  <2>2. Len(all) - k + 1 \in 1..(Len(all) - k + 1) /\ k + (Len(all) - k + 1) - 1 = Len(all)
    BY <1>2, <1>3
  <2> QED
    BY <2>1, <2>2
<1>6. mergeHistory(h, <<e>>) = m
  BY <1>1, <1>4 DEF mergeHistory
<1>7. m # <<>> /\ Last(m) = e
  BY <1>2, <1>3, <1>5 DEF Last
<1> QED
  BY <1>3, <1>5, <1>6, <1>7

LEMMA FinalizeKeeps ==
    ASSUME IInv, finalize
    PROVE  IInv'
<1>1. /\ node = "finalize" /\ Superstep(ch, "interpret") /\ seen' = seen
      /\ history' = mergeHistory(history, <<[turn |-> Now, agent_reply |-> ch.reply]>>)
  BY DEF finalize
<1>2. PICK r \in Turn : turn[r] = "running" /\ Now = r /\ Running(r)
  BY <1>1, InGraph
<1>3. /\ ch' = ch /\ node' = "interpret" /\ hops' = hops + 1 /\ outcome' = outcome
  BY <1>1 DEF Superstep
<1>4. TypeOK /\ Counted
  BY DEF IInv
<1>5. PICK e, S : e = [turn |-> r, agent_reply |-> ch.reply] /\ S = [turn : Turn, agent_reply : Author \cup {Nothing}]
  OBVIOUS
<1>6. e \in S /\ e.agent_reply = ch.reply
  <2>1. ch.reply \in Author \cup {Nothing}
    BY <1>4 DEF TypeOK, Channels
  <2> HIDE DEF Author
  <2> QED
    BY <1>5, <2>1
<1>7. history \in Seq(S) /\ Len(history) <= maxHistoryTurns
  BY <1>4, <1>5 DEF TypeOK
<1>8. /\ history' \in Seq(S) /\ Len(history') <= maxHistoryTurns
      /\ history' # <<>> /\ Last(history') = e
  <2>1. history' = mergeHistory(history, <<e>>)
    BY <1>1, <1>2, <1>5
  <2>2. /\ mergeHistory(history, <<e>>) \in Seq(S)
        /\ Len(mergeHistory(history, <<e>>)) <= maxHistoryTurns
        /\ mergeHistory(history, <<e>>) # <<>> /\ Last(mergeHistory(history, <<e>>)) = e
    BY ONLY <1>6, <1>7, Merged
  <2> QED
    BY <2>1, <2>2
<1>9. Counted'
  BY <1>1, <1>3, <1>4, SizesAssumption DEF Counted, TypeOK
<1>10. Running(r)'
  BY <1>1, <1>2, <1>3, <1>6, <1>8 DEF Running, Own, Concluded
<1> QED
  <2>1. ch \in Channels /\ "interpret" \in Node \ {"idle"}
    BY <1>4 DEF TypeOK, Node
  <2>2. history' \in Seq([turn : Turn, agent_reply : Author \cup {Nothing}]) /\ seen' \in [Turn -> SUBSET Turn]
    BY <1>1, <1>4, <1>5, <1>8 DEF TypeOK
  <2>3. node # "idle"
    BY <1>1
  <2> QED
    BY <1>1, <1>2, <1>8, <1>9, <1>10, <2>1, <2>2, <2>3, SuperstepKeeps

(* One answer of the LLM: it speaks, it says nothing usable, it asks for tools,
   or its steps are used up.  Where the turn ends, it has concluded. *)
LEMMA AgentKeeps ==
    ASSUME IInv, agent
    PROVE  IInv'
<1>1. node = "agent" /\ history' = history /\ seen' = seen
  BY DEF agent
<1>2. PICK r \in Turn : turn[r] = "running" /\ Now = r /\ Running(r)
  BY <1>1, InGraph
<1>3. TypeOK /\ Counted
  BY DEF IInv
<1>4. /\ ch \in Channels /\ hops \in Nat /\ hops = 2 * ch.agent_steps + 3
      /\ Own(ch, r) /\ Silent(ch) /\ ch.intent = "service" /\ ch.agent_steps \in 0..maxAgentSteps
  BY <1>1, <1>2, <1>3 DEF TypeOK, Counted, Running, Channels
<1>5. ASSUME NEW c \in Channels, NEW next \in {"finalize", "tools"}, Superstep(c, next),
             c.intent = "service", Own(c, r),
             next = "finalize" => Concluded(c),
             next = "tools" => Silent(c) /\ c.agent_steps = ch.agent_steps + 1
      PROVE  IInv'
  <2>1. ch' = c /\ node' = next /\ hops' = hops + 1
    BY <1>5 DEF Superstep
  <2>2. Counted'
    BY <1>4, <1>5, <2>1, SizesAssumption DEF Counted
  <2>3. Running(r)'
    BY <1>5, <2>1 DEF Running
  <2>4. next \in Node \ {"idle"} /\ node # "idle"
    BY <1>1, <1>5 DEF Node
  <2> QED
    BY <1>1, <1>2, <1>3, <1>5, <2>2, <2>3, <2>4, SuperstepKeeps DEF TypeOK
<1>6. CASE ch.agent_steps = maxAgentSteps /\ Superstep([ch EXCEPT !.failure_reason = "agent_step_limit"], "finalize")
  <2>1. PICK c : c = [ch EXCEPT !.failure_reason = "agent_step_limit"]
    OBVIOUS
  <2>2. c \in Channels
    <3>1. /\ Nothing \in Author \cup {Nothing} /\ ch.calls \in CallLists
          /\ ch.agent_steps \in 0..maxAgentSteps /\ {} \in SUBSET (Turn \X Key)
          /\ "agent_step_limit" \in {Nothing, "agent_step_limit", "agent_no_terminal"}
          /\ ch.intent \in {"service", "junk"}
      BY <1>4 DEF Channels, CallLists
    <3>2. [ch EXCEPT !.failure_reason = "agent_step_limit"] \in Channels
      BY ONLY <1>4, <3>1, Patched
    <3> QED
      BY <2>1, <3>2
  <2>3. /\ c.output = ch.output /\ c.reply = ch.reply /\ c.reply_language = ch.reply_language
        /\ c.search_results = ch.search_results /\ c.mentioned_items = ch.mentioned_items
        /\ c.failure_reason = "agent_step_limit" /\ c.intent = ch.intent
    BY <1>4, <2>1 DEF Channels
  <2>4. Own(c, r) /\ Concluded(c)
    <3>1. "agent_step_limit" # Nothing
      BY NothingAssumption
    <3> QED
      BY <1>4, <2>3, <3>1 DEF Own, Concluded
  <2>5. Superstep(c, "finalize")
    BY <1>6, <2>1
  <2> QED
    BY <1>4, <1>5, <2>2, <2>3, <2>4, <2>5
<1>7. CASE ch.agent_steps < maxAgentSteps
  <2>1. PICK s : s = [ch EXCEPT !.agent_steps = @ + 1, !.calls = <<>>]
    OBVIOUS
  <2>2. s \in Channels
    <3>1. PICK one : one = [ch EXCEPT !.agent_steps = ch.agent_steps + 1]
      OBVIOUS
    <3>2. <<>> \in CallLists
      <4>1. 0 \in 0..BatchSize /\ <<>> \in [1..0 -> Asks]
        BY SizesAssumption
      <4> QED
        BY <4>1 DEF CallLists
    <3>3. /\ Nothing \in Author \cup {Nothing} /\ <<>> \in CallLists
          /\ ch.agent_steps + 1 \in 0..maxAgentSteps /\ {} \in SUBSET (Turn \X Key)
          /\ Nothing \in {Nothing, "agent_step_limit", "agent_no_terminal"}
          /\ ch.intent \in {"service", "junk"}
      BY <1>4, <1>7, <3>2, SizesAssumption DEF Channels
    <3>4. [ch EXCEPT !.agent_steps = ch.agent_steps + 1] \in Channels
      BY ONLY <1>4, <3>3, Patched
    <3>5. one \in Channels
      BY <3>1, <3>4
    <3>6. [one EXCEPT !.calls = <<>>] \in Channels
      BY ONLY <3>3, <3>5, Patched
    <3>7. s = [one EXCEPT !.calls = <<>>]
      BY <1>4, <2>1, <3>1 DEF Channels
    <3> QED
      BY <3>6, <3>7
  <2>3. /\ s.output = ch.output /\ s.reply = ch.reply /\ s.reply_language = ch.reply_language
        /\ s.search_results = ch.search_results /\ s.mentioned_items = ch.mentioned_items
        /\ s.failure_reason = ch.failure_reason /\ s.intent = ch.intent
        /\ s.agent_steps = ch.agent_steps + 1
    BY <1>4, <2>1 DEF Channels
  <2>4. Own(s, r) /\ Silent(s) /\ s.intent = "service"
    BY <1>4, <2>3 DEF Own, Silent
  <2>5. /\ Nothing \in Author \cup {Nothing} /\ s.calls \in CallLists
        /\ s.agent_steps \in 0..maxAgentSteps /\ {} \in SUBSET (Turn \X Key)
        /\ Nothing \in {Nothing, "agent_step_limit", "agent_no_terminal"}
        /\ s.intent \in {"service", "junk"}
    BY <2>2 DEF Channels, CallLists
  <2>6. ASSUME NEW lang \in {Nothing, <<r, 0>>}, NEW names \in SUBSET Key,
               Superstep([s EXCEPT !.reply = <<r, 0>>, !.reply_language = lang,
                            !.mentioned_items = resolveMentionedItems(names, ch.search_results)],
                         "finalize")
        PROVE  IInv'
    <3>1. PICK items : items = resolveMentionedItems(names, ch.search_results)
      OBVIOUS
    <3>2. items \in SUBSET (Turn \X Key) /\ \A item \in items : item[1] = r
      BY <1>4, <3>1 DEF resolveMentionedItems, Own, Channels
    <3>3. PICK text : text = <<r, 0>>
      OBVIOUS
    <3>4. text \in Author /\ text[1] = r /\ text # Nothing
      BY <3>3, SizesAssumption, NothingAssumption DEF Author
    <3>5. lang \in Author \cup {Nothing} /\ (lang # Nothing => lang[1] = r)
      BY <2>6, <3>3, <3>4
    <3>6. PICK c : c = [s EXCEPT !.reply = text, !.reply_language = lang, !.mentioned_items = items]
      OBVIOUS
    <3>7. c \in Channels
      <4>1. PICK one : one = [s EXCEPT !.reply = text]
        OBVIOUS
      <4>2. PICK two : two = [one EXCEPT !.reply_language = lang]
        OBVIOUS
      <4>3. text \in Author \cup {Nothing}
        BY <3>4
      <4>4. one \in Channels
        <5>1. [s EXCEPT !.reply = text] \in Channels
          BY ONLY <2>2, <2>5, <3>2, <4>3, Patched
        <5> QED
          BY <4>1, <5>1
      <4>5. two \in Channels
        <5>1. [one EXCEPT !.reply_language = lang] \in Channels
          BY ONLY <2>5, <3>2, <3>5, <4>4, Patched
        <5> QED
          BY <4>2, <5>1
      <4>6. [two EXCEPT !.mentioned_items = items] \in Channels
        BY ONLY <2>5, <3>2, <4>3, <4>5, Patched
      <4>7. c = [two EXCEPT !.mentioned_items = items]
        BY <2>2, <3>6, <4>1, <4>2 DEF Channels
      <4> QED
        BY <4>6, <4>7
    <3>8. /\ c.output = s.output /\ c.reply = text /\ c.reply_language = lang
          /\ c.search_results = s.search_results /\ c.mentioned_items = items /\ c.intent = s.intent
      BY <2>2, <3>6 DEF Channels
    <3>9. Own(c, r)
      BY <2>4, <3>2, <3>4, <3>5, <3>8 DEF Own
    <3>10. Concluded(c)
      BY <3>4, <3>8 DEF Concluded
    <3>11. Superstep(c, "finalize")
      BY <2>6, <3>1, <3>3, <3>6
    <3> QED
      BY <1>5, <2>4, <3>7, <3>8, <3>9, <3>10, <3>11
  <2>7. CASE Superstep([s EXCEPT !.failure_reason = "agent_no_terminal"], "finalize")
    <3>1. PICK c : c = [s EXCEPT !.failure_reason = "agent_no_terminal"]
      OBVIOUS
    <3>2. c \in Channels
      <4>1. "agent_no_terminal" \in {Nothing, "agent_step_limit", "agent_no_terminal"}
        OBVIOUS
      <4>2. [s EXCEPT !.failure_reason = "agent_no_terminal"] \in Channels
        BY ONLY <2>2, <2>5, <4>1, Patched
      <4> QED
        BY <3>1, <4>2
    <3>3. /\ c.output = s.output /\ c.reply = s.reply /\ c.reply_language = s.reply_language
          /\ c.search_results = s.search_results /\ c.mentioned_items = s.mentioned_items
          /\ c.failure_reason = "agent_no_terminal" /\ c.intent = s.intent
      BY <2>2, <3>1 DEF Channels
    <3>4. Own(c, r) /\ Concluded(c)
      <4>1. "agent_no_terminal" # Nothing
        BY NothingAssumption
      <4> QED
        BY <2>4, <3>3, <4>1 DEF Own, Concluded
    <3>5. Superstep(c, "finalize")
      BY <2>7, <3>1
    <3> QED
      BY <1>5, <2>4, <3>2, <3>3, <3>4, <3>5
  <2>8. ASSUME NEW n \in 1..BatchSize, NEW asks \in [1..n -> Asks],
               Superstep([s EXCEPT !.calls = asks], "tools")
        PROVE  IInv'
    <3>1. PICK c : c = [s EXCEPT !.calls = asks]
      OBVIOUS
    <3>2. asks \in CallLists
      <4>1. n \in 0..BatchSize
        BY SizesAssumption
      <4> QED
        BY <4>1 DEF CallLists
    <3>3. c \in Channels
      <4>1. [s EXCEPT !.calls = asks] \in Channels
        BY ONLY <2>2, <2>5, <3>2, Patched
      <4> QED
        BY <3>1, <4>1
    <3>4. /\ c.output = s.output /\ c.reply = s.reply /\ c.reply_language = s.reply_language
          /\ c.search_results = s.search_results /\ c.mentioned_items = s.mentioned_items
          /\ c.failure_reason = s.failure_reason /\ c.intent = s.intent
          /\ c.agent_steps = s.agent_steps
      BY <2>2, <3>1 DEF Channels
    <3>5. Own(c, r) /\ Silent(c)
      BY <2>4, <3>4 DEF Own, Silent
    <3>6. Superstep(c, "tools")
      BY <2>8, <3>1
    <3> QED
      BY <1>5, <2>3, <2>4, <3>3, <3>4, <3>5, <3>6
  <2>9. \/ \E lang \in {Nothing, <<r, 0>>}, names \in SUBSET Key :
              Superstep([s EXCEPT !.reply = <<r, 0>>, !.reply_language = lang,
                            !.mentioned_items = resolveMentionedItems(names, ch.search_results)],
                        "finalize")
        \/ Superstep([s EXCEPT !.failure_reason = "agent_no_terminal"], "finalize")
        \/ \E n \in 1..BatchSize : \E asks \in [1..n -> Asks] :
              Superstep([s EXCEPT !.calls = asks], "tools")
    <3>1. ~ (ch.agent_steps = maxAgentSteps)
      BY <1>4, <1>7, SizesAssumption
    <3> QED
      BY <1>2, <2>1, <3>1 DEF agent
  <2> QED
    BY <2>6, <2>7, <2>8, <2>9
<1> QED
  <2>1. \/ /\ ch.agent_steps = maxAgentSteps
           /\ Superstep([ch EXCEPT !.failure_reason = "agent_step_limit"], "finalize")
        \/ ch.agent_steps < maxAgentSteps
    BY DEF agent
  <2> QED
    BY <1>6, <1>7, <2>1

-----------------------------------------------------------------------------
(* The tools of one answer: their results are folded into the channels. *)

LEMMA LeastElement ==
    ASSUME NEW T \in SUBSET Nat, T # {}
    PROVE  \E m \in T : \A n \in T : m <= n
<1>1. PICK m \in T : \A n \in T : ~ (<<n, m>> \in OpToRel(<, Nat))
  <2> HIDE DEF OpToRel
  <2> QED
    BY NatLessThanWellFounded, WFMin
<1>2. \A n \in T : ~ (n < m)
  BY <1>1 DEF OpToRel
<1> QED
  BY <1>2

(* Of numbers up to n there is a largest. *)
LEMMA Largest ==
    ASSUME NEW n \in Nat, NEW s \in SUBSET (0..n), s # {}
    PROVE  Max(s) \in s /\ \A y \in s : Max(s) >= y
<1> DEFINE Gap == {n - x : x \in s}
<1>1. Gap \in SUBSET Nat /\ Gap # {}
  <2>1. \A x \in s : n - x \in Nat
    OBVIOUS
  <2>2. Gap \in SUBSET Nat
    BY <2>1
  <2>3. PICK x \in s : TRUE
    OBVIOUS
  <2>4. n - x \in Gap
    BY <2>3
  <2> QED
    BY <2>2, <2>4
<1> HIDE DEF Gap
<1>2. PICK m \in Gap : \A k \in Gap : m <= k
  BY <1>1, LeastElement
<1>3. PICK x \in s : m = n - x
  BY <1>2 DEF Gap
<1>4. \A y \in s : x >= y
  <2> TAKE y \in s
  <2>1. n - y \in Gap
    BY DEF Gap
  <2>2. m <= n - y
    BY <1>2, <2>1
  <2> QED
    BY <1>3, <2>2
<1> QED
  BY <1>4 DEF Max

\* The fold of F over the numbers from 1, on every set of them.
FoldsTo(g, T, F, base, m) ==
    \A s \in SUBSET (1..m) :
        /\ g[s] \in T
        /\ g[s] = IF s = {} THEN base ELSE F[<<g[s \ {Max(s)}], Max(s)>>]

Solves(g, T, F, base, n) == FoldsTo(g, T, F, base, n) /\ g = [s \in SUBSET (1..n) |-> g[s]]

(* The recursion of a fold has a solution: one for the sets up to m gives one
   for the sets up to m + 1. *)
LEMMA FoldExists ==
    ASSUME NEW n \in Nat, NEW T, NEW base \in T, NEW F \in [T \X (1..n) -> T]
    PROVE  \E g : Solves(g, T, F, base, n)
<1> DEFINE Good(m) == \E g : FoldsTo(g, T, F, base, m)
<1>1. Good(0)
  <2>1. \A s \in SUBSET (1..0) : s = {}
    OBVIOUS
  <2>2. FoldsTo([s \in SUBSET (1..n) |-> base], T, F, base, 0)
    BY <2>1 DEF FoldsTo
  <2> QED
    BY <2>2
<1>2. ASSUME NEW m \in Nat, m < n, NEW g, FoldsTo(g, T, F, base, m)
      PROVE  \E h : FoldsTo(h, T, F, base, m + 1)
  <2> DEFINE h == [s \in SUBSET (1..n) |-> IF s = {} THEN base ELSE F[<<g[s \ {Max(s)}], Max(s)>>]]
  <2>1. ASSUME NEW s \in SUBSET (1..(m + 1)), s # {}
        PROVE  /\ Max(s) \in 1..n
               /\ s \ {Max(s)} \in SUBSET (1..m)
    <3>1. m + 1 \in Nat
      BY <1>2
    <3>2. Max(s) \in s /\ \A y \in s : Max(s) >= y
      <4>1. s \in SUBSET (0..(m + 1))
        BY <2>1, <3>1
      <4> QED
        BY <2>1, <3>1, <4>1, Largest
    <3>3. PICK x : x = Max(s)
      OBVIOUS
    <3>4. x \in s /\ \A y \in s : x >= y
      BY <3>2, <3>3
    <3>5. x \in 1..n
      BY <1>2, <2>1, <3>4
    <3>6. \A y \in s \ {x} : y \in 1..m
      BY <1>2, <2>1, <3>4
    <3> QED
      BY <3>3, <3>5, <3>6
  <2>2. ASSUME NEW s \in SUBSET (1..m)
        PROVE  h[s] = g[s] /\ g[s] \in T
    <3>1. /\ g[s] \in T
          /\ g[s] = IF s = {} THEN base ELSE F[<<g[s \ {Max(s)}], Max(s)>>]
      BY <1>2 DEF FoldsTo
    <3>2. s \in SUBSET (1..n)
      BY <1>2
    <3> QED
      BY <3>1, <3>2
  <2>3. ASSUME NEW s \in SUBSET (1..(m + 1))
        PROVE  h[s] \in T /\ h[s] = IF s = {} THEN base ELSE F[<<h[s \ {Max(s)}], Max(s)>>]
    <3>1. s \in SUBSET (1..n)
      BY <1>2
    <3>2. h[s] = IF s = {} THEN base ELSE F[<<g[s \ {Max(s)}], Max(s)>>]
      BY <3>1
    <3> HIDE DEF h
    <3>3. CASE s = {}
      BY <3>2, <3>3
    <3>4. CASE s # {}
      <4>1. Max(s) \in 1..n /\ s \ {Max(s)} \in SUBSET (1..m)
        BY <3>4, <2>1
      <4>2. h[s \ {Max(s)}] = g[s \ {Max(s)}] /\ g[s \ {Max(s)}] \in T
        BY <4>1, <2>2
      <4>3. PICK c \in T, k \in 1..n : c = g[s \ {Max(s)}] /\ k = Max(s)
        BY <4>1, <4>2
      <4>4. F[<<c, k>>] \in T
        OBVIOUS
      <4> QED
        BY <3>2, <3>4, <4>2, <4>3, <4>4
    <3> QED
      BY <3>3, <3>4
  <2>4. FoldsTo(h, T, F, base, m + 1)
    <3> HIDE DEF h
    <3> QED
      BY <2>3 DEF FoldsTo
  <2> QED
    BY <2>4
<1> DEFINE Bad == {m \in 0..n : ~ Good(m)}
<1>3. Good(n)
  <2> SUFFICES ASSUME Bad # {} PROVE FALSE
    OBVIOUS
  <2>1. PICK m \in Bad : \A k \in Bad : m <= k
    <3>1. Bad \in SUBSET Nat
      OBVIOUS
    <3> HIDE DEF Bad
    <3> QED
      BY <3>1, LeastElement
  <2>2. m # 0
    BY <1>1, <2>1
  <2>3. m - 1 \in Nat /\ m - 1 < n /\ m - 1 \notin Bad
    BY <2>1, <2>2
  <2>4. PICK g : FoldsTo(g, T, F, base, m - 1)
    BY <2>3
  <2>5. \E h : FoldsTo(h, T, F, base, (m - 1) + 1)
    BY <1>2, <2>3, <2>4
  <2>6. (m - 1) + 1 = m
    BY <2>1
  <2> QED
    BY <2>1, <2>5, <2>6
<1>4. PICK g : FoldsTo(g, T, F, base, n)
  BY <1>3
<1> DEFINE it == [s \in SUBSET (1..n) |-> g[s]]
<1>5. \A s \in SUBSET (1..n) : it[s] = g[s] /\ it[s \ {Max(s)}] = g[s \ {Max(s)}]
  OBVIOUS
<1>6. it = [s \in SUBSET (1..n) |-> it[s]]
  OBVIOUS
<1> HIDE DEF it
<1>7. FoldsTo(it, T, F, base, n)
  BY <1>4, <1>5 DEF FoldsTo
<1>8. Solves(it, T, F, base, n)
  BY <1>6, <1>7 DEF Solves
<1> QED
  BY <1>8

\* Calls 1 to n of a batch, run on the channels base.
Batch(base, calls, result) ==
    LET ranNext(patched, i) == ran(patched, calls[i], result[i], i)
    IN  FoldLeft(ranNext, base, [i \in DOMAIN calls |-> i])

IsRun(it, base, calls, result, seq) ==
    it = [s \in SUBSET (DOMAIN seq) |->
            IF s = {} THEN base
            ELSE ran(it[s \ {Max(s)}], calls[seq[Max(s)]], result[seq[Max(s)]], seq[Max(s)])]

TheRun(base, calls, result, seq) == CHOOSE it : IsRun(it, base, calls, result, seq)

LEMMA BatchUnfolds ==
    ASSUME NEW base, NEW calls, NEW result, NEW seq, seq = [i \in DOMAIN calls |-> i]
    PROVE  Batch(base, calls, result) = TheRun(base, calls, result, seq)[DOMAIN seq]
  BY DEF Batch, FoldLeft, MapThenFoldSet, IsRun, TheRun

\* What the calls of turn r make of the channels base.
OfTurn(r, base) ==
    {c \in Channels : /\ Own(c, r)
                      /\ c.intent = base.intent /\ c.agent_steps = base.agent_steps
                      /\ c.failure_reason = base.failure_reason
                      /\ c.output = Nothing => c.reply = Nothing /\ c.reply_language = Nothing}

(* A call leaves the channels the turn's own, and says nothing without a
   proposal. *)
LEMMA RanOwn ==
    ASSUME NEW r \in Turn, Now = r, NEW base, NEW c \in OfTurn(r, base),
           NEW ask \in Asks, NEW res \in Result, NEW i \in 1..BatchSize
    PROVE  ran(c, ask, res, i) \in OfTurn(r, base)
<1>1. /\ c \in Channels /\ Own(c, r)
      /\ c.intent = base.intent /\ c.agent_steps = base.agent_steps
      /\ c.failure_reason = base.failure_reason
      /\ c.output = Nothing => c.reply = Nothing /\ c.reply_language = Nothing
  BY DEF OfTurn
<1>2. PICK items : items = {item \in c.search_results : item[2] \notin res.items} \cup ({r} \X res.items)
  OBVIOUS
<1>3. items \in SUBSET (Turn \X Key) /\ \A item \in items : item[1] = r
  <2>1. res.items \in SUBSET Key
    BY DEF Result
  <2>2. c.search_results \in SUBSET (Turn \X Key) /\ \A item \in c.search_results : item[1] = r
    BY <1>1 DEF Channels, Own
  <2>3. {r} \X res.items \in SUBSET (Turn \X Key) /\ \A item \in {r} \X res.items : item[1] = r
    BY <2>1
  <2> QED
    BY <1>2, <2>2, <2>3
<1>4. PICK text : text = <<r, i>>
  OBVIOUS
<1>5. text \in Author \cup {Nothing} /\ text[1] = r /\ text # Nothing
  BY <1>4, SizesAssumption, NothingAssumption DEF Author
<1>6. PICK named : named = resolveMentionedItems(ask.names, c.search_results)
  OBVIOUS
<1>7. named \in SUBSET (Turn \X Key) /\ \A item \in named : item[1] = r
  BY <1>1, <1>6 DEF resolveMentionedItems, Own, Channels
<1>8. /\ c.reply \in Author \cup {Nothing} /\ c.reply_language \in Author \cup {Nothing}
      /\ c.mentioned_items \in SUBSET (Turn \X Key)
      /\ c.intent \in {"service", "junk"} /\ c.calls \in CallLists
      /\ c.agent_steps \in 0..maxAgentSteps /\ c.failure_reason \in {Nothing, "agent_step_limit", "agent_no_terminal"}
  BY <1>1 DEF Channels, CallLists
<1>9. CASE ~ res.ok
  BY <1>9 DEF ran
<1>10. CASE res.ok /\ ask.tool = "search_menu"
  <2>1. PICK d : d = [c EXCEPT !.search_results = items]
    OBVIOUS
  <2>2. d = ran(c, ask, res, i)
    BY <1>2, <1>10, <2>1 DEF ran
  <2>3. d \in Channels
    <3>1. [c EXCEPT !.search_results = items] \in Channels
      BY ONLY <1>1, <1>3, <1>5, <1>8, Patched
    <3> QED
      BY <2>1, <3>1
  <2>4. /\ d.output = c.output /\ d.reply = c.reply /\ d.reply_language = c.reply_language
        /\ d.search_results = items /\ d.mentioned_items = c.mentioned_items
        /\ d.failure_reason = c.failure_reason /\ d.intent = c.intent /\ d.agent_steps = c.agent_steps
    BY <1>1, <2>1 DEF Channels
  <2>5. Own(d, r)
    BY <1>1, <1>3, <2>4 DEF Own
  <2> QED
    BY <1>1, <2>2, <2>3, <2>4, <2>5 DEF OfTurn
<1>11. CASE res.ok /\ ask.tool # "search_menu"
  <2>1. PICK reply, lang, kept :
            /\ reply = IF ask.says THEN text ELSE c.reply
            /\ lang = IF ask.lang THEN text ELSE c.reply_language
            /\ kept = IF ask.says THEN named ELSE c.mentioned_items
    OBVIOUS
  <2>2. /\ reply \in Author \cup {Nothing} /\ lang \in Author \cup {Nothing}
        /\ kept \in SUBSET (Turn \X Key)
        /\ reply # Nothing => reply[1] = r
        /\ lang # Nothing => lang[1] = r
        /\ \A item \in kept : item[1] = r
    <3>1. /\ c.reply # Nothing => c.reply[1] = r
          /\ c.reply_language # Nothing => c.reply_language[1] = r
          /\ \A item \in c.mentioned_items : item[1] = r
      BY <1>1 DEF Own
    <3> QED
      BY <1>5, <1>7, <1>8, <2>1, <3>1
  <2>3. PICK d : d = [c EXCEPT !.output = text, !.reply = reply, !.reply_language = lang, !.mentioned_items = kept]
    OBVIOUS
  <2>4. d = ran(c, ask, res, i)
    BY <1>1, <1>4, <1>6, <1>11, <2>1, <2>3 DEF ran, Channels
  <2>5. d \in Channels
    <3>1. PICK x : x = [c EXCEPT !.output = text]
      OBVIOUS
    <3>2. PICK y : y = [x EXCEPT !.reply = reply]
      OBVIOUS
    <3>3. PICK z : z = [y EXCEPT !.reply_language = lang]
      OBVIOUS
    <3>4. x \in Channels
      <4>1. [c EXCEPT !.output = text] \in Channels
        BY ONLY <1>1, <1>3, <1>5, <1>8, Patched
      <4> QED
        BY <3>1, <4>1
    <3>5. y \in Channels
      <4>1. [x EXCEPT !.reply = reply] \in Channels
        BY ONLY <3>4, <1>3, <2>2, <1>8, Patched
      <4> QED
        BY <3>2, <4>1
    <3>6. z \in Channels
      <4>1. [y EXCEPT !.reply_language = lang] \in Channels
        BY ONLY <3>5, <1>3, <2>2, <1>8, Patched
      <4> QED
        BY <3>3, <4>1
    <3>7. [z EXCEPT !.mentioned_items = kept] \in Channels
      BY ONLY <3>6, <1>5, <2>2, <1>8, Patched
    <3>8. d = [z EXCEPT !.mentioned_items = kept]
      BY <1>1, <2>3, <3>1, <3>2, <3>3 DEF Channels
    <3> QED
      BY <3>7, <3>8
  <2>6. /\ d.output = text /\ d.reply = reply /\ d.reply_language = lang
        /\ d.search_results = c.search_results /\ d.mentioned_items = kept
        /\ d.failure_reason = c.failure_reason /\ d.intent = c.intent /\ d.agent_steps = c.agent_steps
    BY <1>1, <2>3 DEF Channels
  <2>7. Own(d, r)
    <3>1. \A item \in c.search_results : item[1] = r
      BY <1>1 DEF Own
    <3> QED
      BY <1>5, <2>2, <2>6, <3>1 DEF Own
  <2> QED
    BY <1>1, <1>5, <2>4, <2>5, <2>6, <2>7 DEF OfTurn
<1> QED
  BY <1>9, <1>10, <1>11

(* So do all calls of an answer. *)
LEMMA BatchOwn ==
    ASSUME NEW r \in Turn, Now = r, NEW base, base \in OfTurn(r, base),
           NEW n \in 0..BatchSize, NEW calls \in [1..n -> Asks], NEW result \in [1..n -> Result]
    PROVE  Batch(base, calls, result) \in OfTurn(r, base)
<1>1. n \in Nat /\ DOMAIN calls = 1..n /\ 1..n \in SUBSET (1..BatchSize)
  BY SizesAssumption
<1>2. PICK T : T = OfTurn(r, base)
  OBVIOUS
<1>3. ASSUME NEW c \in T, NEW k \in 1..n
      PROVE  ran(c, calls[k], result[k], k) \in T
  <2>1. c \in OfTurn(r, base) /\ k \in 1..BatchSize /\ calls[k] \in Asks /\ result[k] \in Result
    BY <1>1, <1>2
  <2>2. PICK ask \in Asks, res \in Result : ask = calls[k] /\ res = result[k]
    BY <2>1
  <2>3. ran(c, ask, res, k) \in OfTurn(r, base)
    BY ONLY r \in Turn, Now = r, ask \in Asks, res \in Result, <2>1, RanOwn
  <2> QED
    BY <1>2, <2>2, <2>3
<1>4. base \in T
  BY <1>2
<1>5. PICK F : F = [x \in T \X (1..n) |-> ran(x[1], calls[x[2]], result[x[2]], x[2])]
  OBVIOUS
<1>6. \A c \in T, k \in 1..n : F[<<c, k>>] = ran(c, calls[k], result[k], k)
  BY <1>5
<1>7. F \in [T \X (1..n) -> T]
  <2>1. \A x \in T \X (1..n) : ran(x[1], calls[x[2]], result[x[2]], x[2]) \in T
    BY <1>3
  <2> QED
    BY <1>5, <2>1
<1>8. PICK g : FoldsTo(g, T, F, base, n) /\ g = [s \in SUBSET (1..n) |-> g[s]]
  <2>1. \E g : Solves(g, T, F, base, n)
    BY ONLY <1>1, <1>4, <1>7, FoldExists
  <2> QED
    BY <2>1 DEF Solves
<1>9. PICK seq : seq = [i \in DOMAIN calls |-> i]
  OBVIOUS
<1>10. DOMAIN seq = 1..n /\ \A i \in 1..n : seq[i] = i
  BY <1>1, <1>9
<1>11. \A s \in SUBSET (1..n) : s # {} => Max(s) \in s /\ \A y \in s : Max(s) >= y
  <2>1. SUBSET (1..n) \subseteq SUBSET (0..n)
    BY <1>1
  <2> QED
    BY <1>1, <2>1, Largest
<1>12. IsRun(g, base, calls, result, seq)
  <2>1. ASSUME NEW s \in SUBSET (1..n)
        PROVE  g[s] = IF s = {} THEN base
                      ELSE ran(g[s \ {Max(s)}], calls[seq[Max(s)]], result[seq[Max(s)]], seq[Max(s)])
    <3>1. g[s] = IF s = {} THEN base ELSE F[<<g[s \ {Max(s)}], Max(s)>>]
      BY <1>8 DEF FoldsTo
    <3>2. CASE s = {}
      BY <3>1, <3>2
    <3>3. CASE s # {}
      <4>1. PICK m : m = Max(s)
        OBVIOUS
      <4>2. m \in 1..n
        BY <1>11, <3>3, <4>1
      <4>3. s \ {m} \in SUBSET (1..n)
        OBVIOUS
      <4>4. g[s \ {m}] \in T
        BY <1>8, <4>3 DEF FoldsTo
      <4>5. F[<<g[s \ {m}], m>>] = ran(g[s \ {m}], calls[m], result[m], m)
        BY <1>6, <4>2, <4>4
      <4>6. seq[m] = m
        BY <1>10, <4>2
      <4>7. g[s] = ran(g[s \ {m}], calls[seq[m]], result[seq[m]], seq[m])
        BY <3>1, <3>3, <4>1, <4>5, <4>6
      <4> QED
        BY <3>3, <4>1, <4>7
    <3> QED
      BY <3>2, <3>3
  <2>2. g = [s \in SUBSET (1..n) |->
               IF s = {} THEN base
               ELSE ran(g[s \ {Max(s)}], calls[seq[Max(s)]], result[seq[Max(s)]], seq[Max(s)])]
    <3>1. [s \in SUBSET (1..n) |-> g[s]]
            = [s \in SUBSET (1..n) |->
                 IF s = {} THEN base
                 ELSE ran(g[s \ {Max(s)}], calls[seq[Max(s)]], result[seq[Max(s)]], seq[Max(s)])]
      BY ONLY <2>1
    <3> QED
      BY ONLY <1>8, <3>1
  <2> QED
    BY <1>10, <2>2 DEF IsRun
<1>13. PICK it : it = TheRun(base, calls, result, seq)
  OBVIOUS
<1>14. IsRun(it, base, calls, result, seq)
  BY <1>12, <1>13 DEF TheRun
<1>15. ASSUME NEW s \in SUBSET (1..n), s # {}, NEW m \in 1..n, m = Max(s)
       PROVE  it[s] = ran(it[s \ {m}], calls[m], result[m], m)
  <2>1. it[s] = ran(it[s \ {Max(s)}], calls[seq[Max(s)]], result[seq[Max(s)]], seq[Max(s)])
    BY <1>10, <1>14, <1>15 DEF IsRun
  <2>2. seq[m] = m
    BY <1>10
  <2> QED
    BY <1>15, <2>1, <2>2
<1>16. it[{}] = base
  BY <1>10, <1>14 DEF IsRun
<1> DEFINE Bad == {k \in 0..n : it[1..k] \notin T}
<1>17. Bad = {}
  <2> SUFFICES ASSUME Bad # {} PROVE FALSE
    OBVIOUS
  <2>1. PICK k \in Bad : \A j \in Bad : k <= j
    <3>1. Bad \in SUBSET Nat
      OBVIOUS
    <3> HIDE DEF Bad
    <3> QED
      BY <3>1, LeastElement
  <2>2. k \in 0..n /\ it[1..k] \notin T
    BY <2>1
  <2>3. k # 0
    <3>1. 1..0 = {}
      OBVIOUS
    <3> QED
      BY <1>4, <1>16, <2>2, <3>1
  <2>4. k - 1 \in 0..n /\ k - 1 \notin Bad
    BY <1>1, <2>1, <2>2, <2>3
  <2>5. it[1..(k - 1)] \in T
    BY <2>4
  <2>6. PICK s, m : s = 1..k /\ m = Max(s)
    OBVIOUS
  <2>7. s \in SUBSET (1..n) /\ s # {} /\ k \in s
    <3>1. k \in Nat /\ 1 <= k /\ k <= n
      BY <1>1, <2>2, <2>3
    <3>2. k \in s
      BY <2>6, <3>1
    <3>3. \A x \in s : x \in 1..n
      BY <1>1, <2>6, <3>1
    <3> QED
      BY <3>2, <3>3
  <2>8. m \in s /\ m >= k
    BY <1>11, <2>6, <2>7
  <2>9. m = k /\ m \in 1..n /\ s \ {m} = 1..(k - 1)
    BY <1>1, <2>2, <2>6, <2>7, <2>8
  <2>10. it[s] = ran(it[s \ {m}], calls[m], result[m], m)
    BY <1>15, <2>6, <2>7, <2>9
  <2>11. PICK c \in T : c = it[1..(k - 1)]
    BY <2>5
  <2>12. ran(c, calls[m], result[m], m) \in T
    BY <1>3, <2>9
  <2> QED
    BY <2>2, <2>6, <2>9, <2>10, <2>11, <2>12
<1>18. it[1..n] \in T
  BY <1>1, <1>17
<1>19. Batch(base, calls, result) = TheRun(base, calls, result, seq)[DOMAIN seq]
  BY ONLY <1>9, BatchUnfolds
<1> QED
  BY <1>2, <1>10, <1>13, <1>18, <1>19

LEMMA RunToolsKeeps ==
    ASSUME IInv, runTools
    PROVE  IInv'
<1>1. node = "tools" /\ history' = history /\ seen' = seen
  BY DEF runTools
<1>2. PICK r \in Turn : turn[r] = "running" /\ Now = r /\ Running(r)
  BY <1>1, InGraph
<1>3. TypeOK /\ Counted
  BY DEF IInv
<1>4. /\ ch \in Channels /\ hops \in Nat /\ hops = 2 * ch.agent_steps + 2
      /\ Own(ch, r) /\ Silent(ch) /\ ch.intent = "service" /\ ch.agent_steps \in 0..maxAgentSteps
  BY <1>1, <1>2, <1>3 DEF TypeOK, Counted, Running, Channels
<1>5. PICK n \in 0..BatchSize : ch.calls \in [1..n -> Asks]
  BY <1>4 DEF Channels
<1>6. PICK result \in [DOMAIN ch.calls -> Result] :
          Superstep(Batch(ch, ch.calls, result),
                    IF Batch(ch, ch.calls, result).output # Nothing THEN "finalize" ELSE "agent")
  BY DEF runTools, Batch
<1>7. PICK c, next : /\ c = Batch(ch, ch.calls, result)
                     /\ next = IF c.output # Nothing THEN "finalize" ELSE "agent"
  OBVIOUS
<1>8. Superstep(c, next)
  BY <1>6, <1>7
<1>9. c \in OfTurn(r, ch)
  <2>1. ch \in OfTurn(r, ch)
    BY <1>4 DEF OfTurn, Silent
  <2>2. result \in [1..n -> Result]
    BY <1>5
  <2>3. PICK calls : calls = ch.calls
    OBVIOUS
  <2>4. calls \in [1..n -> Asks]
    BY <1>5, <2>3
  <2>5. Batch(ch, calls, result) \in OfTurn(r, ch)
    BY ONLY r \in Turn, <1>2, n \in 0..BatchSize, <2>1, <2>2, <2>4, BatchOwn
  <2> QED
    BY <1>7, <2>3, <2>5
<1>10. /\ c \in Channels /\ Own(c, r)
       /\ c.intent = "service" /\ c.agent_steps = ch.agent_steps
       /\ c.failure_reason = Nothing
       /\ c.output = Nothing => c.reply = Nothing /\ c.reply_language = Nothing
  BY <1>4, <1>9 DEF OfTurn, Silent
<1>11. ch' = c /\ node' = next /\ hops' = hops + 1
  BY <1>8 DEF Superstep
<1>12. /\ next = "finalize" => Concluded(c)
       /\ next = "agent" => Silent(c)
       /\ next \in {"finalize", "agent"}
  BY <1>7, <1>10 DEF Concluded, Silent
<1>13. Counted'
  BY <1>4, <1>10, <1>11, <1>12, SizesAssumption DEF Counted
<1>14. Running(r)'
  BY <1>10, <1>11, <1>12 DEF Running
<1>15. next \in Node \ {"idle"} /\ node # "idle"
  BY <1>1, <1>12 DEF Node
<1> QED
  BY <1>1, <1>2, <1>3, <1>8, <1>10, <1>13, <1>14, <1>15, SuperstepKeeps DEF TypeOK

(* What the last node left says how the turn ended: dropped, failed, or in the
   words and the proposal of its own agent. *)
LEMMA DispatchedKeeps ==
    ASSUME IInv, dispatch
    PROVE  IInv'
<1>1. node = "interpret" /\ Dispatch(interpret)
  BY DEF dispatch
<1>2. PICK r \in Turn : turn[r] = "running" /\ Running(r)
  BY <1>1, InGraph
<1>3. /\ ch \in Channels /\ ch.intent \in {"service", "junk"} /\ Own(ch, r)
      /\ ch.intent = "service" => Concluded(ch) /\ history # <<>> /\ Last(history).agent_reply = ch.reply
      /\ ch.intent = "junk" => ~ Heard(r)
  BY <1>1, <1>2 DEF IInv, TypeOK, Running, Channels
<1>4. /\ ch.output \in Author \cup {Nothing} /\ ch.reply \in Author \cup {Nothing}
      /\ ch.reply_language \in Author \cup {Nothing}
      /\ ch.mentioned_items \in SUBSET (Turn \X Key)
      /\ ch.failure_reason \in {Nothing, "agent_step_limit", "agent_no_terminal"}
  BY <1>3 DEF Channels
<1>5. PICK result : result = interpret
  OBVIOUS
<1>6. Dispatch(result) /\ node # "idle"
  BY <1>1, <1>5
<1>7. CASE ch.intent = "junk"
  <2>1. result = [quiet EXCEPT !.status = "junk"]
    BY <1>5, <1>7 DEF interpret
  <2>2. result = [status |-> "junk", output |-> Nothing, reply |-> Nothing, language |-> Nothing,
                  mentioned |-> {}, reason |-> Nothing]
    BY <2>1 DEF quiet
  <2>3. result \in Outcome
    BY <2>2 DEF Outcome
  <2>4. /\ \A text \in {result.output, result.reply, result.language} \ {Nothing} : text[1] = r
        /\ \A item \in result.mentioned : item[1] = r
        /\ result.status = "complete" <=> result.output # Nothing
        /\ result.status = "reply" => result.reply # Nothing
        /\ result.reply # Nothing => answering
        /\ result.status = "junk" => ~ Heard(r)
    BY <1>3, <1>7, <2>2
  <2> QED
    BY ONLY IInv, r \in Turn, <1>2, <1>6, <2>3, <2>4, DispatchKeeps
<1>8. CASE ch.intent # "junk" /\ ch.failure_reason # Nothing
  <2>1. result = [quiet EXCEPT !.status = "fail", !.reason = ch.failure_reason]
    BY <1>5, <1>8 DEF interpret
  <2>2. result = [status |-> "fail", output |-> Nothing, reply |-> Nothing, language |-> Nothing,
                  mentioned |-> {}, reason |-> ch.failure_reason]
    BY <2>1 DEF quiet
  <2>3. result \in Outcome
    BY <1>4, <2>2 DEF Outcome
  <2>4. /\ \A text \in {result.output, result.reply, result.language} \ {Nothing} : text[1] = r
        /\ \A item \in result.mentioned : item[1] = r
        /\ result.status = "complete" <=> result.output # Nothing
        /\ result.status = "reply" => result.reply # Nothing
        /\ result.reply # Nothing => answering
        /\ result.status = "junk" => ~ Heard(r)
    BY <2>2
  <2> QED
    BY ONLY IInv, r \in Turn, <1>2, <1>6, <2>3, <2>4, DispatchKeeps
<1>9. CASE ch.intent # "junk" /\ ch.failure_reason = Nothing
  <2>1. PICK status, language, mentioned :
            /\ status = IF ch.output # Nothing THEN "complete" ELSE "reply"
            /\ language = IF ch.reply = Nothing THEN Nothing ELSE ch.reply_language
            /\ mentioned = IF ch.reply = Nothing THEN {} ELSE ch.mentioned_items
    OBVIOUS
  <2>2. result = [status |-> status, output |-> ch.output, reply |-> ch.reply, language |-> language,
                  mentioned |-> mentioned, reason |-> Nothing]
    BY <1>5, <1>9, <2>1 DEF interpret, quiet
  <2>3. result \in Outcome
    <3>1. /\ status \in {"complete", "reply"} /\ language \in Author \cup {Nothing}
          /\ mentioned \in SUBSET (Turn \X Key)
      BY <1>4, <2>1
    <3> QED
      BY <1>4, <2>2, <3>1 DEF Outcome
  <2>4. /\ \A text \in {ch.output, ch.reply, language} \ {Nothing} : text[1] = r
        /\ \A item \in mentioned : item[1] = r
        /\ status = "complete" <=> ch.output # Nothing
        /\ status = "reply" => ch.reply # Nothing
        /\ ch.reply # Nothing => answering
        /\ status # "junk"
    BY <1>3, <1>9, <2>1 DEF Own, Concluded, answering
  <2>5. /\ \A text \in {result.output, result.reply, result.language} \ {Nothing} : text[1] = r
        /\ \A item \in result.mentioned : item[1] = r
        /\ result.status = "complete" <=> result.output # Nothing
        /\ result.status = "reply" => result.reply # Nothing
        /\ result.reply # Nothing => answering
        /\ result.status = "junk" => ~ Heard(r)
    BY <2>2, <2>4
  <2> QED
    BY ONLY IInv, r \in Turn, <1>2, <1>6, <2>3, <2>5, DispatchKeeps
<1> QED
  BY <1>7, <1>8, <1>9

(* A turn whose node throws says nothing. *)
LEMMA ThrowKeeps ==
    ASSUME IInv, NodeThrows
    PROVE  IInv'
<1>1. node # "idle"
  BY DEF NodeThrows
<1>2. PICK r \in Turn : turn[r] = "running"
  BY <1>1, InGraph
<1>3. PICK reason \in {"order_parse_failed", "llm_rate_limited"} :
          Dispatch([quiet EXCEPT !.status = "fail", !.reason = reason])
  BY DEF NodeThrows
<1>4. PICK result : result = [quiet EXCEPT !.status = "fail", !.reason = reason]
  OBVIOUS
<1>5. result = [status |-> "fail", output |-> Nothing, reply |-> Nothing, language |-> Nothing,
                mentioned |-> {}, reason |-> reason]
  BY <1>4 DEF quiet
<1>6. result \in Outcome
  BY <1>5 DEF Outcome
<1>7. /\ \A text \in {result.output, result.reply, result.language} \ {Nothing} : text[1] = r
      /\ \A item \in result.mentioned : item[1] = r
      /\ result.status = "complete" <=> result.output # Nothing
      /\ result.status = "reply" => result.reply # Nothing
      /\ result.reply # Nothing => answering
      /\ result.status = "junk" => ~ Heard(r)
  BY <1>5
<1>8. Dispatch(result)
  BY <1>3, <1>4
<1> QED
  BY ONLY IInv, r \in Turn, <1>1, <1>2, <1>6, <1>7, <1>8, DispatchKeeps

-----------------------------------------------------------------------------
LEMMA NextKeeps == IInv /\ [Next]_vars => IInv'
<1> SUFFICES ASSUME IInv, [Next]_vars PROVE IInv'
  OBVIOUS
<1>1. ASSUME NEW t \in Turn, handleFinalTranscript(t) PROVE IInv'
  BY <1>1, TranscriptKeeps
<1>2. ASSUME NEW t \in Turn, applyProposal(t) PROVE IInv'
  BY <1>2, ApplyKeeps
<1>3. ASSUME NEW t \in Turn, normalize(t) PROVE IInv'
  BY <1>3, NormalizeKeeps
<1>4. CASE classify \/ load_cart \/ agent
  BY <1>4, ClassifyKeeps, LoadCartKeeps, AgentKeeps
<1>5. CASE runTools \/ finalize
  BY <1>5, RunToolsKeeps, FinalizeKeeps
<1>6. CASE dispatch \/ NodeThrows
  BY <1>6, DispatchedKeeps, ThrowKeeps
<1>7. CASE UNCHANGED vars
  <2>1. /\ turn' = turn /\ turnAhead' = turnAhead /\ apply' = apply /\ applyAhead' = applyAhead
        /\ node' = node /\ ch' = ch /\ history' = history /\ outcome' = outcome /\ cart' = cart
        /\ seen' = seen /\ hops' = hops
    BY <1>7 DEF vars
  <2>2. TypeOK'
    BY <2>1 DEF IInv, TypeOK, Queue!TypeOK, Lock!TypeOK
  <2>3. TurnsInOrder' /\ ProposalsInOrder' /\ CommitsInOrder'
    BY <2>1 DEF IInv, TurnsInOrder, ProposalsInOrder, CommitsInOrder, Queue!Present, Lock!Present
  <2>4. AtRest' /\ Counted'
    BY <2>1 DEF IInv, AtRest, Latest, answering, Counted
  <2>5. Outcomes'
    BY <2>1 DEF IInv, Outcomes, OutcomeIsOwn, AnswersAreHeard, Written
  <2>6. ASSUME NEW r \in Turn, turn'[r] = "running" PROVE Running(r)'
    <3>1. Running(r)
      BY <2>1, <2>6 DEF IInv
    <3> QED
      BY <2>1, <3>1 DEF Running, Own, Silent, Concluded, Heard, answering
  <2> QED
    BY <2>2, <2>3, <2>4, <2>5, <2>6 DEF IInv
<1> QED
  BY <1>1, <1>2, <1>3, <1>4, <1>5, <1>6, <1>7 DEF Next, Graph

LEMMA Invariance == Spec => []IInv
  BY InitIInv, NextKeeps, PTL DEF Spec

-----------------------------------------------------------------------------
(* Every variable keeps its type: the channels hold what a turn can write, the
   history never more than its cap. *)
THEOREM TypeCorrect == Spec => []TypeOK
<1>1. IInv => TypeOK
  BY DEF IInv
<1> QED
  BY Invariance, <1>1, PTL

(* OrderGraph: what a turn proposes and says was written by its own agent, and
   the items it names were found by a search of its own, though the channels
   outlive the turn in the checkpointer and any node may throw. *)
THEOREM OwnWords == Spec => []OutcomeIsOwn
<1>1. IInv => OutcomeIsOwn
  BY DEF IInv, Outcomes
<1> QED
  BY Invariance, <1>1, PTL

(* build-graph.ts: whoever the backend spoke to is heard, however many turns
   wait and whichever of them failed. *)
THEOREM RepliesAreAnswered == Spec => []AnswersAreHeard
<1>1. IInv => AnswersAreHeard
  BY DEF IInv, Outcomes
<1> QED
  BY Invariance, <1>1, PTL

(* A turn of n agent steps takes at most 2n + 5 supersteps: LangGraph's limit of
   25 is out of reach of the code's 8. *)
THEOREM EndsInWords == Spec => []WithinRecursionLimit
<1>1. IInv => WithinRecursionLimit
  <2> SUFFICES ASSUME IInv PROVE WithinRecursionLimit
    OBVIOUS
  <2>1. /\ Counted /\ hops \in Nat /\ node \in Node /\ ch.agent_steps \in 0..maxAgentSteps
        /\ node = "idle" => hops = 0
    BY DEF IInv, TypeOK, AtRest, Channels
  <2> QED
    BY <2>1, SizesAssumption DEF Counted, Node, WithinRecursionLimit
<1> QED
  BY Invariance, <1>1, PTL

(* Two queues later, the proposals are committed in the order their utterances
   were spoken. *)
THEOREM SpokenOrder == Spec => []CommitsInOrder
<1>1. IInv => CommitsInOrder
  BY DEF IInv
<1> QED
  BY Invariance, <1>1, PTL

-----------------------------------------------------------------------------
(* The check of required option groups: recursion over the operations of a
   batch, or the keys of a line. *)

Recurs(f, n, T, base, F) ==
    f \in [0..n -> T] /\ f[0] = base /\ \A k \in 1..n : f[k] = F[<<f[k - 1], k>>]

LEMMA RecursionExists ==
    ASSUME NEW n \in Nat, NEW T, NEW base \in T, NEW F \in [T \X (1..n) -> T]
    PROVE  \E f : Recurs(f, n, T, base, F)
<1> DEFINE Good(m) == \E f \in [0..m -> T] : f[0] = base /\ \A k \in 1..m : f[k] = F[<<f[k - 1], k>>]
<1>1. Good(0)
  <2>1. /\ [i \in 0..0 |-> base] \in [0..0 -> T]
        /\ [i \in 0..0 |-> base][0] = base
        /\ 1..0 = {}
    OBVIOUS
  <2> QED
    BY <2>1
<1>2. ASSUME NEW m \in Nat, m < n, Good(m) PROVE Good(m + 1)
  <2>1. PICK f \in [0..m -> T] : f[0] = base /\ \A k \in 1..m : f[k] = F[<<f[k - 1], k>>]
    BY <1>2
  <2>2. f[m] \in T /\ m + 1 \in 1..n
    BY <1>2
  <2>3. F[<<f[m], m + 1>>] \in T
    BY <2>2
  <2>4. PICK last \in T : last = F[<<f[m], m + 1>>]
    BY <2>3
  <2>5. PICK g : g = [i \in 0..(m + 1) |-> IF i <= m THEN f[i] ELSE last]
    OBVIOUS
  <2>6. /\ g \in [0..(m + 1) -> T]
        /\ \A i \in 0..m : g[i] = f[i]
        /\ g[m + 1] = last
    BY <1>2, <2>1, <2>5
  <2>7. ASSUME NEW k \in 1..(m + 1) PROVE g[k] = F[<<g[k - 1], k>>]
    <3>1. CASE k <= m
      <4>1. k \in 1..m /\ k - 1 \in 0..m /\ k \in 0..m
        BY <1>2, <3>1
      <4> QED
        BY <2>1, <2>6, <4>1
    <3>2. CASE k = m + 1
      <4>1. k - 1 = m /\ m \in 0..m
        BY <1>2, <3>2
      <4>2. g[k - 1] = f[m]
        BY <2>6, <4>1
      <4> QED
        BY <2>4, <2>6, <3>2, <4>2
    <3> QED
      BY <1>2, <3>1, <3>2
  <2>8. g[0] = base
    BY <1>2, <2>1, <2>6
  <2> QED
    BY <2>6, <2>7, <2>8
<1> DEFINE Bad == {m \in 0..n : ~ Good(m)}
<1>3. Bad = {}
  <2> SUFFICES ASSUME Bad # {} PROVE FALSE
    OBVIOUS
  <2> HIDE DEF Good
  <2>1. PICK m \in Bad : \A k \in Bad : m <= k
    <3>1. Bad \in SUBSET Nat
      OBVIOUS
    <3> HIDE DEF Bad
    <3> QED
      BY <3>1, LeastElement
  <2>2. m # 0
    BY <1>1, <2>1
  <2>3. m - 1 \in Nat /\ m - 1 < n /\ m - 1 \notin Bad /\ (m - 1) + 1 = m
    BY <2>1, <2>2
  <2>4. Good((m - 1) + 1)
    BY <1>2, <2>3
  <2> QED
    BY <2>1, <2>3, <2>4
<1>4. Good(n)
  <2> HIDE DEF Good
  <2>1. n \in 0..n
    OBVIOUS
  <2> QED
    BY <1>3, <2>1
<1> QED
  BY <1>4 DEF Recurs

LEMMA RecursionTyped ==
    ASSUME NEW n \in Nat, NEW T, NEW it, it[0] \in T,
           \A k \in 1..n : it[k - 1] \in T => it[k] \in T
    PROVE  \A k \in 0..n : it[k] \in T
<1> DEFINE Bad == {k \in 0..n : it[k] \notin T}
<1>1. Bad = {}
  <2> SUFFICES ASSUME Bad # {} PROVE FALSE
    OBVIOUS
  <2>1. PICK m \in Bad : \A k \in Bad : m <= k
    <3>1. Bad \in SUBSET Nat
      OBVIOUS
    <3> HIDE DEF Bad
    <3> QED
      BY <3>1, LeastElement
  <2>2. m # 0
    BY <2>1
  <2>3. m \in 1..n /\ m - 1 \in 0..n /\ m - 1 \notin Bad
    BY <2>1, <2>2
  <2> QED
    BY <2>1, <2>3
<1> QED
  BY <1>1

\* The keys of S among the first i, for every i.
KeptOf(it, keys, S) ==
    it = [i \in 0..Len(keys) |->
            IF i = 0 THEN <<>>
            ELSE IF keys[i] \in S THEN Append(it[i - 1], keys[i]) ELSE it[i - 1]]

Keeps(kept, keys, S, W) ==
    /\ kept \in [0..Len(keys) -> Seq(W)]
    /\ kept[0] = <<>>
    /\ \A i \in 1..Len(keys) :
          kept[i] = IF keys[i] \in S THEN Append(kept[i - 1], keys[i]) ELSE kept[i - 1]
    /\ Only(keys, S) = kept[Len(keys)]

LEMMA OnlyUnfolds ==
    ASSUME NEW W, NEW keys \in Seq(W), NEW S
    PROVE  \E kept : Keeps(kept, keys, S, W)
<1>1. PICK n \in Nat : n = Len(keys)
  OBVIOUS
<1>2. \A i \in 1..n : keys[i] \in W
  BY <1>1
<1>3. PICK F : F = [x \in Seq(W) \X (1..n) |-> IF keys[x[2]] \in S THEN Append(x[1], keys[x[2]]) ELSE x[1]]
  OBVIOUS
<1>4. /\ F \in [Seq(W) \X (1..n) -> Seq(W)]
      /\ \A s \in Seq(W), i \in 1..n : F[<<s, i>>] = IF keys[i] \in S THEN Append(s, keys[i]) ELSE s
  BY <1>2, <1>3
<1>5. PICK f \in [0..n -> Seq(W)] : f[0] = <<>> /\ \A k \in 1..n : f[k] = F[<<f[k - 1], k>>]
  <2>1. <<>> \in Seq(W)
    OBVIOUS
  <2>2. PICK none \in Seq(W) : none = <<>>
    BY <2>1
  <2>3. PICK T : T = Seq(W)
    OBVIOUS
  <2>4. none \in T /\ F \in [T \X (1..n) -> T]
    BY <1>4, <2>3
  <2>5. \E f : Recurs(f, n, T, none, F)
    BY ONLY n \in Nat, <2>4, RecursionExists
  <2> QED
    BY <2>2, <2>3, <2>5 DEF Recurs
<1>6. KeptOf(f, keys, S)
  <2>1. \A i \in 0..n : f[i] = IF i = 0 THEN <<>>
                               ELSE IF keys[i] \in S THEN Append(f[i - 1], keys[i]) ELSE f[i - 1]
    <3> TAKE i \in 0..n
    <3>1. CASE i = 0
      BY <1>5, <3>1
    <3>2. CASE i # 0
      <4>1. i \in 1..n /\ i - 1 \in 0..n
        BY <3>2
      <4>2. f[i - 1] \in Seq(W)
        BY <4>1
      <4> QED
        BY <1>4, <1>5, <3>2, <4>1, <4>2
    <3> QED
      BY <3>1, <3>2
  <2>2. f = [i \in 0..n |-> f[i]]
    OBVIOUS
  <2>3. f = [i \in 0..n |-> IF i = 0 THEN <<>>
                            ELSE IF keys[i] \in S THEN Append(f[i - 1], keys[i]) ELSE f[i - 1]]
    BY ONLY <2>1, <2>2
  <2> QED
    BY <1>1, <2>3 DEF KeptOf
<1>7. PICK it : it = CHOOSE kept : KeptOf(kept, keys, S)
  OBVIOUS
<1>8. KeptOf(it, keys, S)
  BY <1>6, <1>7
<1>9. Only(keys, S) = it[n]
  <2>1. Only(keys, S) = (CHOOSE kept : KeptOf(kept, keys, S))[Len(keys)]
    BY DEF Only, KeptOf
  <2> QED
    BY <1>1, <1>7, <2>1
<1>10. /\ it[0] = <<>>
       /\ \A i \in 1..n : it[i] = IF keys[i] \in S THEN Append(it[i - 1], keys[i]) ELSE it[i - 1]
       /\ it = [i \in 0..n |-> it[i]]
  <2>1. it = [i \in 0..n |-> IF i = 0 THEN <<>>
                             ELSE IF keys[i] \in S THEN Append(it[i - 1], keys[i]) ELSE it[i - 1]]
    BY ONLY <1>1, <1>8 DEF KeptOf
  <2>2. it[0] = <<>>
    BY ONLY n \in Nat, <2>1
  <2>3. \A i \in 1..n : it[i] = IF keys[i] \in S THEN Append(it[i - 1], keys[i]) ELSE it[i - 1]
    <3> TAKE i \in 1..n
    <3>1. i \in 0..n /\ i # 0
      OBVIOUS
    <3> QED
      BY ONLY <2>1, <3>1
  <2>4. it = [i \in 0..n |-> it[i]]
    BY ONLY <2>1
  <2> QED
    BY <2>2, <2>3, <2>4
<1>11. \A i \in 0..n : it[i] \in Seq(W)
  <2>1. PICK T : T = Seq(W)
    OBVIOUS
  <2>2. it[0] \in T
    BY <1>10, <2>1
  <2>3. \A i \in 1..n : it[i - 1] \in T => it[i] \in T
    <3> TAKE i \in 1..n
    <3>1. keys[i] \in W /\ it[i] = IF keys[i] \in S THEN Append(it[i - 1], keys[i]) ELSE it[i - 1]
      BY <1>2, <1>10
    <3>2. ASSUME NEW s \in Seq(W) PROVE Append(s, keys[i]) \in Seq(W)
      BY <3>1
    <3> QED
      BY <2>1, <3>1, <3>2
  <2>4. \A i \in 0..n : it[i] \in T
    BY ONLY n \in Nat, <2>2, <2>3, RecursionTyped
  <2> QED
    BY <2>1, <2>4
<1>12. it \in [0..n -> Seq(W)]
  BY <1>10, <1>11
<1>13. Keeps(it, keys, S, W)
  BY <1>1, <1>9, <1>10, <1>12 DEF Keeps
<1> QED
  BY <1>13
LEMMA RecursionAgrees ==
    ASSUME NEW n \in Nat, NEW f, NEW g, f[0] = g[0],
           \A k \in 1..n : f[k - 1] = g[k - 1] => f[k] = g[k]
    PROVE  f[n] = g[n]
<1> DEFINE Bad == {k \in 0..n : f[k] # g[k]}
<1>1. Bad = {}
  <2> SUFFICES ASSUME Bad # {} PROVE FALSE
    OBVIOUS
  <2>1. PICK m \in Bad : \A k \in Bad : m <= k
    <3>1. Bad \in SUBSET Nat
      OBVIOUS
    <3> HIDE DEF Bad
    <3> QED
      BY <3>1, LeastElement
  <2>2. m # 0
    BY <2>1
  <2>3. m \in 1..n /\ m - 1 \in 0..n /\ m - 1 \notin Bad
    BY <2>1, <2>2
  <2> QED
    BY <2>1, <2>3
<1>2. n \in 0..n
  OBVIOUS
<1> QED
  BY <1>1, <1>2

(* What holds of the empty sequence, and of every sequence one element longer
   than one it holds of, holds of all. *)
LEMMA SeqInduction ==
    ASSUME NEW W, NEW T, NEW s \in Seq(W), <<>> \in T,
           \A p \in Seq(W), k \in W : p \in T => Append(p, k) \in T
    PROVE  s \in T
<1> DEFINE pre == [i \in 0..Len(s) |-> [j \in 1..i |-> s[j]]]
<1>1. PICK n \in Nat : n = Len(s) /\ \A i \in 1..n : s[i] \in W
  OBVIOUS
<1>2. pre[0] \in T
  <2>1. pre[0] = <<>>
    OBVIOUS
  <2> QED
    BY <2>1
<1>3. ASSUME NEW k \in 1..n PROVE pre[k - 1] \in T => pre[k] \in T
  <2>1. PICK p, q : p = [j \in 1..(k - 1) |-> s[j]] /\ q = [j \in 1..k |-> s[j]]
    OBVIOUS
  <2>2. p \in Seq(W) /\ Len(p) = k - 1
    BY <1>1, <2>1
  <2>3. q = Append(p, s[k])
    <3>1. q \in Seq(W) /\ Append(p, s[k]) \in Seq(W)
      BY <1>1, <2>1, <2>2
    <3>2. Len(q) = Len(Append(p, s[k]))
      BY <1>1, <2>1, <2>2
    <3>3. \A j \in 1..Len(q) : q[j] = Append(p, s[k])[j]
      BY <1>1, <2>1, <2>2
    <3> QED
      BY <3>1, <3>2, <3>3, SeqEqual
  <2>4. pre[k - 1] = p /\ pre[k] = q
    BY <1>1, <2>1
  <2>5. p \in T => Append(p, s[k]) \in T
    BY <1>1, <2>2
  <2> HIDE DEF pre
  <2> QED
    BY <2>3, <2>4, <2>5
<1>4. \A k \in 0..n : pre[k] \in T
  <2>1. PICK it : it = pre
    OBVIOUS
  <2>2. it[0] \in T /\ \A k \in 1..n : it[k - 1] \in T => it[k] \in T
    BY <1>2, <1>3, <2>1
  <2>3. \A k \in 0..n : it[k] \in T
    BY ONLY n \in Nat, <2>2, RecursionTyped
  <2> QED
    BY <2>1, <2>3
<1>5. pre[n] = s
  <2>1. pre[n] = [j \in 1..n |-> s[j]]
    BY <1>1
  <2> QED
    BY <1>1, <2>1
<1>6. n \in 0..n
  OBVIOUS
<1> QED
  BY <1>4, <1>5, <1>6

LEMMA OnlySeq ==
    ASSUME NEW W, NEW s \in Seq(W), NEW S
    PROVE  Only(s, S) \in Seq(W)
<1>1. PICK n \in Nat : n = Len(s) /\ n \in 0..n
  OBVIOUS
<1>2. PICK f : Keeps(f, s, S, W)
  BY OnlyUnfolds
<1> QED
  BY <1>1, <1>2 DEF Keeps

LEMMA OnlyAppend ==
    ASSUME NEW W, NEW s \in Seq(W), NEW k \in W, NEW S
    PROVE  Only(Append(s, k), S) = IF k \in S THEN Append(Only(s, S), k) ELSE Only(s, S)
<1>1. PICK n \in Nat : n = Len(s)
  OBVIOUS
<1>2. PICK u : u = Append(s, k)
  OBVIOUS
<1>3. /\ u \in Seq(W) /\ Len(u) = n + 1 /\ u[n + 1] = k
      /\ \A i \in 1..n : u[i] = s[i]
  BY <1>1, <1>2
<1>4. PICK f : Keeps(f, s, S, W)
  BY OnlyUnfolds
<1>5. PICK g : Keeps(g, u, S, W)
  <2>1. \E g : Keeps(g, u, S, W)
    BY ONLY <1>3, OnlyUnfolds
  <2> QED
    BY <2>1
<1>6. f[n] = g[n]
  <2>1. f[0] = g[0]
    BY <1>4, <1>5 DEF Keeps
  <2>2. \A i \in 1..n : f[i - 1] = g[i - 1] => f[i] = g[i]
    <3> TAKE i \in 1..n
    <3>1. f[i] = IF s[i] \in S THEN Append(f[i - 1], s[i]) ELSE f[i - 1]
      BY <1>1, <1>4 DEF Keeps
    <3>2. g[i] = IF u[i] \in S THEN Append(g[i - 1], u[i]) ELSE g[i - 1]
      <4>1. i \in 1..(n + 1)
        OBVIOUS
      <4> QED
        BY <1>3, <1>5, <4>1 DEF Keeps
    <3> QED
      BY <1>3, <3>1, <3>2
  <2> QED
    BY ONLY n \in Nat, <2>1, <2>2, RecursionAgrees
<1>7. g[n + 1] = IF k \in S THEN Append(g[n], k) ELSE g[n]
  <2>1. n + 1 \in 1..(n + 1) /\ (n + 1) - 1 = n
    OBVIOUS
  <2> QED
    BY <1>3, <1>5, <2>1 DEF Keeps
<1>8. Only(s, S) = f[n] /\ f[n] \in Seq(W) /\ Only(u, S) = g[n + 1]
  <2>1. n \in 0..n
    OBVIOUS
  <2> QED
    BY <1>1, <1>3, <1>4, <1>5, <2>1 DEF Keeps
<1> QED
  BY <1>2, <1>6, <1>7, <1>8

LEMMA OnlyEmpty == ASSUME NEW S PROVE Only(<<>>, S) = <<>>
<1>1. PICK W : W = {0}
  OBVIOUS
<1>2. PICK none : none = <<>>
  OBVIOUS
<1>3. none \in Seq(W) /\ Len(none) = 0
  BY <1>2
<1>4. PICK h : Keeps(h, none, S, W)
  BY ONLY <1>3, OnlyUnfolds
<1> QED
  BY <1>2, <1>3, <1>4 DEF Keeps

LEMMA OnlyTwice ==
    ASSUME NEW W, NEW s \in Seq(W), NEW S, NEW D
    PROVE  Only(Only(s, S), D) = Only(s, S \cap D)
<1>1. PICK I : I = S \cap D
  OBVIOUS
<1> DEFINE T == {p \in Seq(W) : Only(Only(p, S), D) = Only(p, I)}
<1>2. <<>> \in T
  <2>1. <<>> \in Seq(W)
    OBVIOUS
  <2> QED
    BY <2>1, OnlyEmpty
<1>3. ASSUME NEW p \in Seq(W), NEW k \in W, p \in T PROVE Append(p, k) \in T
  <2>1. PICK q : q = Only(p, S)
    OBVIOUS
  <2>2. /\ q \in Seq(W)
        /\ Only(Append(p, k), S) = IF k \in S THEN Append(q, k) ELSE q
    <3>1. Only(p, S) \in Seq(W)
      BY ONLY p \in Seq(W), OnlySeq
    <3>2. Only(Append(p, k), S) = IF k \in S THEN Append(Only(p, S), k) ELSE Only(p, S)
      BY ONLY p \in Seq(W), k \in W, OnlyAppend
    <3> QED
      BY <2>1, <3>1, <3>2
  <2>3. Only(Append(p, k), I) = IF k \in I THEN Append(Only(p, I), k) ELSE Only(p, I)
    BY OnlyAppend
  <2>4. Only(q, D) = Only(p, I)
    BY <1>3, <2>1
  <2>5. Only(Append(q, k), D) = IF k \in D THEN Append(Only(q, D), k) ELSE Only(q, D)
    <3>1. q \in Seq(W) /\ k \in W
      BY <2>2
    <3> QED
      BY ONLY <3>1, OnlyAppend
  <2>6. Only(Only(Append(p, k), S), D) = Only(Append(p, k), I)
    BY <1>1, <2>2, <2>3, <2>4, <2>5
  <2>7. Append(p, k) \in Seq(W)
    OBVIOUS
  <2> QED
    BY <2>6, <2>7
<1>4. s \in T
  <2> HIDE DEF T
  <2> QED
    BY <1>2, <1>3, SeqInduction
<1> QED
  BY <1>1, <1>4

LEMMA OnlySame ==
    ASSUME NEW W, NEW s \in Seq(W), NEW S, NEW D, \A i \in 1..Len(s) : s[i] \in S <=> s[i] \in D
    PROVE  Only(s, S) = Only(s, D)
<1> DEFINE T == {p \in Seq(W) : (\A i \in 1..Len(p) : p[i] \in S <=> p[i] \in D) => Only(p, S) = Only(p, D)}
<1>1. <<>> \in T
  <2>1. <<>> \in Seq(W)
    OBVIOUS
  <2> QED
    BY <2>1, OnlyEmpty
<1>2. ASSUME NEW p \in Seq(W), NEW k \in W, p \in T PROVE Append(p, k) \in T
  <2>1. Append(p, k) \in Seq(W)
    OBVIOUS
  <2>2. SUFFICES ASSUME \A i \in 1..Len(Append(p, k)) : Append(p, k)[i] \in S <=> Append(p, k)[i] \in D
                 PROVE  Only(Append(p, k), S) = Only(Append(p, k), D)
    BY <2>1
  <2>3. Len(p) \in Nat /\ Len(Append(p, k)) = Len(p) + 1 /\ Append(p, k)[Len(p) + 1] = k
    OBVIOUS
  <2>4. k \in S <=> k \in D
    <3>1. Len(p) + 1 \in 1..Len(Append(p, k))
      BY <2>3
    <3> QED
      BY ONLY <2>2, <2>3, <3>1
  <2>5. \A i \in 1..Len(p) : p[i] \in S <=> p[i] \in D
    <3> TAKE i \in 1..Len(p)
    <3>1. i \in 1..Len(Append(p, k)) /\ Append(p, k)[i] = p[i]
      BY <2>3
    <3> QED
      BY ONLY <2>2, <3>1
  <2>6. Only(p, S) = Only(p, D)
    BY <1>2, <2>5
  <2>7. Only(Append(p, k), S) = IF k \in S THEN Append(Only(p, S), k) ELSE Only(p, S)
    BY OnlyAppend
  <2>8. Only(Append(p, k), D) = IF k \in D THEN Append(Only(p, D), k) ELSE Only(p, D)
    BY OnlyAppend
  <2> QED
    BY <2>4, <2>6, <2>7, <2>8
<1>3. s \in T
  <2> HIDE DEF T
  <2> QED
    BY <1>1, <1>2, SeqInduction
<1> QED
  BY <1>3

LEMMA RangeAppend ==
    ASSUME NEW W, NEW s \in Seq(W), NEW k \in W
    PROVE  Range(Append(s, k)) = Range(s) \cup {k}
<1>1. PICK u : u = Append(s, k)
  OBVIOUS
<1>2. PICK n \in Nat : n = Len(s) /\ DOMAIN s = 1..n
  OBVIOUS
<1>3. DOMAIN u = 1..(n + 1) /\ u[n + 1] = k /\ \A i \in 1..n : u[i] = s[i]
  BY <1>1, <1>2
<1>4. Range(u) \subseteq Range(s) \cup {k}
  <2> SUFFICES ASSUME NEW i \in 1..(n + 1) PROVE u[i] \in Range(s) \cup {k}
    BY <1>3 DEF Range
  <2>1. CASE i = n + 1
    BY <1>3, <2>1
  <2>2. CASE i # n + 1
    <3>1. i \in 1..n
      BY <2>2
    <3> QED
      BY <1>2, <1>3, <3>1 DEF Range
  <2> QED
    BY <2>1, <2>2
<1>5. k \in Range(u)
  <2>1. n + 1 \in DOMAIN u
    BY <1>3
  <2> QED
    BY <1>3, <2>1 DEF Range
<1>6. Range(s) \subseteq Range(u)
  <2> SUFFICES ASSUME NEW i \in 1..n PROVE s[i] \in Range(u)
    BY <1>2 DEF Range
  <2>1. i \in DOMAIN u /\ u[i] = s[i]
    BY <1>3
  <2> QED
    BY <2>1 DEF Range
<1> QED
  BY <1>1, <1>4, <1>5, <1>6

LEMMA RangeEmpty == Range(<<>>) = {}
BY DEF Range

LEMMA OnlyRange ==
    ASSUME NEW W, NEW s \in Seq(W), NEW S
    PROVE  Range(Only(s, S)) = Range(s) \cap S
<1> DEFINE T == {p \in Seq(W) : Range(Only(p, S)) = Range(p) \cap S}
<1>1. <<>> \in T
  <2>1. <<>> \in Seq(W)
    OBVIOUS
  <2> QED
    BY <2>1, OnlyEmpty, RangeEmpty
<1>2. ASSUME NEW p \in Seq(W), NEW k \in W, p \in T PROVE Append(p, k) \in T
  <2>1. PICK q : q = Only(p, S)
    OBVIOUS
  <2>2. /\ q \in Seq(W)
        /\ Only(Append(p, k), S) = IF k \in S THEN Append(q, k) ELSE q
    <3>1. Only(p, S) \in Seq(W)
      BY ONLY p \in Seq(W), OnlySeq
    <3>2. Only(Append(p, k), S) = IF k \in S THEN Append(Only(p, S), k) ELSE Only(p, S)
      BY ONLY p \in Seq(W), k \in W, OnlyAppend
    <3> QED
      BY <2>1, <3>1, <3>2
  <2>3. Range(q) = Range(p) \cap S
    BY <1>2, <2>1
  <2>4. Range(Append(q, k)) = Range(q) \cup {k} /\ Range(Append(p, k)) = Range(p) \cup {k}
    BY <2>2, RangeAppend
  <2>5. Append(p, k) \in Seq(W)
    OBVIOUS
  <2> QED
    BY <2>2, <2>3, <2>4, <2>5
<1>3. s \in T
  <2> HIDE DEF T
  <2> QED
    BY <1>1, <1>2, SeqInduction
<1> QED
  BY <1>3

\* The places of a sequence with an element of S.
At(s, S) == {i \in DOMAIN s : s[i] \in S}

LEMMA OnlyCounts ==
    ASSUME NEW W, NEW s \in Seq(W), NEW S
    PROVE  Cardinality(At(s, S)) = Len(Only(s, S))
<1> DEFINE T == {p \in Seq(W) : IsFiniteSet(At(p, S)) /\ Cardinality(At(p, S)) = Len(Only(p, S))}
<1>1. <<>> \in T
  <2>1. <<>> \in Seq(W)
    OBVIOUS
  <2>2. At(<<>>, S) = {}
    BY DEF At
  <2>3. Len(Only(<<>>, S)) = 0
    BY OnlyEmpty
  <2> QED
    BY <2>1, <2>2, <2>3, FS_EmptySet
<1>2. ASSUME NEW p \in Seq(W), NEW k \in W, p \in T PROVE Append(p, k) \in T
  <2>1. PICK q : q = Only(p, S)
    OBVIOUS
  <2>2. /\ q \in Seq(W)
        /\ Only(Append(p, k), S) = IF k \in S THEN Append(q, k) ELSE q
    <3>1. Only(p, S) \in Seq(W)
      BY ONLY p \in Seq(W), OnlySeq
    <3>2. Only(Append(p, k), S) = IF k \in S THEN Append(Only(p, S), k) ELSE Only(p, S)
      BY ONLY p \in Seq(W), k \in W, OnlyAppend
    <3> QED
      BY <2>1, <3>1, <3>2
  <2>3. PICK n \in Nat : n = Len(p) /\ DOMAIN p = 1..n
    OBVIOUS
  <2>4. PICK u : u = Append(p, k)
    OBVIOUS
  <2>5. DOMAIN u = 1..(n + 1) /\ u[n + 1] = k /\ \A i \in 1..n : u[i] = p[i]
    BY <2>3, <2>4
  <2>6. PICK A : A = At(p, S)
    OBVIOUS
  <2>7. IsFiniteSet(A) /\ Cardinality(A) = Len(q)
    BY <1>2, <2>1, <2>6
  <2>8. CASE k \in S
    <3>1. At(u, S) = A \cup {n + 1}
      BY <2>3, <2>5, <2>6, <2>8 DEF At
    <3>2. n + 1 \notin A
      BY <2>3, <2>6 DEF At
    <3>3. PICK m : m = n + 1
      OBVIOUS
    <3>4. IsFiniteSet(A \cup {m}) /\ Cardinality(A \cup {m}) = Cardinality(A) + 1
      BY <2>7, <3>2, <3>3, FS_AddElement
    <3>5. Len(Append(q, k)) = Len(q) + 1
      BY <2>2
    <3>6. Only(u, S) = Append(q, k)
      BY <2>2, <2>4, <2>8
    <3>7. IsFiniteSet(At(u, S)) /\ Cardinality(At(u, S)) = Len(Only(u, S))
      BY <2>7, <3>1, <3>3, <3>4, <3>5, <3>6
    <3>8. u \in Seq(W)
      BY <2>4
    <3> QED
      BY <2>4, <3>7, <3>8
  <2>9. CASE k \notin S
    <3>1. At(u, S) = A
      BY <2>3, <2>5, <2>6, <2>9 DEF At
    <3> QED
      BY <2>2, <2>4, <2>7, <2>9, <3>1
  <2> QED
    BY <2>8, <2>9
<1>3. s \in T
  <2> HIDE DEF T
  <2> QED
    BY <1>1, <1>2, SeqInduction
<1> QED
  BY <1>3

LEMMA OnlyWithOption ==
    ASSUME NEW W, NEW s \in Seq(W), NEW k \in W, NEW D
    PROVE  /\ WithOption(s, k) \in Seq(W)
           /\ Only(WithOption(s, k), D) = IF k \in D THEN WithOption(Only(s, D), k) ELSE Only(s, D)
<1>1. WithOption(s, k) \in Seq(W)
  BY DEF WithOption
<1>2. Only(Append(s, k), D) = IF k \in D THEN Append(Only(s, D), k) ELSE Only(s, D)
  BY ONLY s \in Seq(W), k \in W, OnlyAppend
<1>3. Range(Only(s, D)) = Range(s) \cap D
  BY ONLY s \in Seq(W), OnlyRange
<1>4. Only(WithOption(s, k), D) = IF k \in D THEN WithOption(Only(s, D), k) ELSE Only(s, D)
  BY <1>2, <1>3 DEF WithOption
<1> QED
  BY <1>1, <1>4

LEMMA DropSeq ==
    ASSUME NEW W, NEW s \in Seq(W), NEW k
    PROVE  Drop(s, k) \in Seq(W)
<1>1. PICK R : R = Range(s) \ {k}
  OBVIOUS
<1>2. Only(s, R) \in Seq(W)
  BY ONLY s \in Seq(W), OnlySeq
<1> QED
  BY <1>1, <1>2 DEF Drop

LEMMA OnlyDrop ==
    ASSUME NEW W, NEW s \in Seq(W), NEW k, NEW D
    PROVE  Only(Drop(s, k), D) = IF k \in D THEN Only(Only(s, D), D \ {k}) ELSE Only(s, D)
<1>1. PICK R : R = Range(s) \ {k}
  OBVIOUS
<1>2. PICK n \in Nat : n = Len(s) /\ DOMAIN s = 1..n
  OBVIOUS
<1>3. Drop(s, k) = Only(s, R)
  BY <1>1 DEF Drop
<1>5. Only(Only(s, R), D) = Only(s, R \cap D)
  BY ONLY s \in Seq(W), OnlyTwice
<1>6. PICK E : E = D \ {k}
  OBVIOUS
<1>7. Only(Only(s, D), E) = Only(s, D \cap E)
  BY ONLY s \in Seq(W), OnlyTwice
<1>8. \A i \in 1..Len(s) : s[i] \in Range(s)
  BY <1>2 DEF Range
<1>9. PICK X, Y : X = R \cap D /\ Y = D \cap E
  OBVIOUS
<1>10. Only(s, X) = Only(s, Y)
  <2>1. \A i \in 1..Len(s) : s[i] \in X <=> s[i] \in Y
    BY <1>1, <1>6, <1>8, <1>9
  <2> QED
    BY ONLY s \in Seq(W), <2>1, OnlySame
<1>11. ASSUME k \notin D PROVE Only(s, X) = Only(s, D)
  <2>1. \A i \in 1..Len(s) : s[i] \in X <=> s[i] \in D
    BY <1>1, <1>8, <1>9, <1>11
  <2> QED
    BY ONLY s \in Seq(W), <2>1, OnlySame
<1> QED
  BY <1>3, <1>5, <1>6, <1>7, <1>9, <1>10, <1>11

-----------------------------------------------------------------------------
(* Counting the choices of a group. *)

LEMMA CountIs ==
    ASSUME NEW W, NEW s \in Seq(W), NEW O, NEW g
    PROVE  Count(s, O, g) = Len(Only(s, OfGroup(O, g)))
<1>1. PICK E : E = OfGroup(O, g)
  OBVIOUS
<1>2. Cardinality(At(s, E)) = Len(Only(s, E))
  BY ONLY s \in Seq(W), OnlyCounts
<1>3. At(s, E) = {i \in DOMAIN s : s[i] \in O /\ GroupOf[s[i]] = g}
  BY <1>1 DEF At, OfGroup
<1> QED
  BY <1>1, <1>2, <1>3 DEF Count

LEMMA CountSame ==
    ASSUME NEW W, NEW s \in Seq(W), NEW u \in Seq(W), NEW O, NEW P, NEW g,
           OfGroup(O, g) = OfGroup(P, g), Only(s, OfGroup(O, g)) = Only(u, OfGroup(O, g))
    PROVE  Count(s, O, g) = Count(u, P, g)
<1>1. Count(s, O, g) = Len(Only(s, OfGroup(O, g)))
  BY ONLY s \in Seq(W), CountIs
<1>2. Count(u, P, g) = Len(Only(u, OfGroup(P, g)))
  BY ONLY u \in Seq(W), CountIs
<1> QED
  BY <1>1, <1>2

LEMMA RequiredSame ==
    ASSUME NEW O, NEW P, NEW g, OfGroup(O, g) = OfGroup(P, g)
    PROVE  g \in RequiredIn(O) <=> g \in RequiredIn(P)
<1>1. (\E o \in O : GroupOf[o] = g) <=> (\E o \in P : GroupOf[o] = g)
  BY DEF OfGroup
<1> QED
  BY <1>1 DEF RequiredIn

\* Between two menus that offer the same of a group, every menu does.
LEMMA GroupBetween ==
    ASSUME NEW O, NEW P, NEW Q, NEW g, O \subseteq P, P \subseteq Q, OfGroup(O, g) = OfGroup(Q, g)
    PROVE  OfGroup(P, g) = OfGroup(Q, g)
BY DEF OfGroup

-----------------------------------------------------------------------------
(* The simulation of the check, one operation at a time. *)

LineKeys == Seq(ModifierKey)
LineStates == [keys : LineKeys, touched : SUBSET (Group \cup {NoGroup}), removed : BOOLEAN]

LEMMA SimulateTyped ==
    ASSUME NEW st \in LineStates, NEW op \in Edit, NEW O \in SUBSET Option
    PROVE  simulate(st, op, O) \in LineStates
<1>1. op.action \in {"add_modifier", "remove_modifier", "remove_item"}
  BY DEF Edit
<1>2. op.action # "remove_item" => op.key \in ModifierKey
  BY DEF Edit
<1>3. st = [keys |-> st.keys, touched |-> st.touched, removed |-> st.removed] /\ st.keys \in LineKeys
      /\ st.touched \in SUBSET (Group \cup {NoGroup}) /\ st.removed \in BOOLEAN
  BY DEF LineStates
<1>4. op.action # "remove_item" => Touch(st, op.key, O) \in SUBSET (Group \cup {NoGroup})
  BY <1>3, ModifierAssumption DEF Touch
<1>5. CASE op.action = "add_modifier"
  <2>1. PICK ks : ks = IF op.key \in Range(st.keys) THEN st.keys ELSE Append(st.keys, op.key)
    OBVIOUS
  <2>2. ks \in LineKeys
    BY <1>2, <1>3, <1>5, <2>1 DEF LineKeys
  <2>3. simulate(st, op, O) = [keys |-> ks, touched |-> Touch(st, op.key, O), removed |-> st.removed]
    BY <1>3, <1>5, <2>1 DEF simulate
  <2> QED
    BY <1>3, <1>4, <1>5, <2>2, <2>3 DEF LineStates
<1>6. CASE op.action = "remove_modifier"
  <2>1. Drop(st.keys, op.key) \in LineKeys
    <3>1. st.keys \in Seq(ModifierKey)
      BY <1>3 DEF LineKeys
    <3> QED
      BY <3>1, DropSeq DEF LineKeys
  <2>2. simulate(st, op, O) =
          [keys |-> Drop(st.keys, op.key), touched |-> Touch(st, op.key, O), removed |-> st.removed]
    BY <1>3, <1>6 DEF simulate
  <2> QED
    BY <1>3, <1>4, <1>6, <2>1, <2>2 DEF LineStates
<1>7. CASE op.action = "remove_item"
  <2>1. simulate(st, op, O) = [keys |-> st.keys, touched |-> st.touched, removed |-> TRUE]
    BY <1>3, <1>7 DEF simulate
  <2> QED
    BY <1>3, <2>1 DEF LineStates
<1> QED
  BY <1>1, <1>5, <1>6, <1>7

(* The state of a line after an operation, an edit of this line or not. *)
Edited(st, op, O, id) == IF Edits(op, id) THEN simulate(st, op, O) ELSE st

AreStates(it, ops, v, id) ==
    it = [i \in 0..Len(ops) |->
            IF i = 0 THEN [keys |-> v.lines[id], touched |-> {}, removed |-> FALSE]
            ELSE Edited(it[i - 1], ops[i], v.options, id)]

States(it, ops, v, id) ==
    /\ it \in [0..Len(ops) -> LineStates]
    /\ it[0] = [keys |-> v.lines[id], touched |-> {}, removed |-> FALSE]
    /\ \A i \in 1..Len(ops) : it[i] = Edited(it[i - 1], ops[i], v.options, id)
    /\ LineState(ops, v, id) = it[Len(ops)]

LEMMA LineStateUnfolds ==
    ASSUME NEW ops \in Seq(Operation), NEW v, NEW id, v.lines[id] \in LineKeys, v.options \in SUBSET Option
    PROVE  \E it : States(it, ops, v, id)
<1>1. PICK n \in Nat : n = Len(ops)
  OBVIOUS
<1>2. \A i \in 1..n : ops[i] \in Operation
  BY <1>1
<1>3. PICK base : base = [keys |-> v.lines[id], touched |-> {}, removed |-> FALSE]
  OBVIOUS
<1>4. base \in LineStates
  BY <1>3 DEF LineStates
<1>5. \A x \in LineStates, i \in 1..n : Edited(x, ops[i], v.options, id) \in LineStates
  <2> TAKE x \in LineStates, i \in 1..n
  <2>1. Edits(ops[i], id) => ops[i] \in Edit
    BY <1>2 DEF Edits, Operation
  <2>2. PICK O, op : O = v.options /\ op = ops[i] /\ O \in SUBSET Option
    OBVIOUS
  <2>3. op \in Edit => simulate(x, op, O) \in LineStates
    BY <2>2, SimulateTyped
  <2> QED
    BY <2>1, <2>2, <2>3 DEF Edited
<1>6. PICK F : F = [z \in LineStates \X (1..n) |-> Edited(z[1], ops[z[2]], v.options, id)]
  OBVIOUS
<1>7. /\ F \in [LineStates \X (1..n) -> LineStates]
      /\ \A x \in LineStates, i \in 1..n : F[<<x, i>>] = Edited(x, ops[i], v.options, id)
  <2>1. ASSUME NEW x \in LineStates, NEW i \in 1..n PROVE F[<<x, i>>] = Edited(x, ops[i], v.options, id)
    <3>1. <<x, i>> \in LineStates \X (1..n) /\ <<x, i>>[1] = x /\ <<x, i>>[2] = i
      OBVIOUS
    <3> QED
      BY ONLY <1>6, <3>1
  <2>2. ASSUME NEW z \in LineStates \X (1..n) PROVE F[z] \in LineStates
    <3>1. PICK x \in LineStates, i \in 1..n : z = <<x, i>>
      OBVIOUS
    <3>2. PICK y : y = Edited(x, ops[i], v.options, id)
      OBVIOUS
    <3>3. y \in LineStates
      BY <1>5, <3>2
    <3> QED
      BY <2>1, <3>1, <3>2, <3>3
  <2>3. F = [z \in LineStates \X (1..n) |-> F[z]]
    BY <1>6
  <2> QED
    BY <2>1, <2>2, <2>3
<1>8. PICK f : f \in [0..n -> LineStates] /\ f[0] = base /\ \A k \in 1..n : f[k] = F[<<f[k - 1], k>>]
  <2>1. PICK T : T = LineStates
    OBVIOUS
  <2>2. base \in T /\ F \in [T \X (1..n) -> T]
    BY <1>4, <1>7, <2>1
  <2>3. \E f : Recurs(f, n, T, base, F)
    BY ONLY n \in Nat, <2>2, RecursionExists
  <2> QED
    BY <2>1, <2>3 DEF Recurs
<1>9. AreStates(f, ops, v, id)
  <2>1. \A i \in 0..n : f[i] = IF i = 0 THEN base ELSE Edited(f[i - 1], ops[i], v.options, id)
    <3> TAKE i \in 0..n
    <3>1. CASE i # 0
      <4>1. i \in 1..n /\ i - 1 \in 0..n
        BY <3>1
      <4>2. f[i - 1] \in LineStates
        BY <1>8, <4>1
      <4>3. PICK x \in LineStates : x = f[i - 1]
        BY <4>2
      <4>4. f[i] = F[<<x, i>>]
        BY <1>8, <4>1, <4>3
      <4>5. F[<<x, i>>] = Edited(x, ops[i], v.options, id)
        BY <1>7, <4>1
      <4> QED
        BY <3>1, <4>3, <4>4, <4>5
    <3> QED
      BY <1>8, <3>1
  <2>2. f = [i \in 0..n |-> f[i]]
    BY <1>8
  <2>3. f = [i \in 0..n |-> IF i = 0 THEN base ELSE Edited(f[i - 1], ops[i], v.options, id)]
    BY ONLY <2>1, <2>2
  <2> QED
    BY <1>1, <1>3, <2>3 DEF AreStates
<1>10. PICK it : it = CHOOSE g : AreStates(g, ops, v, id)
  OBVIOUS
<1>11. AreStates(it, ops, v, id)
  BY <1>9, <1>10
<1>12. LineState(ops, v, id) = it[n]
  <2>1. LineState(ops, v, id) = (CHOOSE g : AreStates(g, ops, v, id))[Len(ops)]
    BY DEF LineState, AreStates, Edited
  <2> QED
    BY <1>1, <1>10, <2>1
<1>13. /\ it[0] = base
       /\ \A i \in 1..n : it[i] = Edited(it[i - 1], ops[i], v.options, id)
       /\ it = [i \in 0..n |-> it[i]]
  <2>1. it = [i \in 0..n |-> IF i = 0 THEN base ELSE Edited(it[i - 1], ops[i], v.options, id)]
    BY ONLY <1>1, <1>3, <1>11 DEF AreStates
  <2>2. it[0] = base
    BY ONLY n \in Nat, <2>1
  <2>3. \A i \in 1..n : it[i] = Edited(it[i - 1], ops[i], v.options, id)
    <3> TAKE i \in 1..n
    <3>1. i \in 0..n /\ i # 0
      OBVIOUS
    <3> QED
      BY ONLY <2>1, <3>1
  <2>4. it = [i \in 0..n |-> it[i]]
    BY ONLY <2>1
  <2> QED
    BY <2>2, <2>3, <2>4
<1>14. \A i \in 0..n : it[i] \in LineStates
  <2>1. PICK T : T = LineStates
    OBVIOUS
  <2>2. it[0] \in T
    BY <1>4, <1>13, <2>1
  <2>3. \A i \in 1..n : it[i - 1] \in T => it[i] \in T
    <3> TAKE i \in 1..n
    <3> SUFFICES ASSUME it[i - 1] \in T PROVE it[i] \in T
      OBVIOUS
    <3>1. PICK x \in LineStates : x = it[i - 1]
      BY <2>1
    <3>2. PICK y : y = Edited(x, ops[i], v.options, id)
      OBVIOUS
    <3>3. y \in LineStates
      BY <1>5, <3>2
    <3>4. it[i] = y
      BY <1>13, <3>1, <3>2
    <3> QED
      BY <2>1, <3>3, <3>4
  <2>4. \A i \in 0..n : it[i] \in T
    BY ONLY n \in Nat, <2>2, <2>3, RecursionTyped
  <2> QED
    BY <2>1, <2>4
<1>15. States(it, ops, v, id)
  BY <1>1, <1>3, <1>12, <1>13, <1>14 DEF States
<1> QED
  BY <1>15

LEMMA LineStateTyped ==
    ASSUME NEW ops \in Seq(Operation), NEW v, NEW id, v.lines[id] \in LineKeys, v.options \in SUBSET Option
    PROVE  LineState(ops, v, id) \in LineStates
<1>1. PICK n \in Nat : n = Len(ops) /\ n \in 0..n
  OBVIOUS
<1>2. PICK f : States(f, ops, v, id)
  BY LineStateUnfolds
<1> QED
  BY <1>1, <1>2 DEF States

(* The states of the simulation after a batch and after one operation more. *)
LEMMA LineStateAppend ==
    ASSUME NEW ops \in Seq(Operation), NEW op \in Operation, NEW v, NEW id,
           v.lines[id] \in LineKeys, v.options \in SUBSET Option
    PROVE  /\ LineState(ops, v, id) \in LineStates
           /\ LineState(Append(ops, op), v, id) = Edited(LineState(ops, v, id), op, v.options, id)
<1>1. PICK n \in Nat : n = Len(ops)
  OBVIOUS
<1>2. PICK u : u = Append(ops, op)
  OBVIOUS
<1>3. /\ u \in Seq(Operation) /\ Len(u) = n + 1 /\ u[n + 1] = op
      /\ \A i \in 1..n : u[i] = ops[i]
  BY <1>1, <1>2
<1>4. PICK f : States(f, ops, v, id)
  BY LineStateUnfolds
<1>5. PICK g : States(g, u, v, id)
  BY <1>3, LineStateUnfolds
<1>6. f[n] = g[n]
  <2>1. f[0] = g[0]
    BY <1>4, <1>5 DEF States
  <2>2. \A i \in 1..n : f[i - 1] = g[i - 1] => f[i] = g[i]
    <3> TAKE i \in 1..n
    <3>1. f[i] = Edited(f[i - 1], ops[i], v.options, id)
      BY <1>1, <1>4 DEF States
    <3>2. g[i] = Edited(g[i - 1], u[i], v.options, id)
      <4>1. i \in 1..(n + 1)
        OBVIOUS
      <4> QED
        BY <1>3, <1>5, <4>1 DEF States
    <3> QED
      BY <1>3, <3>1, <3>2
  <2> QED
    BY ONLY n \in Nat, <2>1, <2>2, RecursionAgrees
<1>7. g[n + 1] = Edited(g[n], op, v.options, id)
  <2>1. n + 1 \in 1..(n + 1) /\ (n + 1) - 1 = n
    OBVIOUS
  <2> QED
    BY <1>3, <1>5, <2>1 DEF States
<1>8. LineState(ops, v, id) = f[n] /\ f[n] \in LineStates /\ LineState(u, v, id) = g[n + 1]
  <2>1. n \in 0..n
    OBVIOUS
  <2> QED
    BY <1>1, <1>3, <1>4, <1>5, <2>1 DEF States
<1> QED
  BY <1>2, <1>6, <1>7, <1>8

LEMMA LineStateEmpty ==
    ASSUME NEW v, NEW id, v.lines[id] \in LineKeys, v.options \in SUBSET Option
    PROVE  LineState(<<>>, v, id) = [keys |-> v.lines[id], touched |-> {}, removed |-> FALSE]
<1>1. PICK none : none = <<>>
  OBVIOUS
<1>2. none \in Seq(Operation) /\ Len(none) = 0
  BY <1>1
<1>3. PICK f : States(f, none, v, id)
  BY <1>2, LineStateUnfolds
<1> QED
  BY <1>1, <1>2, <1>3 DEF States

-----------------------------------------------------------------------------
(* The cart, one operation at a time. *)

\* What an operation may find, and what the cart may hold.
Reading == [options : SUBSET Option, sold : BOOLEAN]
Lines == UNION {[S -> LineKeys] : S \in SUBSET (Nat \X Nat)}

LEMMA OperationTyped ==
    ASSUME NEW ls \in Lines, NEW op \in Operation, NEW id \in Nat \X Nat,
           NEW read \in Reading
    PROVE  applyOperation(ls, op, id, read) \in Lines
<1>1. PICK S \in SUBSET (Nat \X Nat) : ls \in [S -> LineKeys]
  BY DEF Lines
<1>2. op.action \in {"add_item", "remove_item", "add_modifier", "remove_modifier"}
  BY DEF Operation, Edit
<1>3. CASE op.action = "add_item"
  <2>1. op.mods \in LineKeys
    BY <1>3 DEF Operation, Edit, LineKeys
  <2>2. WithLine(ls, id, op.mods) \in [S \cup {id} -> LineKeys]
    BY <1>1, <2>1 DEF WithLine
  <2>3. S \cup {id} \in SUBSET (Nat \X Nat)
    OBVIOUS
  <2>4. WithLine(ls, id, op.mods) \in Lines
    BY <2>2, <2>3 DEF Lines
  <2> QED
    BY <1>3, <2>4 DEF applyOperation
<1>4. CASE op.action = "remove_item"
  <2>1. Without(ls, op.line) \in [S \ {op.line} -> LineKeys]
    BY <1>1 DEF Without
  <2>2. Without(ls, op.line) \in Lines
    BY <2>1 DEF Lines
  <2> QED
    BY <1>4, <2>2 DEF applyOperation
<1>5. CASE op.action = "add_modifier"
  <2>1. op.key \in ModifierKey
    BY <1>5 DEF Operation, Edit
  <2>2. ASSUME op.line \in DOMAIN ls PROVE WithOption(ls[op.line], op.key) \in LineKeys
    BY <1>1, <2>1, <2>2 DEF WithOption, LineKeys
  <2>3. ASSUME op.line \in DOMAIN ls PROVE [ls EXCEPT ![op.line] = WithOption(@, op.key)] \in [S -> LineKeys]
    BY <1>1, <2>2, <2>3
  <2> QED
    BY <1>1, <1>5, <2>3 DEF applyOperation, Lines
<1>6. CASE op.action = "remove_modifier"
  <2>1. ASSUME op.line \in DOMAIN ls PROVE Drop(ls[op.line], op.key) \in LineKeys
    <3>1. ls[op.line] \in Seq(ModifierKey)
      BY <1>1, <2>1 DEF LineKeys
    <3> QED
      BY <3>1, DropSeq DEF LineKeys
  <2>2. ASSUME op.line \in DOMAIN ls PROVE [ls EXCEPT ![op.line] = Drop(@, op.key)] \in [S -> LineKeys]
    BY <1>1, <2>1, <2>2
  <2> QED
    BY <1>1, <1>6, <2>2 DEF applyOperation, Lines
<1> QED
  BY <1>2, <1>3, <1>4, <1>5, <1>6

AreCarts(it, t, ls, ops, reads) ==
    it = [i \in 0..Len(ops) |->
            IF i = 0 THEN ls
            ELSE applyOperation(it[i - 1], ops[i], <<t, i>>, reads[i])]

Carts(it, t, ls, ops, reads) ==
    /\ it \in [0..Len(ops) -> Lines]
    /\ it[0] = ls
    /\ \A i \in 1..Len(ops) : it[i] = applyOperation(it[i - 1], ops[i], <<t, i>>, reads[i])
    /\ applyBatch(t, ls, ops, reads) = it[Len(ops)]

LEMMA CartUnfolds ==
    ASSUME NEW t \in Nat, NEW ls \in Lines, NEW ops \in Seq(Operation),
           NEW reads, \A i \in 1..Len(ops) : reads[i] \in Reading
    PROVE  \E it : Carts(it, t, ls, ops, reads)
<1>1. PICK n \in Nat : n = Len(ops)
  OBVIOUS
<1>2. \A i \in 1..n : ops[i] \in Operation
  BY <1>1
<1>3. PICK base : base = ls
  OBVIOUS
<1>4. base \in Lines
  BY <1>3 DEF Lines
<1>5. \A x \in Lines, i \in 1..n : applyOperation(x, ops[i], <<t, i>>, reads[i]) \in Lines
  <2> TAKE x \in Lines, i \in 1..n
  <2>1. ops[i] \in Operation /\ <<t, i>> \in Nat \X Nat /\ reads[i] \in Reading
    BY <1>1, <1>2
  <2> QED
    BY <2>1, OperationTyped
<1>6. PICK F : F = [z \in Lines \X (1..n) |-> applyOperation(z[1], ops[z[2]], <<t, z[2]>>, reads[z[2]])]
  OBVIOUS
<1>7. /\ F \in [Lines \X (1..n) -> Lines]
      /\ \A x \in Lines, i \in 1..n : F[<<x, i>>] = applyOperation(x, ops[i], <<t, i>>, reads[i])
  <2>1. ASSUME NEW x \in Lines, NEW i \in 1..n PROVE F[<<x, i>>] = applyOperation(x, ops[i], <<t, i>>, reads[i])
    <3>1. <<x, i>> \in Lines \X (1..n) /\ <<x, i>>[1] = x /\ <<x, i>>[2] = i
      OBVIOUS
    <3> QED
      BY ONLY <1>6, <3>1
  <2>2. ASSUME NEW z \in Lines \X (1..n) PROVE F[z] \in Lines
    <3>1. PICK x \in Lines, i \in 1..n : z = <<x, i>>
      OBVIOUS
    <3>2. PICK y : y = applyOperation(x, ops[i], <<t, i>>, reads[i])
      OBVIOUS
    <3>3. y \in Lines
      BY <1>5, <3>2
    <3> QED
      BY <2>1, <3>1, <3>2, <3>3
  <2>3. F = [z \in Lines \X (1..n) |-> F[z]]
    BY <1>6
  <2> QED
    BY <2>1, <2>2, <2>3
<1>8. PICK f : f \in [0..n -> Lines] /\ f[0] = base /\ \A k \in 1..n : f[k] = F[<<f[k - 1], k>>]
  <2>1. PICK T : T = Lines
    OBVIOUS
  <2>2. base \in T /\ F \in [T \X (1..n) -> T]
    BY <1>4, <1>7, <2>1
  <2>3. \E f : Recurs(f, n, T, base, F)
    BY ONLY n \in Nat, <2>2, RecursionExists
  <2> QED
    BY <2>1, <2>3 DEF Recurs
<1>9. AreCarts(f, t, ls, ops, reads)
  <2>1. \A i \in 0..n : f[i] = IF i = 0 THEN base ELSE applyOperation(f[i - 1], ops[i], <<t, i>>, reads[i])
    <3> TAKE i \in 0..n
    <3>1. CASE i # 0
      <4>1. i \in 1..n /\ i - 1 \in 0..n
        BY <3>1
      <4>2. f[i - 1] \in Lines
        BY <1>8, <4>1
      <4>3. PICK x \in Lines : x = f[i - 1]
        BY <4>2
      <4>4. f[i] = F[<<x, i>>]
        BY <1>8, <4>1, <4>3
      <4>5. F[<<x, i>>] = applyOperation(x, ops[i], <<t, i>>, reads[i])
        BY <1>7, <4>1
      <4> QED
        BY <3>1, <4>3, <4>4, <4>5
    <3> QED
      BY <1>8, <3>1
  <2>2. f = [i \in 0..n |-> f[i]]
    BY <1>8
  <2>3. f = [i \in 0..n |-> IF i = 0 THEN base ELSE applyOperation(f[i - 1], ops[i], <<t, i>>, reads[i])]
    BY ONLY <2>1, <2>2
  <2> QED
    BY <1>1, <1>3, <2>3 DEF AreCarts
<1>10. PICK it : it = CHOOSE g : AreCarts(g, t, ls, ops, reads)
  OBVIOUS
<1>11. AreCarts(it, t, ls, ops, reads)
  BY <1>9, <1>10
<1>12. applyBatch(t, ls, ops, reads) = it[n]
  <2>1. applyBatch(t, ls, ops, reads) = (CHOOSE g : AreCarts(g, t, ls, ops, reads))[Len(ops)]
    BY DEF applyBatch, AreCarts
  <2> QED
    BY <1>1, <1>10, <2>1
<1>13. /\ it[0] = base
       /\ \A i \in 1..n : it[i] = applyOperation(it[i - 1], ops[i], <<t, i>>, reads[i])
       /\ it = [i \in 0..n |-> it[i]]
  <2>1. it = [i \in 0..n |-> IF i = 0 THEN base ELSE applyOperation(it[i - 1], ops[i], <<t, i>>, reads[i])]
    BY ONLY <1>1, <1>3, <1>11 DEF AreCarts
  <2>2. it[0] = base
    BY ONLY n \in Nat, <2>1
  <2>3. \A i \in 1..n : it[i] = applyOperation(it[i - 1], ops[i], <<t, i>>, reads[i])
    <3> TAKE i \in 1..n
    <3>1. i \in 0..n /\ i # 0
      OBVIOUS
    <3> QED
      BY ONLY <2>1, <3>1
  <2>4. it = [i \in 0..n |-> it[i]]
    BY ONLY <2>1
  <2> QED
    BY <2>2, <2>3, <2>4
<1>14. \A i \in 0..n : it[i] \in Lines
  <2>1. PICK T : T = Lines
    OBVIOUS
  <2>2. it[0] \in T
    BY <1>4, <1>13, <2>1
  <2>3. \A i \in 1..n : it[i - 1] \in T => it[i] \in T
    <3> TAKE i \in 1..n
    <3> SUFFICES ASSUME it[i - 1] \in T PROVE it[i] \in T
      OBVIOUS
    <3>1. PICK x \in Lines : x = it[i - 1]
      BY <2>1
    <3>2. PICK y : y = applyOperation(x, ops[i], <<t, i>>, reads[i])
      OBVIOUS
    <3>3. y \in Lines
      BY <1>5, <3>2
    <3>4. it[i] = y
      BY <1>13, <3>1, <3>2
    <3> QED
      BY <2>1, <3>3, <3>4
  <2>4. \A i \in 0..n : it[i] \in T
    BY ONLY n \in Nat, <2>2, <2>3, RecursionTyped
  <2> QED
    BY <2>1, <2>4
<1>15. Carts(it, t, ls, ops, reads)
  BY <1>1, <1>3, <1>12, <1>13, <1>14 DEF Carts
<1> QED
  BY <1>15

LEMMA BatchSame ==
    ASSUME NEW t \in Nat, NEW ls \in Lines, NEW ops \in Seq(Operation), NEW rs, NEW reads,
           \A i \in 1..Len(ops) : rs[i] = reads[i] /\ rs[i] \in Reading
    PROVE  applyBatch(t, ls, ops, rs) = applyBatch(t, ls, ops, reads)
<1>1. PICK n \in Nat : n = Len(ops) /\ n \in 0..n
  OBVIOUS
<1>2. PICK f : Carts(f, t, ls, ops, rs)
  BY CartUnfolds
<1>3. PICK g : Carts(g, t, ls, ops, reads)
  <2>1. \A i \in 1..Len(ops) : reads[i] \in Reading
    OBVIOUS
  <2> QED
    BY <2>1, CartUnfolds
<1>4. f[n] = g[n]
  <2>1. f[0] = g[0]
    BY <1>2, <1>3 DEF Carts
  <2>2. \A i \in 1..n : f[i - 1] = g[i - 1] => f[i] = g[i]
    <3> TAKE i \in 1..n
    <3>1. f[i] = applyOperation(f[i - 1], ops[i], <<t, i>>, rs[i])
      BY <1>1, <1>2 DEF Carts
    <3>2. g[i] = applyOperation(g[i - 1], ops[i], <<t, i>>, reads[i])
      BY <1>1, <1>3 DEF Carts
    <3>3. rs[i] = reads[i]
      BY <1>1
    <3> QED
      BY <3>1, <3>2, <3>3
  <2> QED
    BY ONLY n \in Nat, <2>1, <2>2, RecursionAgrees
<1> QED
  BY <1>1, <1>2, <1>3, <1>4 DEF Carts

\* What a batch reads, as if there were no end to it.
Extends(rs, reads, t, ls, ops) ==
    /\ \A i \in Nat : rs[i] \in Reading
    /\ \A i \in Nat : (i \in 1..Len(ops) => rs[i] = reads[i]) /\ (i \notin 1..Len(ops) => rs[i].options = Option)
    /\ applyBatch(t, ls, ops, reads) = applyBatch(t, ls, ops, rs)

LEMMA Extended ==
    ASSUME NEW t \in Nat, NEW ls \in Lines, NEW ops \in Seq(Operation),
           NEW reads, \A i \in 1..Len(ops) : reads[i] \in Reading
    PROVE  \E rs : Extends(rs, reads, t, ls, ops)
<1>1. PICK n \in Nat : n = Len(ops) /\ n \in 0..n
  OBVIOUS
<1>2. PICK all : all = [options |-> Option, sold |-> FALSE]
  OBVIOUS
<1>3. all \in Reading /\ all.options = Option
  BY <1>2 DEF Reading
<1>4. PICK rs : rs = [i \in Nat |-> IF i \in 1..n THEN reads[i] ELSE all]
  OBVIOUS
<1>5. \A i \in Nat : rs[i] = IF i \in 1..n THEN reads[i] ELSE all
  BY <1>4
<1>6. \A i \in Nat : rs[i] \in Reading
  BY <1>1, <1>3, <1>5
<1>7. applyBatch(t, ls, ops, reads) = applyBatch(t, ls, ops, rs)
  <2>1. \A i \in 1..Len(ops) : reads[i] = rs[i] /\ reads[i] \in Reading
    BY <1>1, <1>5
  <2> QED
    BY ONLY t \in Nat, ls \in Lines, ops \in Seq(Operation), <2>1, BatchSame
<1>8. \A i \in Nat : (i \in 1..Len(ops) => rs[i] = reads[i]) /\ (i \notin 1..Len(ops) => rs[i].options = Option)
  BY <1>1, <1>3, <1>5
<1> QED
  BY <1>6, <1>7, <1>8 DEF Extends

LEMMA BatchTyped ==
    ASSUME NEW t \in Nat, NEW ls \in Lines, NEW ops \in Seq(Operation),
           NEW reads, \A i \in 1..Len(ops) : reads[i] \in Reading
    PROVE  applyBatch(t, ls, ops, reads) \in Lines
<1>1. PICK n \in Nat : n = Len(ops) /\ n \in 0..n
  OBVIOUS
<1>2. PICK f : Carts(f, t, ls, ops, reads)
  BY CartUnfolds
<1> QED
  BY <1>1, <1>2 DEF Carts

LEMMA BatchAppend ==
    ASSUME NEW t \in Nat, NEW ls \in Lines, NEW ops \in Seq(Operation), NEW op \in Operation,
           NEW reads, \A i \in Nat : reads[i] \in Reading
    PROVE  /\ applyBatch(t, ls, ops, reads) \in Lines
           /\ applyBatch(t, ls, Append(ops, op), reads) =
                 applyOperation(applyBatch(t, ls, ops, reads), op, <<t, Len(ops) + 1>>, reads[Len(ops) + 1])
<1>1. PICK n \in Nat : n = Len(ops)
  OBVIOUS
<1>2. PICK u : u = Append(ops, op)
  OBVIOUS
<1>3. /\ u \in Seq(Operation) /\ Len(u) = n + 1 /\ u[n + 1] = op
      /\ \A i \in 1..n : u[i] = ops[i]
  BY <1>1, <1>2
<1>4. PICK f : Carts(f, t, ls, ops, reads)
  BY CartUnfolds
<1>5. PICK g : Carts(g, t, ls, u, reads)
  BY <1>3, CartUnfolds
<1>6. f[n] = g[n]
  <2>1. f[0] = g[0]
    BY <1>4, <1>5 DEF Carts
  <2>2. \A i \in 1..n : f[i - 1] = g[i - 1] => f[i] = g[i]
    <3> TAKE i \in 1..n
    <3>1. f[i] = applyOperation(f[i - 1], ops[i], <<t, i>>, reads[i])
      BY <1>1, <1>4 DEF Carts
    <3>2. g[i] = applyOperation(g[i - 1], u[i], <<t, i>>, reads[i])
      <4>1. i \in 1..(n + 1)
        OBVIOUS
      <4> QED
        BY <1>3, <1>5, <4>1 DEF Carts
    <3> QED
      BY <1>3, <3>1, <3>2
  <2> QED
    BY ONLY n \in Nat, <2>1, <2>2, RecursionAgrees
<1>7. g[n + 1] = applyOperation(g[n], op, <<t, n + 1>>, reads[n + 1])
  <2>1. n + 1 \in 1..(n + 1) /\ (n + 1) - 1 = n
    OBVIOUS
  <2> QED
    BY <1>3, <1>5, <2>1 DEF Carts
<1>8. /\ applyBatch(t, ls, ops, reads) = f[n] /\ f[n] \in Lines
      /\ applyBatch(t, ls, u, reads) = g[n + 1]
  <2>1. n \in 0..n
    OBVIOUS
  <2> QED
    BY <1>1, <1>3, <1>4, <1>5, <2>1 DEF Carts
<1> QED
  BY <1>1, <1>2, <1>6, <1>7, <1>8

LEMMA BatchEmpty ==
    ASSUME NEW t \in Nat, NEW ls \in Lines, NEW reads
    PROVE  applyBatch(t, ls, <<>>, reads) = ls
<1>1. PICK none : none = <<>>
  OBVIOUS
<1>2. none \in Seq(Operation) /\ Len(none) = 0
  BY <1>1
<1>3. PICK f : Carts(f, t, ls, none, reads)
  <2>1. \A i \in 1..Len(none) : reads[i] \in Reading
    BY <1>2
  <2> QED
    BY <1>2, <2>1, CartUnfolds
<1> QED
  BY <1>1, <1>2, <1>3 DEF Carts

-----------------------------------------------------------------------------
(* What a batch does to the lines, against what the check makes of it. *)

\* The groups whose options the edits of a line name.
Names(op, O, id) == op.action \in {"add_modifier", "remove_modifier"} /\ op.line = id /\ op.key \in O
GroupsNamed(ops, O, id) == {GroupOf[ops[i].key] : i \in {j \in DOMAIN ops : Names(ops[j], O, id)}}

LEMMA NamedAppend ==
    ASSUME NEW ops \in Seq(Operation), NEW op \in Operation, NEW O, NEW id
    PROVE  GroupsNamed(Append(ops, op), O, id) =
             IF Names(op, O, id) THEN GroupsNamed(ops, O, id) \cup {GroupOf[op.key]} ELSE GroupsNamed(ops, O, id)
<1>1. PICK n \in Nat : n = Len(ops) /\ DOMAIN ops = 1..n
  OBVIOUS
<1>2. PICK u : u = Append(ops, op)
  OBVIOUS
<1>3. DOMAIN u = 1..(n + 1) /\ u[n + 1] = op /\ \A i \in 1..n : u[i] = ops[i]
  BY <1>1, <1>2
<1>4. PICK I : I = {j \in DOMAIN ops : Names(ops[j], O, id)}
  OBVIOUS
<1>5. {j \in DOMAIN u : Names(u[j], O, id)} = IF Names(op, O, id) THEN I \cup {n + 1} ELSE I
  BY <1>1, <1>3, <1>4
<1>6. \A i \in I : GroupOf[u[i].key] = GroupOf[ops[i].key]
  BY <1>1, <1>3, <1>4
<1>7. {GroupOf[u[i].key] : i \in I} = {GroupOf[ops[i].key] : i \in I}
  BY <1>6
<1>8. CASE Names(op, O, id)
  <2>1. {GroupOf[u[i].key] : i \in I \cup {n + 1}} = {GroupOf[u[i].key] : i \in I} \cup {GroupOf[u[n + 1].key]}
    OBVIOUS
  <2> QED
    BY <1>2, <1>3, <1>4, <1>5, <1>7, <1>8, <2>1 DEF GroupsNamed
<1>9. CASE ~ Names(op, O, id)
  BY <1>2, <1>4, <1>5, <1>7, <1>9 DEF GroupsNamed
<1> QED
  BY <1>8, <1>9

LEMMA TouchedAreNamed ==
    ASSUME NEW ops \in Seq(Operation), NEW v, NEW id, v.lines[id] \in LineKeys, v.options \in SUBSET Option
    PROVE  LineState(ops, v, id).touched = GroupsNamed(ops, v.options, id)
<1> DEFINE T == {p \in Seq(Operation) : LineState(p, v, id).touched = GroupsNamed(p, v.options, id)}
<1>1. <<>> \in T
  <2>1. GroupsNamed(<<>>, v.options, id) = {}
    BY DEF GroupsNamed
  <2>2. LineState(<<>>, v, id) = [keys |-> v.lines[id], touched |-> {}, removed |-> FALSE]
    BY LineStateEmpty
  <2>3. LineState(<<>>, v, id).touched = GroupsNamed(<<>>, v.options, id)
    <3>1. PICK st : st = [keys |-> v.lines[id], touched |-> {}, removed |-> FALSE]
      OBVIOUS
    <3>2. st.touched = {}
      BY <3>1
    <3> QED
      BY ONLY <2>1, <2>2, <3>1, <3>2
  <2>4. <<>> \in Seq(Operation)
    OBVIOUS
  <2> QED
    BY <2>3, <2>4
<1>2. ASSUME NEW p \in Seq(Operation), NEW op \in Operation, p \in T PROVE Append(p, op) \in T
  <2>1. PICK st : st = LineState(p, v, id)
    OBVIOUS
  <2>2. /\ st \in LineStates
        /\ LineState(Append(p, op), v, id) = Edited(st, op, v.options, id)
    BY <2>1, LineStateAppend
  <2>3. GroupsNamed(Append(p, op), v.options, id) =
          IF Names(op, v.options, id) THEN GroupsNamed(p, v.options, id) \cup {GroupOf[op.key]}
          ELSE GroupsNamed(p, v.options, id)
    <3>1. PICK V : V = v.options
      OBVIOUS
    <3>2. GroupsNamed(Append(p, op), V, id) =
            IF Names(op, V, id) THEN GroupsNamed(p, V, id) \cup {GroupOf[op.key]} ELSE GroupsNamed(p, V, id)
      BY ONLY p \in Seq(Operation), op \in Operation, NamedAppend
    <3> QED
      BY <3>1, <3>2
  <2>4. st.touched = GroupsNamed(p, v.options, id)
    BY <1>2, <2>1
  <2>5. op.action \in {"add_item", "remove_item", "add_modifier", "remove_modifier"}
    BY DEF Operation, Edit
  <2>6. ASSUME Edits(op, id)
        PROVE  simulate(st, op, v.options).touched =
                 IF Names(op, v.options, id) THEN st.touched \cup {GroupOf[op.key]} ELSE st.touched
    <3>1. st = [keys |-> st.keys, touched |-> st.touched, removed |-> st.removed]
      BY <2>2 DEF LineStates
    <3> QED
      BY <2>5, <2>6, <3>1 DEF simulate, Touch, Names, Edits
  <2>7. ~ Edits(op, id) => ~ Names(op, v.options, id)
    BY DEF Edits, Names
  <2>8. Append(p, op) \in Seq(Operation)
    OBVIOUS
  <2>9. LineState(Append(p, op), v, id).touched = GroupsNamed(Append(p, op), v.options, id)
    BY <2>2, <2>3, <2>4, <2>6, <2>7 DEF Edited
  <2> QED
    BY <2>8, <2>9
<1>3. ops \in T
  <2> HIDE DEF T
  <2> QED
    BY <1>1, <1>2, SeqInduction
<1> QED
  BY <1>3

\* The line id of a cart is as the simulation has it, as far as options of D go.
Follows(ls, id, st, D) ==
    /\ id \in DOMAIN ls <=> ~ st.removed
    /\ id \in DOMAIN ls => Only(ls[id], D) = Only(st.keys, D)

LEMMA StepFollows ==
    ASSUME NEW ls \in Lines, NEW st \in LineStates, NEW D, NEW id, NEW op \in Operation,
           NEW at \in Nat \X Nat, at # id,
           NEW V \in SUBSET Option, NEW read \in Reading, D \subseteq read.options,
           Follows(ls, id, st, D)
    PROVE  Follows(applyOperation(ls, op, at, read), id, Edited(st, op, V, id), D)
<1>1. PICK S \in SUBSET (Nat \X Nat) : ls \in [S -> LineKeys]
  BY DEF Lines
<1>2. st = [keys |-> st.keys, touched |-> st.touched, removed |-> st.removed] /\ st.keys \in LineKeys
      /\ st.removed \in BOOLEAN
  BY DEF LineStates
<1>3. op.action \in {"add_item", "remove_item", "add_modifier", "remove_modifier"}
  BY DEF Operation, Edit
<1>4. op.action \in {"add_modifier", "remove_modifier"} => op.key \in ModifierKey
  BY DEF Operation, Edit
<1>5. CASE op.action = "add_item"
  <2>1. ~ Edits(op, id)
    BY <1>5 DEF Edits
  <2>2. PICK u : u = applyOperation(ls, op, at, read)
    OBVIOUS
  <2>3. u = ls \/ u = WithLine(ls, at, op.mods)
    BY <1>5, <2>2 DEF applyOperation
  <2>4. (id \in DOMAIN u <=> id \in DOMAIN ls) /\ (id \in DOMAIN ls => u[id] = ls[id])
    BY <1>1, <2>3 DEF WithLine
  <2> QED
    BY <2>1, <2>2, <2>4 DEF Follows, Edited
<1>6. CASE op.action = "remove_item"
  <2>1. PICK u : u = Without(ls, op.line)
    OBVIOUS
  <2>2. applyOperation(ls, op, at, read) = u
    BY <1>6, <2>1 DEF applyOperation
  <2>3. CASE op.line = id
    <3>1. Edits(op, id) /\ simulate(st, op, V).removed = TRUE
      BY <1>2, <1>6, <2>3 DEF Edits, simulate
    <3>2. id \notin DOMAIN u
      BY <2>1, <2>3 DEF Without
    <3> QED
      BY <2>2, <3>1, <3>2 DEF Follows, Edited
  <2>4. CASE op.line # id
    <3>1. ~ Edits(op, id)
      BY <2>4 DEF Edits
    <3>2. (id \in DOMAIN u <=> id \in DOMAIN ls) /\ (id \in DOMAIN ls => u[id] = ls[id])
      BY <1>1, <2>1, <2>4 DEF Without
    <3> QED
      BY <2>2, <3>1, <3>2 DEF Follows, Edited
  <2> QED
    BY <2>3, <2>4
<1>7. CASE op.action \in {"add_modifier", "remove_modifier"} /\ op.line # id
  <2>1. ~ Edits(op, id)
    BY <1>7 DEF Edits
  <2>2. PICK u : u = applyOperation(ls, op, at, read)
    OBVIOUS
  <2>3. \/ u = ls
        \/ u = [ls EXCEPT ![op.line] = WithOption(@, op.key)]
        \/ u = [ls EXCEPT ![op.line] = Drop(@, op.key)]
    BY <1>7, <2>2 DEF applyOperation
  <2>4. (id \in DOMAIN u <=> id \in DOMAIN ls) /\ (id \in DOMAIN ls => u[id] = ls[id])
    BY <1>1, <1>7, <2>3
  <2> QED
    BY <2>1, <2>2, <2>4 DEF Follows, Edited
<1>8. CASE op.action = "add_modifier" /\ op.line = id
  <2>1. PICK k \in ModifierKey : k = op.key
    BY <1>4, <1>8
  <2>2. PICK ks : ks = WithOption(st.keys, k)
    OBVIOUS
  <2>3. Edits(op, id) /\ simulate(st, op, V).removed = st.removed /\ simulate(st, op, V).keys = ks
    BY <1>2, <1>8, <2>1, <2>2 DEF Edits, simulate, WithOption
  <2>4. PICK u : u = applyOperation(ls, op, at, read)
    OBVIOUS
  <2>5. DOMAIN u = DOMAIN ls
    BY <1>1, <1>8, <2>4 DEF applyOperation
  <2>6. ASSUME id \in DOMAIN ls PROVE Only(u[id], D) = Only(ks, D)
    <3>1. PICK l \in Seq(ModifierKey) : l = ls[id]
      BY <1>1, <2>6 DEF LineKeys
    <3>2. PICK s \in Seq(ModifierKey) : s = st.keys
      BY <1>2 DEF LineKeys
    <3>3. Only(l, D) = Only(s, D)
      BY <2>6, <3>1, <3>2 DEF Follows, Edited
    <3>4. Only(WithOption(l, k), D) = IF k \in D THEN WithOption(Only(l, D), k) ELSE Only(l, D)
      BY ONLY l \in Seq(ModifierKey), k \in ModifierKey, OnlyWithOption
    <3>5. Only(WithOption(s, k), D) = IF k \in D THEN WithOption(Only(s, D), k) ELSE Only(s, D)
      BY ONLY s \in Seq(ModifierKey), k \in ModifierKey, OnlyWithOption
    <3>6. u[id] = IF k \in read.options THEN WithOption(l, k) ELSE l
      BY <1>1, <1>8, <2>1, <2>4, <2>6, <3>1 DEF applyOperation
    <3> QED
      BY <2>2, <3>2, <3>3, <3>4, <3>5, <3>6
  <2> QED
    BY <2>3, <2>4, <2>5, <2>6 DEF Follows, Edited
<1>9. CASE op.action = "remove_modifier" /\ op.line = id
  <2>1. PICK k \in ModifierKey : k = op.key
    BY <1>4, <1>9
  <2>2. PICK ks : ks = Drop(st.keys, k)
    OBVIOUS
  <2>3. Edits(op, id) /\ simulate(st, op, V).removed = st.removed /\ simulate(st, op, V).keys = ks
    BY <1>2, <1>9, <2>1, <2>2 DEF Edits, simulate
  <2>4. PICK u : u = applyOperation(ls, op, at, read)
    OBVIOUS
  <2>5. DOMAIN u = DOMAIN ls
    BY <1>1, <1>9, <2>4 DEF applyOperation
  <2>6. ASSUME id \in DOMAIN ls PROVE Only(u[id], D) = Only(ks, D)
    <3>1. PICK l \in Seq(ModifierKey) : l = ls[id]
      BY <1>1, <2>6 DEF LineKeys
    <3>2. PICK s \in Seq(ModifierKey) : s = st.keys
      BY <1>2 DEF LineKeys
    <3>3. Only(l, D) = Only(s, D)
      BY <2>6, <3>1, <3>2 DEF Follows, Edited
    <3>4. Only(Drop(l, k), D) = IF k \in D THEN Only(Only(l, D), D \ {k}) ELSE Only(l, D)
      BY ONLY l \in Seq(ModifierKey), OnlyDrop
    <3>5. Only(Drop(s, k), D) = IF k \in D THEN Only(Only(s, D), D \ {k}) ELSE Only(s, D)
      BY ONLY s \in Seq(ModifierKey), OnlyDrop
    <3>6. u[id] = IF k \in read.options THEN Drop(l, k) ELSE l
      BY <1>1, <1>9, <2>1, <2>4, <2>6, <3>1 DEF applyOperation
    <3> QED
      BY <2>2, <3>2, <3>3, <3>4, <3>5, <3>6
  <2> QED
    BY <2>3, <2>4, <2>5, <2>6 DEF Follows, Edited
<1> QED
  BY <1>3, <1>5, <1>6, <1>7, <1>8, <1>9

LEMMA BatchFollows ==
    ASSUME NEW t \in Nat, NEW ls \in Lines, NEW v, NEW id, v.lines[id] \in LineKeys, v.options \in SUBSET Option,
           NEW D, NEW reads, \A i \in Nat : reads[i] \in Reading /\ D \subseteq reads[i].options, NEW ops \in Seq(Operation),
           id \in DOMAIN ls, id[1] # t, Only(ls[id], D) = Only(v.lines[id], D)
    PROVE  Follows(applyBatch(t, ls, ops, reads), id, LineState(ops, v, id), D)
<1> DEFINE T == {p \in Seq(Operation) : Follows(applyBatch(t, ls, p, reads), id, LineState(p, v, id), D)}
<1>1. <<>> \in T
  <2>1. LineState(<<>>, v, id) = [keys |-> v.lines[id], touched |-> {}, removed |-> FALSE]
    BY LineStateEmpty
  <2>2. applyBatch(t, ls, <<>>, reads) = ls
    BY BatchEmpty
  <2>3. Follows(ls, id, [keys |-> v.lines[id], touched |-> {}, removed |-> FALSE], D)
    BY DEF Follows
  <2>4. <<>> \in Seq(Operation)
    OBVIOUS
  <2> QED
    BY <2>1, <2>2, <2>3, <2>4
<1>2. ASSUME NEW p \in Seq(Operation), NEW op \in Operation, p \in T PROVE Append(p, op) \in T
  <2>1. PICK st, V : st = LineState(p, v, id) /\ V = v.options
    OBVIOUS
  <2>2. /\ st \in LineStates
        /\ LineState(Append(p, op), v, id) = Edited(st, op, V, id)
    BY <2>1, LineStateAppend
  <2>3. PICK left, at, read : /\ left = applyBatch(t, ls, p, reads) /\ at = <<t, Len(p) + 1>>
                              /\ read = reads[Len(p) + 1]
    OBVIOUS
  <2>4. /\ left \in Lines
        /\ applyBatch(t, ls, Append(p, op), reads) = applyOperation(left, op, at, read)
    BY <2>3, BatchAppend
  <2>5. at \in Nat \X Nat /\ at # id
    BY <2>3
  <2>6. Follows(left, id, st, D)
    BY <1>2, <2>1, <2>3
  <2>7. V \in SUBSET Option
    BY <2>1
  <2>8. read \in Reading /\ D \subseteq read.options
    BY <2>3
  <2>9. Follows(applyOperation(left, op, at, read), id, Edited(st, op, V, id), D)
    BY ONLY <2>2, <2>4, <2>5, <2>6, <2>7, op \in Operation, <2>8, StepFollows
  <2>10. Append(p, op) \in Seq(Operation)
    OBVIOUS
  <2> QED
    BY <2>2, <2>4, <2>9, <2>10
<1>3. ops \in T
  <2> HIDE DEF T
  <2> QED
    BY <1>1, <1>2, SeqInduction
<1> QED
  BY <1>3

\* The lines a batch of turn t adds: one for each item it can add.
Clean(ops, t) == \A i \in DOMAIN ops : ops[i].action # "add_item" => ops[i].line[1] # t
Added(ops, i, reads) ==
    /\ i \in DOMAIN ops /\ ops[i].action = "add_item"
    /\ reads[i].sold /\ Range(ops[i].mods) \subseteq reads[i].options

AddsOnly(ls, ops, t, reads) ==
    \A i \in Nat : /\ <<t, i>> \in DOMAIN ls <=> Added(ops, i, reads)
                   /\ <<t, i>> \in DOMAIN ls => ls[<<t, i>>] = ops[i].mods

LEMMA BatchAdds ==
    ASSUME NEW t \in Nat, NEW ls \in Lines, NEW ops \in Seq(Operation), Clean(ops, t),
           NEW reads, \A i \in Nat : reads[i] \in Reading, \A id \in DOMAIN ls : id[1] # t
    PROVE  AddsOnly(applyBatch(t, ls, ops, reads), ops, t, reads)
<1> DEFINE T == {p \in Seq(Operation) : Clean(p, t) => AddsOnly(applyBatch(t, ls, p, reads), p, t, reads)}
<1>1. <<>> \in T
  <2>1. applyBatch(t, ls, <<>>, reads) = ls
    BY BatchEmpty
  <2>2. \A i \in Nat : <<t, i>> \notin DOMAIN ls /\ ~ Added(<<>>, i, reads)
    <3> TAKE i \in Nat
    <3>1. <<t, i>>[1] = t
      OBVIOUS
    <3> QED
      BY <3>1 DEF Added
  <2>3. AddsOnly(ls, <<>>, t, reads)
    BY <2>2 DEF AddsOnly
  <2>4. <<>> \in Seq(Operation)
    OBVIOUS
  <2> QED
    BY <2>1, <2>3, <2>4
<1>2. ASSUME NEW p \in Seq(Operation), NEW op \in Operation, p \in T PROVE Append(p, op) \in T
  <2>1. PICK n \in Nat : n = Len(p) /\ DOMAIN p = 1..n
    OBVIOUS
  <2>2. PICK u : u = Append(p, op)
    OBVIOUS
  <2>3. /\ u \in Seq(Operation) /\ DOMAIN u = 1..(n + 1) /\ u[n + 1] = op
        /\ \A i \in 1..n : u[i] = p[i]
    BY <2>1, <2>2
  <2>4. SUFFICES ASSUME Clean(u, t) PROVE AddsOnly(applyBatch(t, ls, u, reads), u, t, reads)
    BY <2>2, <2>3
  <2>5. Clean(p, t)
    BY <2>1, <2>3, <2>4 DEF Clean
  <2>6. op.action # "add_item" => op.line[1] # t
    <3>1. n + 1 \in DOMAIN u
      BY <2>3
    <3> QED
      BY <2>3, <2>4, <3>1 DEF Clean
  <2>7. PICK left, at, next, read : /\ left = applyBatch(t, ls, p, reads) /\ at = <<t, n + 1>>
                                    /\ next = applyBatch(t, ls, u, reads) /\ read = reads[n + 1]
    OBVIOUS
  <2>8. left \in Lines /\ next = applyOperation(left, op, at, read)
    BY <2>1, <2>2, <2>7, BatchAppend
  <2>9. AddsOnly(left, p, t, reads)
    BY <1>2, <2>5, <2>7
  <2>10. PICK S \in SUBSET (Nat \X Nat) : left \in [S -> LineKeys]
    BY <2>8 DEF Lines
  <2>11. op.action \in {"add_item", "remove_item", "add_modifier", "remove_modifier"}
    BY DEF Operation, Edit
  <2>12. CASE op.action = "add_item" /\ read.sold /\ Range(op.mods) \subseteq read.options
    <3>1. next = WithLine(left, at, op.mods)
      BY <2>8, <2>12 DEF applyOperation
    <3>2. DOMAIN next = S \cup {at} /\ next[at] = op.mods /\ \A id \in S : id # at => next[id] = left[id]
      BY <2>10, <3>1 DEF WithLine
    <3>3. Added(u, n + 1, reads)
      BY <2>3, <2>7, <2>12 DEF Added
    <3>4. ASSUME NEW i \in Nat, i # n + 1
          PROVE  /\ <<t, i>> # at
                 /\ Added(u, i, reads) <=> Added(p, i, reads)
                 /\ Added(p, i, reads) => u[i] = p[i]
      <4>1. i \in DOMAIN u <=> i \in DOMAIN p
        BY <2>1, <2>3, <3>4
      <4>2. i \in DOMAIN p => u[i] = p[i]
        BY <2>1, <2>3
      <4>3. <<t, i>> # at
        BY <2>7, <3>4
      <4> QED
        BY <4>1, <4>2, <4>3 DEF Added
    <3>5. ASSUME NEW i \in Nat
          PROVE  /\ <<t, i>> \in DOMAIN next <=> Added(u, i, reads)
                 /\ <<t, i>> \in DOMAIN next => next[<<t, i>>] = u[i].mods
      <4>1. CASE i = n + 1
        BY <2>3, <2>7, <3>2, <3>3, <4>1
      <4>2. CASE i # n + 1
        <5>1. <<t, i>> \in S <=> Added(p, i, reads)
          BY <2>9, <2>10 DEF AddsOnly
        <5>2. <<t, i>> \in S => left[<<t, i>>] = p[i].mods
          BY <2>9, <2>10 DEF AddsOnly
        <5> QED
          BY <3>2, <3>4, <4>2, <5>1, <5>2
      <4> QED
        BY <4>1, <4>2
    <3> QED
      BY <2>7, <3>5 DEF AddsOnly
  <2>13. CASE ~ (op.action = "add_item" /\ read.sold /\ Range(op.mods) \subseteq read.options)
    <3>1. ASSUME NEW i \in Nat
          PROVE  /\ <<t, i>> \in DOMAIN next <=> <<t, i>> \in S
                 /\ <<t, i>> \in S => next[<<t, i>>] = left[<<t, i>>]
      <4>1. PICK id : id = <<t, i>>
        OBVIOUS
      <4>2. op.action # "add_item" => op.line # id
        BY <2>6, <4>1
      <4>3. (id \in DOMAIN next <=> id \in S) /\ (id \in S => next[id] = left[id])
        <5>1. CASE op.action = "add_item"
          BY <2>8, <2>10, <2>13, <5>1 DEF applyOperation
        <5>2. CASE op.action = "remove_item"
          <6>1. next = Without(left, op.line)
            BY <2>8, <5>2 DEF applyOperation
          <6> QED
            BY <2>10, <4>2, <5>2, <6>1 DEF Without
        <5>3. CASE op.action \in {"add_modifier", "remove_modifier"}
          <6>1. \/ next = left
                \/ next = [left EXCEPT ![op.line] = WithOption(@, op.key)]
                \/ next = [left EXCEPT ![op.line] = Drop(@, op.key)]
            BY <2>8, <5>3 DEF applyOperation
          <6> QED
            BY <2>10, <4>2, <5>3, <6>1
        <5> QED
          BY <2>11, <5>1, <5>2, <5>3
      <4> QED
        BY <4>1, <4>3
    <3>2. ASSUME NEW i \in Nat
          PROVE  /\ Added(u, i, reads) <=> Added(p, i, reads)
                 /\ Added(p, i, reads) => u[i] = p[i]
      <4>1. CASE i = n + 1
        BY <2>1, <2>3, <2>7, <2>13, <4>1 DEF Added
      <4>2. CASE i # n + 1
        <5>1. i \in DOMAIN u <=> i \in DOMAIN p
          BY <2>1, <2>3, <4>2
        <5>2. i \in DOMAIN p => u[i] = p[i]
          BY <2>1, <2>3
        <5> QED
          BY <5>1, <5>2 DEF Added
      <4> QED
        BY <4>1, <4>2
    <3>3. ASSUME NEW i \in Nat
          PROVE  /\ <<t, i>> \in DOMAIN next <=> Added(u, i, reads)
                 /\ <<t, i>> \in DOMAIN next => next[<<t, i>>] = u[i].mods
      <4>1. <<t, i>> \in S <=> Added(p, i, reads)
        BY <2>9, <2>10 DEF AddsOnly
      <4>2. <<t, i>> \in S => left[<<t, i>>] = p[i].mods
        BY <2>9, <2>10 DEF AddsOnly
      <4> QED
        BY <3>1, <3>2, <4>1, <4>2
    <3> QED
      BY <2>7, <3>3 DEF AddsOnly
  <2> QED
    BY <2>12, <2>13
<1>3. ops \in T
  <2> HIDE DEF T
  <2> QED
    BY <1>1, <1>2, SeqInduction
<1> QED
  BY <1>3

\* The lines a batch leaves are those it found, and those of its own turn.
LEMMA BatchOfTurn ==
    ASSUME NEW t \in Nat, NEW ls \in Lines, NEW ops \in Seq(Operation),
           NEW reads, \A i \in Nat : reads[i] \in Reading
    PROVE  \A id \in DOMAIN applyBatch(t, ls, ops, reads) : id \in DOMAIN ls \/ id[1] = t
<1> DEFINE T == {p \in Seq(Operation) : \A id \in DOMAIN applyBatch(t, ls, p, reads) : id \in DOMAIN ls \/ id[1] = t}
<1>1. <<>> \in T
  <2>1. applyBatch(t, ls, <<>>, reads) = ls
    BY BatchEmpty
  <2>2. <<>> \in Seq(Operation)
    OBVIOUS
  <2> QED
    BY <2>1, <2>2
<1>2. ASSUME NEW p \in Seq(Operation), NEW op \in Operation, p \in T PROVE Append(p, op) \in T
  <2>1. PICK left, at, read : /\ left = applyBatch(t, ls, p, reads) /\ at = <<t, Len(p) + 1>>
                              /\ read = reads[Len(p) + 1]
    OBVIOUS
  <2>2. /\ left \in Lines
        /\ applyBatch(t, ls, Append(p, op), reads) = applyOperation(left, op, at, read)
    BY <2>1, BatchAppend
  <2>3. PICK S \in SUBSET (Nat \X Nat) : left \in [S -> LineKeys]
    BY <2>2 DEF Lines
  <2>4. PICK next : next = applyOperation(left, op, at, read)
    OBVIOUS
  <2>5. op.action \in {"add_item", "remove_item", "add_modifier", "remove_modifier"}
    BY DEF Operation, Edit
  <2>6. \/ next = left
        \/ next = WithLine(left, at, op.mods)
        \/ next = Without(left, op.line)
        \/ next = [left EXCEPT ![op.line] = WithOption(@, op.key)]
        \/ next = [left EXCEPT ![op.line] = Drop(@, op.key)]
    BY <2>4, <2>5 DEF applyOperation
  <2>7. \A id \in DOMAIN next : id \in S \/ id = at
    BY <2>3, <2>6 DEF WithLine, Without
  <2>8. at[1] = t
    BY <2>1
  <2>9. \A id \in S : id \in DOMAIN ls \/ id[1] = t
    BY <1>2, <2>1, <2>3
  <2>10. Append(p, op) \in Seq(Operation)
    OBVIOUS
  <2> QED
    BY <2>2, <2>4, <2>7, <2>8, <2>9, <2>10
<1>3. ops \in T
  <2> HIDE DEF T
  <2> QED
    BY <1>1, <1>2, SeqInduction
<1> QED
  BY <1>3

-----------------------------------------------------------------------------
(* A batch that complies is whole; one that does not, is not. *)

\* The groups a batch of turn t is about, and what is left whole, with nothing of the state in them.
NamedFor(t, id, v, ops, found) ==
    IF id[1] = t THEN IF found = "sold" THEN Required ELSE {} ELSE GroupsNamed(ops, v.options, id)
WholeFor(t, ls, M, v, ops, found) ==
    \A id \in DOMAIN ls : \A g \in RequiredIn(M) \cap NamedFor(t, id, v, ops, found) : Count(ls[id], M, g) = 1

\* The menu a batch ends with offers of group g what turn t saw of it, ...
MenuSeen(t, ls, M, v, g) ==
    /\ t \in Nat /\ ls \in Lines /\ v.lines \in Lines
    /\ M \in SUBSET Option /\ v.options \in SUBSET Option
    /\ OfGroup(M, g) = OfGroup(v.options, g)
\* ... no operation of the batch missed any of it, ...
NoneMissed(reads, M, g) == \A i \in Nat : reads[i] \in Reading /\ OfGroup(M, g) \subseteq reads[i].options
\* ... and the line held of it what turn t saw there.
LineSeen(t, ls, M, v, id, g) ==
    /\ id \in DOMAIN ls /\ id \in DOMAIN v.lines /\ id[1] # t
    /\ Only(ls[id], OfGroup(M, g)) = Only(v.lines[id], OfGroup(M, g))

\* The items a batch adds have their choice of group g.
AddsRight(ops, O, found, g) ==
    found = "sold" /\ g \in RequiredIn(O) =>
        \A i \in DOMAIN ops : ops[i].action = "add_item" => Count(ops[i].mods, O, g) = 1

LEMMA LinesAre ==
    ASSUME NEW ls \in Lines, NEW id \in DOMAIN ls
    PROVE  ls[id] \in LineKeys /\ id \in Nat \X Nat
<1>1. PICK S \in SUBSET (Nat \X Nat) : ls \in [S -> LineKeys]
  BY DEF Lines
<1> QED
  BY <1>1

LEMMA EditIsFollowed ==
    ASSUME NEW t, NEW ls, NEW M, NEW v, NEW g, MenuSeen(t, ls, M, v, g),
           NEW reads, NoneMissed(reads, M, g), NEW id, LineSeen(t, ls, M, v, id, g),
           NEW ops \in Seq(Operation), NEW left, left = applyBatch(t, ls, ops, reads),
           NEW st, st = LineState(ops, v, id)
    PROVE  /\ st.touched = GroupsNamed(ops, v.options, id)
           /\ id \in DOMAIN left <=> ~ st.removed
           /\ id \in DOMAIN left => Count(left[id], M, g) = Count(st.keys, v.options, g)
<1>1. v.lines[id] \in LineKeys
  <2>1. PICK w \in Lines : w = v.lines
    BY DEF MenuSeen
  <2>2. id \in DOMAIN w
    BY <2>1 DEF LineSeen
  <2>3. w[id] \in LineKeys
    BY <2>2, LinesAre
  <2> QED
    BY <2>1, <2>3
<1>2. v.options \in SUBSET Option
  BY DEF MenuSeen
<1>3. st.touched = GroupsNamed(ops, v.options, id)
  BY <1>1, <1>2, TouchedAreNamed
<1>4. PICK D : D = OfGroup(M, g)
  OBVIOUS
<1>5. Follows(left, id, st, D)
  <2>1. /\ t \in Nat /\ ls \in Lines /\ id \in DOMAIN ls
        /\ id[1] # t /\ Only(ls[id], D) = Only(v.lines[id], D)
    BY <1>4 DEF MenuSeen, LineSeen
  <2>2. \A i \in Nat : reads[i] \in Reading /\ D \subseteq reads[i].options
    BY <1>4 DEF NoneMissed
  <2> QED
    BY <1>1, <1>2, <2>1, <2>2, BatchFollows
<1>6. st \in LineStates
  BY <1>1, <1>2, LineStateTyped
<1>7. left \in Lines
  <2>1. t \in Nat /\ ls \in Lines /\ \A i \in 1..Len(ops) : reads[i] \in Reading
    BY DEF MenuSeen, NoneMissed
  <2> QED
    BY <2>1, BatchTyped
<1>8. ASSUME id \in DOMAIN left PROVE Count(left[id], M, g) = Count(st.keys, v.options, g)
  <2>1. PICK s : s = left[id]
    OBVIOUS
  <2>2. s \in Seq(ModifierKey)
    BY <1>7, <1>8, <2>1, LinesAre DEF LineKeys
  <2>3. PICK u : u = st.keys
    OBVIOUS
  <2>4. u \in Seq(ModifierKey)
    BY <1>6, <2>3 DEF LineStates, LineKeys
  <2>5. PICK V : V = v.options
    OBVIOUS
  <2>6. OfGroup(M, g) = OfGroup(V, g)
    BY <2>5 DEF MenuSeen
  <2>7. Only(s, OfGroup(M, g)) = Only(u, OfGroup(M, g))
    BY <1>4, <1>5, <1>8, <2>1, <2>3 DEF Follows
  <2>8. Count(s, M, g) = Count(u, V, g)
    BY ONLY <2>2, <2>4, <2>6, <2>7, CountSame
  <2> QED
    BY <2>1, <2>3, <2>5, <2>8
<1> QED
  BY <1>3, <1>5, <1>8 DEF Follows

LEMMA CompliantIsWhole ==
    ASSUME NEW t, NEW ls, NEW M, NEW v, NEW g, MenuSeen(t, ls, M, v, g), \A id \in DOMAIN ls : id[1] # t,
           NEW reads, NoneMissed(reads, M, g), NEW ops \in Seq(Operation), Clean(ops, t), NEW found,
           EditViolations(ops, v) = {}, AddsRight(ops, v.options, found, g),
           NEW left, left = applyBatch(t, ls, ops, reads), NEW id \in DOMAIN left,
           g \in RequiredIn(M), g \in NamedFor(t, id, v, ops, found),
           id[1] # t => LineSeen(t, ls, M, v, id, g)
    PROVE  Count(left[id], M, g) = 1
<1>1. t \in Nat /\ ls \in Lines /\ \A i \in Nat : reads[i] \in Reading
  BY DEF MenuSeen, NoneMissed
<1>2. g \in Required
  BY DEF RequiredIn
<1>3. PICK V : V = v.options
  OBVIOUS
<1>4. OfGroup(M, g) = OfGroup(V, g)
  BY <1>3 DEF MenuSeen
<1>5. g \in RequiredIn(V)
  <2>1. g \in RequiredIn(M)
    OBVIOUS
  <2> QED
    BY ONLY <1>4, <2>1, RequiredSame
<1>6. id \in Nat \X Nat
  <2>1. left \in Lines
    <3>1. \A i \in 1..Len(ops) : reads[i] \in Reading
      BY <1>1
    <3> QED
      BY <1>1, <3>1, BatchTyped
  <2> QED
    BY <2>1, LinesAre
<1>7. CASE id[1] = t
  <2>1. PICK i \in Nat : id = <<t, i>>
    BY <1>6, <1>7
  <2>2. AddsOnly(left, ops, t, reads)
    BY <1>1, BatchAdds
  <2>3. Added(ops, i, reads) /\ left[id] = ops[i].mods
    BY <2>1, <2>2 DEF AddsOnly
  <2>4. found = "sold"
    BY <1>7 DEF NamedFor
  <2>5. Count(ops[i].mods, V, g) = 1
    BY <1>3, <1>5, <2>3, <2>4 DEF AddsRight, Added
  <2>6. PICK s : s = ops[i].mods
    OBVIOUS
  <2>7. s \in Seq(ModifierKey)
    <3>1. ops[i] \in Operation /\ ops[i].action = "add_item"
      BY <2>3 DEF Added
    <3> QED
      BY <2>6, <3>1 DEF Operation, Edit
  <2>8. Count(s, M, g) = Count(s, V, g)
    BY ONLY <1>4, <2>7, CountSame
  <2> QED
    BY <2>3, <2>5, <2>6, <2>8
<1>8. CASE id[1] # t
  <2>1. LineSeen(t, ls, M, v, id, g)
    BY <1>8
  <2>2. PICK st : st = LineState(ops, v, id)
    OBVIOUS
  <2>3. /\ st.touched = GroupsNamed(ops, v.options, id)
        /\ ~ st.removed
        /\ Count(left[id], M, g) = Count(st.keys, v.options, g)
    <3>1. /\ st.touched = GroupsNamed(ops, v.options, id)
          /\ id \in DOMAIN left <=> ~ st.removed
          /\ id \in DOMAIN left => Count(left[id], M, g) = Count(st.keys, v.options, g)
      BY <2>1, <2>2, EditIsFollowed
    <3> QED
      BY <3>1
  <2>4. g \in st.touched
    BY <1>8, <2>3 DEF NamedFor
  <2>5. <<id, g>> \in (DOMAIN v.lines) \X Required /\ <<id, g>>[1] = id /\ <<id, g>>[2] = g
    BY <1>2, <2>1 DEF LineSeen
  <2>6. <<id, g>> \notin EditViolations(ops, v)
    OBVIOUS
  <2>7. g \notin checkExactlyOne(st.keys, v.options, st.touched)
    BY <2>2, <2>3, <2>5, <2>6 DEF EditViolations
  <2> QED
    BY <1>3, <1>5, <2>3, <2>4, <2>7 DEF checkExactlyOne
<1> QED
  BY <1>7, <1>8

LEMMA ViolationIsNot ==
    ASSUME NEW t, NEW M, NEW v, \A g \in Required : MenuSeen(t, v.lines, M, v, g),
           \A id \in DOMAIN v.lines : id[1] # t,
           NEW reads, \A i \in Nat : reads[i] \in Reading /\ reads[i].sold /\ M \subseteq reads[i].options,
           NEW ops \in Seq(Operation), Clean(ops, t), NEW found,
           AddViolations(ops, M, found) # {} \/ EditViolations(ops, v) # {},
           \A i \in DOMAIN ops : ops[i].action = "add_item" => Range(ops[i].mods) \subseteq M
    PROVE  ~ WholeFor(t, applyBatch(t, v.lines, ops, reads), M, v, ops, found)
<1>1. PICK ls, left : ls = v.lines /\ left = applyBatch(t, ls, ops, reads)
  OBVIOUS
<1>2. ASSUME NEW g \in Required
      PROVE  t \in Nat /\ ls \in Lines /\ MenuSeen(t, ls, M, v, g) /\ NoneMissed(reads, M, g)
  <2>1. MenuSeen(t, ls, M, v, g)
    BY <1>1
  <2>2. OfGroup(M, g) \subseteq M
    BY DEF OfGroup
  <2> QED
    BY <2>1, <2>2 DEF MenuSeen, NoneMissed
<1>3. CASE AddViolations(ops, M, found) # {}
  <2>1. PICK at \in (DOMAIN ops) \X Required :
           /\ ops[at[1]].action = "add_item" /\ found = "sold"
           /\ at[2] \in checkExactlyOne(ops[at[1]].mods, M, Required)
    BY <1>3 DEF AddViolations
  <2>2. PICK i \in DOMAIN ops, g \in Required : at = <<i, g>> /\ at[1] = i /\ at[2] = g
    OBVIOUS
  <2>3. /\ ops[i].action = "add_item" /\ found = "sold"
        /\ g \in RequiredIn(M) /\ Count(ops[i].mods, M, g) # 1
    BY <2>1, <2>2 DEF checkExactlyOne
  <2>4. AddsOnly(left, ops, t, reads)
    <3>1. /\ t \in Nat /\ ls \in Lines /\ \A id \in DOMAIN ls : id[1] # t
          /\ \A j \in Nat : reads[j] \in Reading
      BY <1>1, <1>2, <2>2
    <3> QED
      BY <1>1, <3>1, BatchAdds
  <2>5. i \in Nat
    OBVIOUS
  <2>6. Added(ops, i, reads)
    <3>1. reads[i].sold /\ M \subseteq reads[i].options
      BY <2>5
    <3>2. Range(ops[i].mods) \subseteq M
      BY <2>3
    <3> QED
      BY <2>3, <3>1, <3>2 DEF Added
  <2>7. <<t, i>> \in DOMAIN left /\ left[<<t, i>>] = ops[i].mods
    BY <2>4, <2>5, <2>6 DEF AddsOnly
  <2>8. PICK id : id = <<t, i>>
    OBVIOUS
  <2>9. id[1] = t
    BY <2>8
  <2>10. g \in NamedFor(t, id, v, ops, found)
    BY <2>3, <2>9 DEF NamedFor
  <2> QED
    BY <1>1, <2>3, <2>7, <2>8, <2>10 DEF WholeFor
<1>4. CASE EditViolations(ops, v) # {}
  <2>1. PICK at \in (DOMAIN v.lines) \X Required :
           LET s == LineState(ops, v, at[1]) IN
           ~ s.removed /\ at[2] \in checkExactlyOne(s.keys, v.options, s.touched)
    BY <1>4 DEF EditViolations
  <2>2. PICK id \in DOMAIN ls, g \in Required : at = <<id, g>> /\ at[1] = id /\ at[2] = g
    BY <1>1
  <2>3. PICK st : st = LineState(ops, v, id)
    OBVIOUS
  <2>4. ~ st.removed /\ g \in RequiredIn(v.options) /\ g \in st.touched /\ Count(st.keys, v.options, g) # 1
    BY <2>1, <2>2, <2>3 DEF checkExactlyOne
  <2>5. /\ MenuSeen(t, ls, M, v, g) /\ NoneMissed(reads, M, g) /\ LineSeen(t, ls, M, v, id, g)
        /\ left = applyBatch(t, ls, ops, reads)
    <3>1. LineSeen(t, ls, M, v, id, g)
      BY <1>1, <2>2 DEF LineSeen
    <3> QED
      BY <1>1, <1>2, <2>2, <3>1
  <2>6. /\ st.touched = GroupsNamed(ops, v.options, id)
        /\ id \in DOMAIN left
        /\ Count(left[id], M, g) = Count(st.keys, v.options, g)
    <3>1. /\ st.touched = GroupsNamed(ops, v.options, id)
          /\ id \in DOMAIN left <=> ~ st.removed
          /\ id \in DOMAIN left => Count(left[id], M, g) = Count(st.keys, v.options, g)
      BY ONLY <2>3, <2>5, ops \in Seq(Operation), EditIsFollowed
    <3> QED
      BY <2>4, <3>1
  <2>7. PICK V : V = v.options
    OBVIOUS
  <2>8. g \in RequiredIn(M)
    <3>1. OfGroup(M, g) = OfGroup(V, g)
      BY <2>5, <2>7 DEF MenuSeen
    <3>2. g \in RequiredIn(V)
      BY <2>4, <2>7
    <3> QED
      BY ONLY <3>1, <3>2, RequiredSame
  <2>9. g \in NamedFor(t, id, v, ops, found)
    BY <1>1, <2>4, <2>5, <2>6 DEF NamedFor, LineSeen
  <2> QED
    BY <1>1, <2>4, <2>6, <2>8, <2>9 DEF WholeFor
<1> QED
  BY <1>3, <1>4

\* What the check made of the items added, said of the menu of the view.
LEMMA AddsAreRight ==
    ASSUME NEW M, NEW P, NEW g \in Required, OfGroup(M, g) = OfGroup(P, g),
           NEW ops \in Seq(Operation), NEW found, AddViolations(ops, M, found) = {}
    PROVE  AddsRight(ops, P, found, g)
<1>1. SUFFICES ASSUME found = "sold", g \in RequiredIn(P), NEW i \in DOMAIN ops, ops[i].action = "add_item"
               PROVE  Count(ops[i].mods, P, g) = 1
  BY DEF AddsRight
<1>2. <<i, g>> \in (DOMAIN ops) \X Required /\ <<i, g>>[1] = i /\ <<i, g>>[2] = g
  OBVIOUS
<1>3. <<i, g>> \notin AddViolations(ops, M, found)
  OBVIOUS
<1>4. g \notin checkExactlyOne(ops[i].mods, M, Required)
  BY <1>1, <1>2, <1>3 DEF AddViolations
<1>5. g \in RequiredIn(M)
  <2>1. g \in RequiredIn(P) /\ OfGroup(M, g) = OfGroup(P, g)
    BY <1>1
  <2> QED
    BY ONLY <2>1, RequiredSame
<1>6. PICK s : s = ops[i].mods
  OBVIOUS
<1>7. s \in Seq(ModifierKey)
  <2>1. ops[i] \in Operation
    OBVIOUS
  <2> QED
    BY <1>1, <1>6, <2>1 DEF Operation, Edit
<1>8. Count(s, M, g) = Count(s, P, g)
  <2>1. OfGroup(M, g) = OfGroup(P, g)
    OBVIOUS
  <2> QED
    BY ONLY <1>7, <2>1, CountSame
<1> QED
  BY <1>4, <1>5, <1>6, <1>8 DEF checkExactlyOne

-----------------------------------------------------------------------------
(* The inductive invariant. *)

ModTypes ==
    /\ lines \in Lines
    /\ offered \in SUBSET Option
    /\ view \in [CartTurns -> [lines : Lines, options : SUBSET Option]]
    /\ batch \in [CartTurns -> Seq(Operation)]
    /\ known \in [CartTurns -> {"none", "sold", "unavailable", "unknown"}]
    /\ pc \in [CartTurns -> {"queued", "viewing", "passed", "asked", "applied"}]

\* A line of a turn's own is there only once its batch is applied.
OwnLines ==
    \A t \in CartTurns :
        /\ pc[t] # "applied" => \A id \in DOMAIN lines : id[1] # t
        /\ \A id \in DOMAIN view[t].lines : id[1] # t
        /\ Clean(batch[t], t)

SameMenu(t, g) == OfGroup(offered, g) = OfGroup(view[t].options, g)

\* What passed the check complies with the view, and with the menu in the groups it has left alone.
Checked ==
    \A t \in CartTurns :
        /\ pc[t] # "queued" => offered \subseteq view[t].options
        /\ pc[t] = "passed" => EditViolations(batch[t], view[t]) = {}
        /\ pc[t] = "passed" => \A g \in Required :
              SameMenu(t, g) => AddsRight(batch[t], view[t].options, known[t], g)

ModInv == ModTypes /\ OwnLines /\ Checked

LEMMA ModInit == ModifiersInit => ModInv
<1> SUFFICES ASSUME ModifiersInit PROVE ModInv
  OBVIOUS
<1>1. Gone \in Lines /\ DOMAIN Gone = {}
  <2>1. Gone \in [{} -> LineKeys]
    BY DEF Gone
  <2>2. {} \in SUBSET (Nat \X Nat)
    OBVIOUS
  <2> QED
    BY <2>1, <2>2 DEF Lines
<1>2. lines \in Lines /\ DOMAIN lines = {<<0, 1>>}
  <2>1. PICK keys \in InitialChoices : lines = [id \in {L} |-> keys]
    BY DEF ModifiersInit
  <2>2. keys \in LineKeys
    BY BatchAssumption DEF LineKeys
  <2>3. L \in Nat \X Nat
    BY DEF L
  <2>4. lines \in [{L} -> LineKeys]
    BY <2>1, <2>2
  <2>5. {L} \in SUBSET (Nat \X Nat)
    BY <2>3
  <2>6. lines \in Lines
    BY <2>4, <2>5 DEF Lines
  <2> QED
    BY <2>4, <2>6 DEF L
<1>3. PICK none : none = [lines |-> Gone, options |-> {}]
  OBVIOUS
<1>4. none \in [lines : Lines, options : SUBSET Option] /\ none.lines = Gone
  BY <1>1, <1>3
<1>5. view = [t \in CartTurns |-> none]
  BY <1>3 DEF ModifiersInit
<1>6. ModTypes
  <2>1. batch \in [CartTurns -> Seq(Operation)]
    <3>1. <<>> \in Seq(Operation)
      OBVIOUS
    <3> QED
      BY <3>1 DEF ModifiersInit
  <2>2. view \in [CartTurns -> [lines : Lines, options : SUBSET Option]]
    BY <1>4, <1>5
  <2>3. /\ offered \in SUBSET Option
        /\ known \in [CartTurns -> {"none", "sold", "unavailable", "unknown"}]
        /\ pc \in [CartTurns -> {"queued", "viewing", "passed", "asked", "applied"}]
    BY DEF ModifiersInit
  <2> QED
    BY <1>2, <2>1, <2>2, <2>3 DEF ModTypes
<1>7. OwnLines
  <2> SUFFICES ASSUME NEW t \in CartTurns
               PROVE  /\ \A id \in DOMAIN lines : id[1] # t
                      /\ \A id \in DOMAIN view[t].lines : id[1] # t
                      /\ Clean(batch[t], t)
    BY DEF OwnLines
  <2>1. <<0, 1>>[1] = 0 /\ t # 0
    BY BatchAssumption
  <2>2. \A id \in DOMAIN view[t].lines : id[1] # t
    BY <1>1, <1>4, <1>5
  <2>3. Clean(batch[t], t)
    BY DEF ModifiersInit, Clean
  <2> QED
    BY <1>2, <2>1, <2>2, <2>3
<1>8. Checked
  BY DEF Checked, ModifiersInit
<1> QED
  BY <1>6, <1>7, <1>8 DEF ModInv

LEMMA ViewKeeps == ASSUME ModInv, NEW t \in CartTurns, buildCartView(t) PROVE ModInv'
<1> USE DEF ModInv
<1>1. PICK w : w = [lines |-> [id \in DOMAIN lines |-> Only(lines[id], offered)], options |-> offered]
  OBVIOUS
<1>2. /\ pc[t] = "queued" /\ pc' = [pc EXCEPT ![t] = "viewing"] /\ view' = [view EXCEPT ![t] = w]
      /\ UNCHANGED <<lines, offered, batch, known>>
  BY <1>1 DEF buildCartView
<1>3. w.lines \in Lines /\ DOMAIN w.lines = DOMAIN lines
  <2>1. PICK S \in SUBSET (Nat \X Nat) : lines \in [S -> LineKeys]
    BY DEF ModTypes, Lines
  <2>2. ASSUME NEW id \in S PROVE Only(lines[id], offered) \in LineKeys
    <3>1. lines[id] \in Seq(ModifierKey)
      BY <2>1 DEF LineKeys
    <3>2. Only(lines[id], offered) \in Seq(ModifierKey)
      BY ONLY <3>1, OnlySeq
    <3> QED
      BY <3>2 DEF LineKeys
  <2>3. [id \in DOMAIN lines |-> Only(lines[id], offered)] \in [S -> LineKeys]
    BY <2>1, <2>2
  <2>4. w.lines = [id \in DOMAIN lines |-> Only(lines[id], offered)]
    BY <1>1
  <2>5. w.lines \in [S -> LineKeys]
    BY <2>3, <2>4
  <2> QED
    BY <2>1, <2>5 DEF Lines
<1>4. w \in [lines : Lines, options : SUBSET Option] /\ w.options = offered
  BY <1>1, <1>3 DEF ModTypes
<1>5. ModTypes'
  BY <1>2, <1>4 DEF ModTypes
<1>6. view'[t] = w /\ pc'[t] = "viewing"
  BY <1>2 DEF ModTypes
<1>7. \A u \in CartTurns : u # t => view'[u] = view[u] /\ pc'[u] = pc[u]
  BY <1>2 DEF ModTypes
<1>8. OwnLines'
  <2> SUFFICES ASSUME NEW u \in CartTurns
               PROVE  /\ pc'[u] # "applied" => \A id \in DOMAIN lines' : id[1] # u
                      /\ \A id \in DOMAIN view'[u].lines : id[1] # u
                      /\ Clean(batch'[u], u)
    BY DEF OwnLines
  <2>1. /\ pc[u] # "applied" => \A id \in DOMAIN lines : id[1] # u
        /\ \A id \in DOMAIN view[u].lines : id[1] # u
        /\ Clean(batch[u], u)
    BY DEF OwnLines
  <2>2. CASE u = t
    BY <1>2, <1>3, <1>6, <2>1, <2>2
  <2>3. CASE u # t
    BY <1>2, <1>7, <2>1, <2>3
  <2> QED
    BY <2>2, <2>3
<1>9. Checked'
  <2> SUFFICES ASSUME NEW u \in CartTurns
               PROVE  /\ pc'[u] # "queued" => offered' \subseteq view'[u].options
                      /\ pc'[u] = "passed" => EditViolations(batch'[u], view'[u]) = {}
                      /\ pc'[u] = "passed" => \A g \in Required :
                           SameMenu(u, g)' => AddsRight(batch'[u], view'[u].options, known'[u], g)
    BY DEF Checked
  <2>1. CASE u = t
    BY <1>2, <1>4, <1>6, <2>1
  <2>2. CASE u # t
    BY <1>2, <1>7, <2>2 DEF Checked, SameMenu
  <2> QED
    BY <2>1, <2>2
<1> QED
  BY <1>5, <1>8, <1>9

LEMMA ProposeKeeps == ASSUME ModInv, NEW t \in CartTurns, propose_cart(t) PROVE ModInv'
<1> USE DEF ModInv
<1>1. PICK ops \in Batches[t], found \in {"sold", "unavailable", "unknown"} :
        /\ \A i \in DOMAIN ops : ops[i].action # "add_item" => ops[i].line[1] # t
        /\ batch' = [batch EXCEPT ![t] = ops]
        /\ known' = [known EXCEPT ![t] = found]
        /\ pc' = [pc EXCEPT ![t] =
             IF findRequiredModifierViolations(ops, view[t], offered, found) = Compliant
             THEN "passed" ELSE "asked"]
  BY DEF propose_cart
<1>2. pc[t] = "viewing" /\ UNCHANGED <<lines, offered, view>>
  BY DEF propose_cart
<1>3. ops \in Seq(Operation) /\ Clean(ops, t)
  BY <1>1, BatchAssumption DEF Clean
<1>4. batch'[t] = ops /\ known'[t] = found /\ pc'[t] \in {"passed", "asked"}
  BY <1>1 DEF ModTypes
<1>5. pc'[t] = "passed" => AddViolations(ops, offered, found) = {} /\ EditViolations(ops, view[t]) = {}
  <2>1. pc'[t] = "passed" => findRequiredModifierViolations(ops, view[t], offered, found) = Compliant
    BY <1>1 DEF ModTypes
  <2> QED
    BY <2>1 DEF findRequiredModifierViolations, Compliant
<1>6. \A u \in CartTurns : u # t => batch'[u] = batch[u] /\ known'[u] = known[u] /\ pc'[u] = pc[u]
  BY <1>1 DEF ModTypes
<1>7. ModTypes'
  <2>1. pc' \in [CartTurns -> {"queued", "viewing", "passed", "asked", "applied"}]
    BY <1>1 DEF ModTypes
  <2>2. batch' \in [CartTurns -> Seq(Operation)] /\ known' \in [CartTurns -> {"none", "sold", "unavailable", "unknown"}]
    BY <1>1, <1>3 DEF ModTypes
  <2> QED
    BY <1>2, <2>1, <2>2 DEF ModTypes
<1>8. OwnLines'
  <2> SUFFICES ASSUME NEW u \in CartTurns
               PROVE  /\ pc'[u] # "applied" => \A id \in DOMAIN lines' : id[1] # u
                      /\ \A id \in DOMAIN view'[u].lines : id[1] # u
                      /\ Clean(batch'[u], u)
    BY DEF OwnLines
  <2>1. /\ pc[u] # "applied" => \A id \in DOMAIN lines : id[1] # u
        /\ \A id \in DOMAIN view[u].lines : id[1] # u
        /\ Clean(batch[u], u)
    BY DEF OwnLines
  <2>2. CASE u = t
    BY <1>2, <1>3, <1>4, <2>1, <2>2
  <2>3. CASE u # t
    BY <1>2, <1>6, <2>1, <2>3
  <2> QED
    BY <2>2, <2>3
<1>9. Checked'
  <2> SUFFICES ASSUME NEW u \in CartTurns
               PROVE  /\ pc'[u] # "queued" => offered' \subseteq view'[u].options
                      /\ pc'[u] = "passed" => EditViolations(batch'[u], view'[u]) = {}
                      /\ pc'[u] = "passed" => \A g \in Required :
                           SameMenu(u, g)' => AddsRight(batch'[u], view'[u].options, known'[u], g)
    BY DEF Checked
  <2>1. /\ pc[u] # "queued" => offered \subseteq view[u].options
        /\ pc[u] = "passed" => EditViolations(batch[u], view[u]) = {}
        /\ pc[u] = "passed" => \A g \in Required :
             SameMenu(u, g) => AddsRight(batch[u], view[u].options, known[u], g)
    BY DEF Checked
  <2>2. CASE u = t
    <3>1. PICK M, P : M = offered /\ P = view[t].options
      OBVIOUS
    <3>2. ASSUME pc'[t] = "passed", NEW g \in Required, SameMenu(t, g)' PROVE AddsRight(ops, P, found, g)
      <4>1. OfGroup(M, g) = OfGroup(P, g)
        BY <1>2, <3>1, <3>2 DEF SameMenu
      <4>2. AddViolations(ops, M, found) = {}
        BY <1>5, <3>1, <3>2
      <4> QED
        BY ONLY <1>3, <4>1, <4>2, g \in Required, AddsAreRight
    <3> QED
      BY <1>2, <1>4, <1>5, <2>1, <2>2, <3>1, <3>2
  <2>3. CASE u # t
    BY <1>2, <1>6, <2>1, <2>3 DEF SameMenu
  <2> QED
    BY <2>2, <2>3
<1> QED
  BY <1>7, <1>8, <1>9

\* The menu loses options only: a group it has all of now, it had all of before.
LEMMA CheckedStays ==
    ASSUME Checked, offered' \subseteq offered, UNCHANGED <<view, batch, known>>,
           \A u \in CartTurns : pc'[u] = pc[u] \/ (pc[u] # "queued" /\ pc'[u] = "applied")
    PROVE  Checked'
<1> SUFFICES ASSUME NEW u \in CartTurns
             PROVE  /\ pc'[u] # "queued" => offered' \subseteq view'[u].options
                    /\ pc'[u] = "passed" => EditViolations(batch'[u], view'[u]) = {}
                    /\ pc'[u] = "passed" => \A g \in Required :
                         SameMenu(u, g)' => AddsRight(batch'[u], view'[u].options, known'[u], g)
  BY DEF Checked
<1>1. /\ pc[u] # "queued" => offered \subseteq view[u].options
      /\ pc[u] = "passed" => EditViolations(batch[u], view[u]) = {}
      /\ pc[u] = "passed" => \A g \in Required :
           SameMenu(u, g) => AddsRight(batch[u], view[u].options, known[u], g)
  BY DEF Checked
<1>2. ASSUME pc'[u] = "passed", NEW g \in Required, SameMenu(u, g)' PROVE SameMenu(u, g)
  <2>1. PICK O, P, Q : O = offered' /\ P = offered /\ Q = view[u].options
    OBVIOUS
  <2>2. O \subseteq P /\ P \subseteq Q /\ OfGroup(O, g) = OfGroup(Q, g)
    BY <1>1, <1>2, <2>1 DEF SameMenu
  <2>3. OfGroup(P, g) = OfGroup(Q, g)
    BY ONLY <2>2, GroupBetween
  <2> QED
    BY <2>1, <2>3 DEF SameMenu
<1>3. pc'[u] = "passed" => pc[u] = "passed"
  OBVIOUS
<1> QED
  BY <1>1, <1>2, <1>3

\* What the cart read while it applied a batch: less and less, down to what is offered in the end.
LEMMA CommitReads ==
    ASSUME ModInv, NEW t \in CartTurns, commitBatch(t)
    PROVE  /\ offered' \subseteq offered
           /\ \E reads : /\ \A i \in Nat : reads[i] \in Reading /\ offered' \subseteq reads[i].options
                         /\ lines' = applyBatch(t, lines, batch[t], reads)
<1>1. PICK ops \in Seq(Operation) : ops = batch[t]
  BY DEF ModInv, ModTypes
<1>2. PICK n \in Nat : n = Len(ops) /\ DOMAIN ops = 1..n
  OBVIOUS
<1>3. PICK from \in [offered \cap Withdrawn -> 1..n + 1], sold \in SUBSET DOMAIN ops :
        /\ lines' = applyBatch(t, lines, ops,
             [i \in DOMAIN ops |-> [options |-> {o \in offered : o \in Withdrawn => i < from[o]}, sold |-> i \in sold]])
        /\ offered' = {o \in offered : o \in Withdrawn => n < from[o]}
  BY <1>1, <1>2 DEF commitBatch
<1>4. PICK rs : rs = [i \in DOMAIN ops |->
                        [options |-> {o \in offered : o \in Withdrawn => i < from[o]}, sold |-> i \in sold]]
  OBVIOUS
<1>5. /\ lines' = applyBatch(t, lines, ops, rs)
      /\ \A i \in 1..n : rs[i] = [options |-> {o \in offered : o \in Withdrawn => i < from[o]}, sold |-> i \in sold]
  BY <1>2, <1>3, <1>4
<1>6. t \in Nat /\ lines \in Lines /\ offered \in SUBSET Option
  BY BatchAssumption DEF ModInv, ModTypes
<1>7. ASSUME NEW i \in 1..n PROVE rs[i] \in Reading /\ offered' \subseteq rs[i].options
  <2>1. PICK S, b : S = {o \in offered : o \in Withdrawn => i < from[o]} /\ b = (i \in sold)
    OBVIOUS
  <2>2. ASSUME NEW o \in offered' PROVE o \in S
    <3>1. o \in offered /\ (o \in Withdrawn => n < from[o])
      BY <1>3
    <3>2. o \in Withdrawn => from[o] \in Nat
      BY <1>3, <3>1
    <3>3. o \in Withdrawn => i < from[o]
      BY <3>1, <3>2
    <3> QED
      BY <2>1, <3>1, <3>3
  <2>3. rs[i] = [options |-> S, sold |-> b]
    BY <1>5, <2>1
  <2>4. S \in SUBSET Option /\ b \in BOOLEAN
    BY <1>6, <2>1
  <2> QED
    BY <2>2, <2>3, <2>4 DEF Reading
<1>8. PICK reads : Extends(reads, rs, t, lines, ops)
  <2>1. \A i \in 1..Len(ops) : rs[i] \in Reading
    BY <1>2, <1>7
  <2>2. PICK ls \in Lines : ls = lines
    BY <1>6
  <2>3. t \in Nat
    BY <1>6
  <2>4. \E reads : Extends(reads, rs, t, ls, ops)
    BY ONLY <2>1, <2>3, ls \in Lines, ops \in Seq(Operation), Extended
  <2> QED
    BY <2>2, <2>4
<1>9. offered' \subseteq offered
  BY <1>3
<1>10. \A i \in Nat : offered' \subseteq reads[i].options
  <2> TAKE i \in Nat
  <2>1. CASE i \in 1..n
    BY <1>2, <1>7, <1>8, <2>1 DEF Extends
  <2>2. CASE i \notin 1..n
    BY <1>2, <1>6, <1>8, <1>9, <2>2 DEF Extends
  <2> QED
    BY <2>1, <2>2
<1> QED
  BY <1>1, <1>5, <1>8, <1>9, <1>10 DEF Extends

LEMMA CommitKeeps == ASSUME ModInv, NEW t \in CartTurns, commitBatch(t) PROVE ModInv'
<1> USE DEF ModInv
<1>1. offered' \subseteq offered
  BY CommitReads
<1>2. pc[t] = "passed" /\ pc' = [pc EXCEPT ![t] = "applied"] /\ UNCHANGED <<view, batch, known>>
  BY DEF commitBatch
<1>3. PICK ops : ops = batch[t] /\ ops \in Seq(Operation)
  BY DEF ModTypes
<1>4. t \in Nat /\ lines \in Lines /\ offered \in SUBSET Option
  BY BatchAssumption DEF ModTypes
<1>5. PICK reads : (\A i \in Nat : reads[i] \in Reading) /\ lines' = applyBatch(t, lines, ops, reads)
  BY <1>3, CommitReads
<1>6. lines' \in Lines
  <2>1. \A i \in 1..Len(ops) : reads[i] \in Reading
    BY <1>5
  <2> QED
    BY <1>3, <1>4, <1>5, <2>1, BatchTyped
<1>7. \A id \in DOMAIN lines' : id \in DOMAIN lines \/ id[1] = t
  BY <1>3, <1>4, <1>5, BatchOfTurn
<1>8. ModTypes'
  BY <1>1, <1>2, <1>4, <1>6 DEF ModTypes
<1>9. pc'[t] = "applied" /\ \A u \in CartTurns : u # t => pc'[u] = pc[u]
  BY <1>2 DEF ModTypes
<1>10. OwnLines'
  BY <1>2, <1>7, <1>9 DEF OwnLines
<1>11. Checked'
  <2>1. \A u \in CartTurns : pc'[u] = pc[u] \/ (pc[u] # "queued" /\ pc'[u] = "applied")
    BY <1>2, <1>9
  <2>2. Checked /\ UNCHANGED <<view, batch, known>>
    BY <1>2
  <2> QED
    BY ONLY <1>1, <2>1, <2>2, CheckedStays
<1> QED
  BY <1>8, <1>10, <1>11

LEMMA MenuKeeps == ASSUME ModInv, NEW o, menuChanges(o) PROVE ModInv'
<1> USE DEF ModInv
<1>1. offered' = offered \ {o} /\ UNCHANGED <<lines, view, batch, known, pc>>
  BY DEF menuChanges
<1>2. ModTypes' /\ OwnLines'
  BY <1>1 DEF ModTypes, OwnLines
<1>3. Checked'
  <2>1. offered' \subseteq offered
    BY <1>1
  <2>2. \A u \in CartTurns : pc'[u] = pc[u] \/ (pc[u] # "queued" /\ pc'[u] = "applied")
    BY <1>1
  <2>3. Checked /\ UNCHANGED <<view, batch, known>>
    BY <1>1
  <2> QED
    BY ONLY <2>1, <2>2, <2>3, CheckedStays
<1> QED
  BY <1>2, <1>3

LEMMA ModKeeps == ModInv /\ [ModifiersNext]_modifierVars => ModInv'
<1> SUFFICES ASSUME ModInv, [ModifiersNext]_modifierVars PROVE ModInv'
  OBVIOUS
<1>1. CASE UNCHANGED modifierVars
  BY <1>1 DEF modifierVars, ModInv, ModTypes, OwnLines, Checked, SameMenu
<1>2. ASSUME NEW t \in CartTurns, buildCartView(t) PROVE ModInv'
  BY <1>2, ViewKeeps
<1>3. ASSUME NEW t \in CartTurns, propose_cart(t) PROVE ModInv'
  BY <1>3, ProposeKeeps
<1>4. ASSUME NEW t \in CartTurns, commitBatch(t) PROVE ModInv'
  BY <1>4, CommitKeeps
<1>5. ASSUME NEW o \in Withdrawn, menuChanges(o) PROVE ModInv'
  BY <1>5, MenuKeeps
<1> QED
  BY <1>1, <1>2, <1>3, <1>4, <1>5 DEF ModifiersNext

LEMMA ModInvariance == ModifiersSpec => []ModInv
<1> QED
  BY ModInit, ModKeeps, PTL DEF ModifiersSpec
-----------------------------------------------------------------------------
(* What is proved of the check. *)

LEMMA WholeIs ==
    ASSUME NEW t \in CartTurns, NEW ls
    PROVE  Whole(t, ls) <=> WholeFor(t, ls, offered, view[t], batch[t], known[t])
<1>1. \A id : Named(t, id) = NamedFor(t, id, view[t], batch[t], known[t])
  BY DEF Named, NamedFor, GroupsNamed, Names
<1> QED
  BY <1>1 DEF Whole, WholeFor

LEMMA CommitIsWhole ==
    ASSUME ModInv, NEW t \in CartTurns, pc[t] = "passed", commitBatch(t),
           NEW id \in DOMAIN lines', NEW g \in RequiredIn(offered') \cap Named(t, id), AsSeen(t, id, g)
    PROVE  Count(lines'[id], offered', g) = 1
<1>1. PICK reads : /\ \A i \in Nat : reads[i] \in Reading /\ offered' \subseteq reads[i].options
                   /\ lines' = applyBatch(t, lines, batch[t], reads)
  BY CommitReads
<1>2. offered' \subseteq offered
  BY CommitReads
<1>3. PICK ls, M, P, v, ops, found, left :
        /\ ls = lines /\ M = offered' /\ P = offered /\ v = view[t]
        /\ ops = batch[t] /\ found = known[t] /\ left = lines'
  OBVIOUS
<1>4. OfGroup(M, g) = OfGroup(v.options, g) /\ M \subseteq P /\ P \subseteq v.options
  BY <1>2, <1>3 DEF AsSeen, ModInv, Checked
<1>5. MenuSeen(t, ls, M, v, g)
  <2>1. t \in Nat /\ v \in [lines : Lines, options : SUBSET Option] /\ ls \in Lines /\ P \in SUBSET Option
    BY <1>3, BatchAssumption DEF ModInv, ModTypes
  <2> QED
    BY <1>4, <2>1 DEF MenuSeen
<1>6. NoneMissed(reads, M, g)
  <2>1. OfGroup(M, g) \subseteq M
    BY DEF OfGroup
  <2> QED
    BY <1>1, <1>3, <2>1 DEF NoneMissed
<1>7. /\ ops \in Seq(Operation) /\ Clean(ops, t) /\ EditViolations(ops, v) = {}
      /\ \A i \in DOMAIN ls : i[1] # t
  BY <1>3 DEF ModInv, ModTypes, OwnLines, Checked
<1>8. g \in Required /\ g \in RequiredIn(M)
  BY <1>3 DEF RequiredIn
<1>9. AddsRight(ops, v.options, found, g)
  <2>1. PICK V : V = v.options
    OBVIOUS
  <2>2. M \subseteq P /\ P \subseteq V /\ OfGroup(M, g) = OfGroup(V, g)
    BY <1>4, <2>1
  <2>3. OfGroup(P, g) = OfGroup(V, g)
    BY ONLY <2>2, GroupBetween
  <2>4. SameMenu(t, g)
    BY <1>3, <2>1, <2>3 DEF SameMenu
  <2> QED
    BY <1>3, <1>8, <2>4 DEF ModInv, Checked
<1>10. g \in NamedFor(t, id, v, ops, found)
  BY <1>3 DEF Named, NamedFor, GroupsNamed, Names
<1>11. id[1] # t => LineSeen(t, ls, M, v, id, g)
  BY <1>3 DEF AsSeen, LineSeen
<1>12. left = applyBatch(t, ls, ops, reads) /\ id \in DOMAIN left
  BY <1>1, <1>3
<1>13. Count(left[id], M, g) = 1
  BY ONLY <1>5, <1>6, <1>7, <1>8, <1>9, <1>10, <1>11, <1>12, CompliantIsWhole
<1> QED
  BY <1>3, <1>13

LEMMA AppliedIsCommit ==
    ASSUME ModInv, ModifiersNext, NEW t \in CartTurns, pc[t] = "passed", pc'[t] = "applied"
    PROVE  commitBatch(t)
<1>1. ASSUME NEW u \in CartTurns, buildCartView(u) PROVE FALSE
  BY <1>1 DEF buildCartView, ModInv, ModTypes
<1>2. ASSUME NEW u \in CartTurns, propose_cart(u) PROVE FALSE
  BY <1>2 DEF propose_cart, ModInv, ModTypes
<1>3. ASSUME NEW u \in CartTurns, commitBatch(u) PROVE u = t
  BY <1>3 DEF commitBatch, ModInv, ModTypes
<1>4. ASSUME NEW o \in Withdrawn, menuChanges(o) PROVE FALSE
  BY <1>4 DEF menuChanges
<1> QED
  BY <1>1, <1>2, <1>3, <1>4 DEF ModifiersNext

(* A cart line has its choices, a turn its view, its batch and its stage.       *)
THEOREM ModifiersTypeCorrect == ModifiersSpec => []ModifiersTypeOK
<1>1. ModInv => ModifiersTypeOK
  <2> SUFFICES ASSUME ModInv PROVE ModifiersTypeOK
    OBVIOUS
  <2>1. PICK S \in SUBSET (Nat \X Nat) : lines \in [S -> LineKeys]
    BY DEF ModInv, ModTypes, Lines
  <2>2. /\ lines = [id \in DOMAIN lines |-> lines[id]] /\ DOMAIN lines \subseteq Nat \X Nat
        /\ \A id \in DOMAIN lines : lines[id] \in Seq(ModifierKey)
    BY <2>1 DEF LineKeys
  <2> QED
    BY <2>2 DEF ModInv, ModTypes, ModifiersTypeOK
<1> QED
  BY <1>1, ModInvariance, PTL

(* However many turns work on the cart and whatever the menu withdraws, while  *)
(* a turn is under way or its batch is applied: a batch that passed the check  *)
(* of propose_cart leaves exactly one choice in every required group it is     *)
(* about, but for the very groups of the very lines another turn or the menu   *)
(* has changed since the turn saw them.                                        *)
THEOREM AppliedIsWhole == ModifiersSpec => AppliedBatchIsWhole
<1>1. ModInv /\ [ModifiersNext]_modifierVars =>
        [\A t \in CartTurns : (pc[t] = "passed" /\ pc'[t] = "applied") =>
           \A id \in DOMAIN lines' : \A g \in RequiredIn(offered') \cap Named(t, id) :
             AsSeen(t, id, g) => Count(lines'[id], offered', g) = 1]_modifierVars
  <2> SUFFICES ASSUME ModInv, ModifiersNext, NEW t \in CartTurns, pc[t] = "passed", pc'[t] = "applied",
                      NEW id \in DOMAIN lines', NEW g \in RequiredIn(offered') \cap Named(t, id), AsSeen(t, id, g)
               PROVE  Count(lines'[id], offered', g) = 1
    OBVIOUS
  <2>1. commitBatch(t)
    BY AppliedIsCommit
  <2> QED
    BY <2>1, CommitIsWhole
<1> QED
  BY <1>1, ModInvariance, PTL DEF ModifiersSpec, AppliedBatchIsWhole

LEMMA AskedIsProposed ==
    ASSUME ModInv, ModifiersNext, NEW t \in CartTurns, pc[t] = "viewing", pc'[t] = "asked"
    PROVE  propose_cart(t)
<1>1. ASSUME NEW u \in CartTurns, buildCartView(u) PROVE FALSE
  BY <1>1 DEF buildCartView, ModInv, ModTypes
<1>2. ASSUME NEW u \in CartTurns, propose_cart(u) PROVE u = t
  BY <1>2 DEF propose_cart, ModInv, ModTypes
<1>3. ASSUME NEW u \in CartTurns, commitBatch(u) PROVE FALSE
  BY <1>3 DEF commitBatch, ModInv, ModTypes
<1>4. ASSUME NEW o \in Withdrawn, menuChanges(o) PROVE FALSE
  BY <1>4 DEF menuChanges
<1> QED
  BY <1>1, <1>2, <1>3, <1>4 DEF ModifiersNext

LEMMA AskedHasReason ==
    ASSUME ModInv, NEW t \in CartTurns, propose_cart(t), pc'[t] = "asked"
    PROVE  Reason(t)'
<1>1. PICK ops \in Batches[t], found \in {"sold", "unavailable", "unknown"} :
        /\ \A i \in DOMAIN ops : ops[i].action # "add_item" => ops[i].line[1] # t
        /\ batch' = [batch EXCEPT ![t] = ops]
        /\ known' = [known EXCEPT ![t] = found]
        /\ pc' = [pc EXCEPT ![t] =
             IF findRequiredModifierViolations(ops, view[t], offered, found) = Compliant
             THEN "passed" ELSE "asked"]
  BY DEF propose_cart
<1>2. UNCHANGED <<lines, offered, view>>
  BY DEF propose_cart
<1>3. ops \in Seq(Operation) /\ Clean(ops, t)
  BY <1>1, BatchAssumption DEF Clean
<1>4. batch'[t] = ops /\ known'[t] = found
  BY <1>1 DEF ModInv, ModTypes
<1>5. AddViolations(ops, offered, found) # {} \/ EditViolations(ops, view[t]) # {}
  <2>1. findRequiredModifierViolations(ops, view[t], offered, found) # Compliant
    BY <1>1 DEF ModInv, ModTypes
  <2> QED
    BY <2>1 DEF findRequiredModifierViolations, Compliant
<1>6. PICK M, v, ls : M = offered /\ v = view[t] /\ ls = v.lines
  OBVIOUS
<1>7. t \in Nat /\ ls \in Lines /\ M \in SUBSET Option /\ v.options \in SUBSET Option /\ \A id \in DOMAIN ls : id[1] # t
  <2>1. v \in [lines : Lines, options : SUBSET Option]
    BY <1>6 DEF ModInv, ModTypes
  <2> QED
    BY <1>6, <2>1, BatchAssumption DEF ModInv, ModTypes, OwnLines
<1>8. CASE \E i \in DOMAIN ops : ops[i].action = "add_item" /\ ~ (Range(ops[i].mods) \subseteq offered)
  BY <1>2, <1>4, <1>8 DEF Reason
<1>9. CASE \E g \in Required : OfGroup(offered, g) # OfGroup(view[t].options, g)
  BY <1>2, <1>9 DEF Reason
<1>10. CASE /\ ~ \E i \in DOMAIN ops : ops[i].action = "add_item" /\ ~ (Range(ops[i].mods) \subseteq offered)
            /\ ~ \E g \in Required : OfGroup(offered, g) # OfGroup(view[t].options, g)
  <2>1. \A i \in DOMAIN ops : ops[i].action = "add_item" => Range(ops[i].mods) \subseteq M
    BY <1>6, <1>10
  <2>2. AddViolations(ops, M, found) # {} \/ EditViolations(ops, v) # {}
    BY <1>5, <1>6
  <2>3. \A g \in Required : MenuSeen(t, v.lines, M, v, g)
    BY <1>6, <1>7, <1>10 DEF MenuSeen
  <2>4. PICK rs : rs = [i \in DOMAIN ops |-> [options |-> M, sold |-> TRUE]]
    OBVIOUS
  <2>5. PICK n \in Nat : n = Len(ops) /\ DOMAIN ops = 1..n
    BY <1>3
  <2>6. \A i \in 1..n : rs[i].options = M /\ rs[i].sold /\ rs[i] \in Reading
    BY <1>7, <2>4, <2>5 DEF Reading
  <2>7. PICK all : all = [options |-> Option, sold |-> TRUE]
    OBVIOUS
  <2>8. PICK reads : reads = [i \in Nat |-> IF i \in 1..n THEN rs[i] ELSE all]
    OBVIOUS
  <2>9. \A i \in Nat : reads[i] \in Reading /\ reads[i].sold /\ M \subseteq reads[i].options
    <3>1. all \in Reading /\ all.sold /\ M \subseteq all.options
      BY <1>7, <2>7 DEF Reading
    <3> QED
      BY <2>6, <2>8, <3>1
  <2>10. applyBatch(t, ls, ops, rs) = applyBatch(t, ls, ops, reads)
    <3>1. \A i \in 1..Len(ops) : rs[i] = reads[i] /\ rs[i] \in Reading
      BY <2>5, <2>6, <2>8
    <3> QED
      BY ONLY <1>3, <1>7, <3>1, BatchSame
  <2>11. ~ WholeFor(t, applyBatch(t, v.lines, ops, reads), M, v, ops, found)
    <3>1. \A id \in DOMAIN v.lines : id[1] # t
      BY <1>6, <1>7
    <3> QED
      BY ONLY <1>3, <2>1, <2>2, <2>3, <2>9, <3>1, ViolationIsNot
  <2>12. PICK left : left = applyBatch(t, ls, ops, rs)
    OBVIOUS
  <2>13. \A id : Named(t, id)' = NamedFor(t, id, v, ops, found)
    BY <1>2, <1>4, <1>6 DEF Named, NamedFor, GroupsNamed, Names
  <2>14. ~ Whole(t, left)'
    <3>1. PICK id \in DOMAIN left : \E g \in RequiredIn(M) \cap NamedFor(t, id, v, ops, found) : Count(left[id], M, g) # 1
      BY <1>6, <2>10, <2>11, <2>12 DEF WholeFor
    <3>2. PICK g \in RequiredIn(M) \cap NamedFor(t, id, v, ops, found) : Count(left[id], M, g) # 1
      BY <3>1
    <3>3. g \in Named(t, id)' /\ g \in RequiredIn(M) /\ M = offered'
      BY <1>2, <1>6, <2>13
    <3> QED
      BY <3>2, <3>3 DEF Whole
  <2>15. AtOnce(t)' = rs
    BY <1>2, <1>4, <1>6, <2>4 DEF AtOnce
  <2>16. ~ Whole(t, applyBatch(t, view[t].lines, batch[t], AtOnce(t)))'
    BY <1>2, <1>4, <1>6, <2>12, <2>14, <2>15
  <2> QED
    BY <2>16 DEF Reason
<1> QED
  BY <1>8, <1>9, <1>10

(* Of any number of turns, batches and withdrawals: the customer is asked only *)
(* for a reason.                                                               *)
THEOREM AsksForAReason == ModifiersSpec => AskedForAReason
<1>1. ModInv /\ [ModifiersNext]_modifierVars =>
        [\A t \in CartTurns : (pc[t] = "viewing" /\ pc'[t] = "asked") => Reason(t)']_modifierVars
  <2> SUFFICES ASSUME ModInv, ModifiersNext, NEW t \in CartTurns, pc[t] = "viewing", pc'[t] = "asked"
               PROVE  Reason(t)'
    OBVIOUS
  <2>1. propose_cart(t)
    BY AskedIsProposed
  <2> QED
    BY <2>1, AskedHasReason
<1> QED
  BY <1>1, ModInvariance, PTL DEF ModifiersSpec, AskedForAReason

-----------------------------------------------------------------------------
(* search_menu: sorting and cutting. *)

LEMMA MinOfTwo ==
    ASSUME NEW a \in Nat, NEW b \in Nat
    PROVE  Min({a, b}) = IF a <= b THEN a ELSE b
<1>1. PICK m \in {a, b} : m = (IF a <= b THEN a ELSE b)
  OBVIOUS
<1>2. \A y \in {a, b} : m <= y
  BY <1>1
<1>3. \A x \in {a, b} : (\A y \in {a, b} : x <= y) => x = m
  BY <1>2
<1> QED
  BY <1>1, <1>2, <1>3 DEF Min

LEMMA BestOf ==
    ASSUME NEW S \in SUBSET Percent
    PROVE  /\ Best(S) \in Percent
           /\ \A x \in S : x <= Best(S)
           /\ S # {} => Best(S) \in S
<1>1. PICK T : T = S \cup {0}
  OBVIOUS
<1>2. T \in SUBSET (0..100) /\ T # {}
  BY <1>1 DEF Percent
<1>3. Max(T) \in T /\ \A y \in T : Max(T) >= y
  BY <1>2, Largest
<1>4. Best(S) = Max(T)
  BY <1>1 DEF Best
<1>5. Best(S) \in 0..100
  BY <1>2, <1>3, <1>4
<1> QED
  <2>1. \A x \in S : x <= Best(S)
    BY <1>1, <1>3, <1>4
  <2>2. ASSUME S # {} PROVE Best(S) \in S
    <3>1. PICK x \in S : TRUE
      BY <2>2
    <3>2. x \in 0..100 /\ x <= Best(S)
      BY <2>1 DEF Percent
    <3>3. Best(S) \in S \/ Best(S) = 0
      BY <1>1, <1>3, <1>4
    <3> QED
      BY <3>2, <3>3
  <2> QED
    BY <1>5, <2>1, <2>2 DEF Percent

(* A set listed once and only once. *)
LEMMA ListingIs ==
    ASSUME NEW S, IsFiniteSet(S), NEW s \in SetToSeqs(S)
    PROVE  /\ s \in Seq(S) /\ Len(s) = Cardinality(S) /\ DOMAIN s = 1..Len(s)
           /\ \A k, l \in DOMAIN s : k # l => s[k] # s[l]
           /\ \A x \in S : \E k \in DOMAIN s : s[k] = x
           /\ Cardinality(S) \in Nat
<1>1. PICK n \in Nat : n = Cardinality(S)
  BY FS_CardinalityType
<1>2. s \in [1..n -> S] /\ \A k, l \in 1..n : k # l => s[k] # s[l]
  BY <1>1 DEF SetToSeqs
<1>3. s \in Injection(1..n, S)
  BY <1>2 DEF Injection, IsInjective
<1>4. Cardinality(1..n) = n /\ IsFiniteSet(1..n)
  BY FS_Interval
<1>5. s \in Surjection(1..n, S)
  BY <1>1, <1>3, <1>4, FS_Injection
<1>6. \A x \in S : \E k \in 1..n : s[k] = x
  BY <1>5 DEF Surjection
<1>7. s \in Seq(S) /\ Len(s) = n
  BY <1>2
<1> QED
  BY <1>1, <1>2, <1>6, <1>7

TotalOn(before, S) ==
    /\ \A x, y \in S : x # y => <<x, y>> \in before \/ <<y, x>> \in before
    /\ \A x, y \in S : <<x, y>> \in before => <<y, x>> \notin before
    /\ \A x, y, z \in S : <<x, y>> \in before /\ <<y, z>> \in before => <<x, z>> \in before

Sorts(s, S, before) ==
    /\ s \in SetToSeqs(S)
    /\ \A k, l \in DOMAIN s : k < l => <<s[k], s[l]>> \in before

(* A total order sorts a finite set: an element has its place after as many *)
(* as come before it.                                                      *)
LEMMA OrderedSorts ==
    ASSUME NEW S, IsFiniteSet(S), NEW before, TotalOn(before, S)
    PROVE  Sorts(Ordered(S, before), S, before)
<1>1. PICK n \in Nat : n = Cardinality(S)
  BY FS_CardinalityType
<1>a. PICK pre : pre = [x \in S |-> {y \in S : <<y, x>> \in before}]
  OBVIOUS
<1>b. PICK place : place = [x \in S |-> Cardinality(pre[x]) + 1]
  OBVIOUS
<1>2. ASSUME NEW x \in S
      PROVE  /\ IsFiniteSet(pre[x]) /\ Cardinality(pre[x]) \in Nat /\ Cardinality(pre[x]) < n
             /\ IsFiniteSet(pre[x] \cup {x}) /\ Cardinality(pre[x] \cup {x}) = Cardinality(pre[x]) + 1
  <2>1. x \notin pre[x]
    BY <1>a DEF TotalOn
  <2>2. pre[x] \cup {x} \in SUBSET S /\ pre[x] \in SUBSET S
    BY <1>a
  <2>3. IsFiniteSet(pre[x]) /\ Cardinality(pre[x]) \in Nat
    BY <2>2, FS_Subset, FS_CardinalityType
  <2>4. IsFiniteSet(pre[x] \cup {x}) /\ Cardinality(pre[x] \cup {x}) = Cardinality(pre[x]) + 1
    BY <2>1, <2>3, FS_AddElement
  <2>5. Cardinality(pre[x] \cup {x}) <= n
    BY <1>1, <2>2, FS_Subset
  <2> QED
    BY <2>3, <2>4, <2>5
<1>c. \A x \in S : Cardinality(pre[x]) \in Nat /\ Cardinality(pre[x]) < n
  BY <1>2
<1>d. \A x \in S : place[x] \in 1..n /\ place[x] = Cardinality(pre[x]) + 1
  BY <1>b, <1>c
<1>3. ASSUME NEW x \in S, NEW y \in S, <<x, y>> \in before
      PROVE  place[x] < place[y]
  <2>1. pre[x] \cup {x} \in SUBSET pre[y]
    BY <1>3, <1>a DEF TotalOn
  <2>2. Cardinality(pre[x] \cup {x}) <= Cardinality(pre[y])
    BY <1>2, <2>1, FS_Subset
  <2>3. Cardinality(pre[x]) + 1 <= Cardinality(pre[y])
    BY <1>2, <2>2
  <2> QED
    BY <1>c, <1>d, <2>3
<1>4. place \in [S -> 1..n]
  BY <1>b, <1>d
<1>5. \A x, y \in S : x # y => place[x] # place[y]
  <2> TAKE x, y \in S
  <2>1. place[x] \in 1..n /\ place[y] \in 1..n
    BY <1>4
  <2>2. CASE <<x, y>> \in before
    BY <1>3, <2>1, <2>2
  <2>3. CASE <<y, x>> \in before
    BY <1>3, <2>1, <2>3
  <2> QED
    BY <2>2, <2>3 DEF TotalOn
<1>6. place \in Injection(S, 1..n)
  BY <1>4, <1>5 DEF Injection, IsInjective
<1>7. place \in Surjection(S, 1..n)
  BY <1>1, <1>6, FS_Injection, FS_Interval
<1>8. \A k \in 1..n : \E x \in S : place[x] = k
  BY <1>7 DEF Surjection
<1> DEFINE s == [k \in 1..n |-> CHOOSE x \in S : place[x] = k]
<1>9. s \in [1..n -> S] /\ \A k \in 1..n : place[s[k]] = k
  BY <1>8
<1> HIDE DEF s
<1>10. s \in SetToSeqs(S)
  BY <1>1, <1>9 DEF SetToSeqs
<1>11. ASSUME NEW k \in DOMAIN s, NEW l \in DOMAIN s, k < l PROVE <<s[k], s[l]>> \in before
  <2>1. k \in 1..n /\ l \in 1..n /\ s[k] \in S /\ s[l] \in S /\ place[s[k]] = k /\ place[s[l]] = l
    BY <1>9
  <2>2. s[k] # s[l]
    BY <1>11, <2>1
  <2>3. ~ (<<s[l], s[k]>> \in before)
    BY <1>3, <1>11, <2>1
  <2> QED
    BY <2>1, <2>2, <2>3 DEF TotalOn
<1>12. \E t \in SetToSeqs(S) : \A k, l \in DOMAIN t : k < l => <<t[k], t[l]>> \in before
  BY <1>10, <1>11
<1> QED
  BY <1>12 DEF Ordered, Sorts

(* slice. *)
LEMMA FirstIs ==
    ASSUME NEW S, NEW s \in Seq(S), NEW n \in Nat
    PROVE  /\ First(s, n) \in Seq(S)
           /\ Len(First(s, n)) = IF Len(s) <= n THEN Len(s) ELSE n
           /\ \A k \in 1..Len(First(s, n)) : First(s, n)[k] = s[k]
<1>1. Min({Len(s), n}) = IF Len(s) <= n THEN Len(s) ELSE n
  BY MinOfTwo
<1>2. PICK m \in 0..Len(s) : m = IF Len(s) <= n THEN Len(s) ELSE n
  OBVIOUS
<1>3. First(s, n) = SubSeq(s, 1, m)
  BY <1>1, <1>2 DEF First
<1>4. SubSeq(s, 1, m) \in Seq(S) /\ Len(SubSeq(s, 1, m)) = m /\ \A k \in 1..m : SubSeq(s, 1, m)[k] = s[k]
  OBVIOUS
<1> QED
  BY <1>2, <1>3, <1>4

-----------------------------------------------------------------------------
(* search_menu: the two retrievals. *)

LEMMA Sizes ==
    /\ K \in Nat \ {0} /\ LexicalLimit \in Nat \ {0} /\ MaxCandidates \in Nat \ {0}
    /\ Item \in SUBSET Nat /\ IsFiniteSet(Item)
  BY SearchAssumption

\* The rows on the pages are of this restaurant's dishes.
PagesOK(m, ps) ==
    \A p \in DOMAIN ps : \A r \in ps[p] : r[1] \in SeededOf(m) /\ m[r[1]].names[r[2]][p] \in Percent

\* What the search found by the index: the nearest, with their similarities.
IsCut(m, ps, found) ==
    /\ NearestOf(m, ps, DOMAIN found)
    /\ found = [i \in DOMAIN found |-> Sim(m, ps, i)]

LEMMA SimIs ==
    ASSUME NEW m, NEW ps, PagesOK(m, ps)
    PROVE  /\ Paged(m, ps) \subseteq SeededOf(m) /\ Paged(m, ps) \subseteq Item
           /\ \A i : Matches(m, ps, i) \in SUBSET Percent
           /\ \A i \in Paged(m, ps) : Sim(m, ps, i) \in Percent /\ Sim(m, ps, i) = Best(Matches(m, ps, i))
<1>1. \A i : Matches(m, ps, i) \in SUBSET Percent
  BY DEF Matches
<1>2. Paged(m, ps) \subseteq Item
  BY DEF Paged
<1>3. ASSUME NEW i \in Paged(m, ps) PROVE i \in SeededOf(m)
  <2>1. PICK s \in Matches(m, ps, i) : TRUE
    BY DEF Paged
  <2>2. PICK p \in DOMAIN ps : \E r \in ps[p] : r[1] = i /\ s = m[i].names[r[2]][p]
    BY <2>1 DEF Matches
  <2> QED
    BY <2>2 DEF PagesOK
<1>4. ASSUME NEW i \in Paged(m, ps)
      PROVE  Sim(m, ps, i) \in Percent /\ Sim(m, ps, i) = Best(Matches(m, ps, i))
  <2>1. PICK S \in SUBSET Percent : S = Matches(m, ps, i)
    BY <1>1
  <2>2. S # {} /\ S \in SUBSET (0..100)
    BY <2>1 DEF Paged, Percent
  <2>3. Max(S) \in S /\ \A y \in S : Max(S) >= y
    BY <2>2, Largest
  <2>4. Best(S) \in S /\ \A y \in S : y <= Best(S)
    BY <2>2, BestOf
  <2>5. \A x \in S : x \in Nat
    BY <2>2
  <2>6. Max(S) = Best(S)
    BY <2>3, <2>4, <2>5
  <2> QED
    BY <2>1, <2>3, <2>6 DEF Sim
<1> QED
  BY <1>1, <1>2, <1>3, <1>4

(* The fold over the pages keeps the best row of each product. *)
LEMMA BestOfIs ==
    ASSUME NEW ps, PagesOK(menu, ps)
    PROVE  bestOf(ps) = [i \in Paged(menu, ps) |-> Sim(menu, ps, i)]
<1>1. PICK D : D = {r[1] : r \in UNION {ps[p] : p \in DOMAIN ps}}
  OBVIOUS
<1> DEFINE Values(i) == UNION {{menu[i].names[r[2]][p] : r \in {s \in ps[p] : s[1] = i}} : p \in DOMAIN ps}
<1>2. bestOf(ps) = [i \in D |-> Best(Values(i))]
  BY <1>1 DEF bestOf
<1>3. ASSUME NEW i PROVE Values(i) = Matches(menu, ps, i)
  <2>1. ASSUME NEW s \in Values(i) PROVE s \in Matches(menu, ps, i)
    <3>1. PICK p \in DOMAIN ps : \E r \in ps[p] : r[1] = i /\ s = menu[i].names[r[2]][p]
      OBVIOUS
    <3>2. s \in Percent
      BY <3>1 DEF PagesOK
    <3> QED
      BY <3>1, <3>2 DEF Matches
  <2>2. ASSUME NEW s \in Matches(menu, ps, i) PROVE s \in Values(i)
    BY DEF Matches
  <2> QED
    BY <2>1, <2>2
<1> HIDE DEF Values
<1>4. D = Paged(menu, ps)
  <2>1. ASSUME NEW i \in D PROVE i \in Paged(menu, ps)
    <3>1. PICK p \in DOMAIN ps : \E r \in ps[p] : r[1] = i
      BY <1>1
    <3>2. PICK r \in ps[p] : r[1] = i
      BY <3>1
    <3>3. i \in Item /\ menu[i].names[r[2]][p] \in Percent
      BY <3>2 DEF PagesOK, SeededOf
    <3>4. menu[i].names[r[2]][p] \in Matches(menu, ps, i)
      BY <3>2, <3>3 DEF Matches
    <3> QED
      BY <3>3, <3>4 DEF Paged
  <2>2. ASSUME NEW i \in Paged(menu, ps) PROVE i \in D
    BY <1>1 DEF Paged, Matches
  <2> QED
    BY <2>1, <2>2
<1> QED
  BY <1>2, <1>3, <1>4, SimIs

(* Whatever rows the index returns for each phrase, the products it finds    *)
(* are the nearest on the pages, with their similarities.                    *)
LEMMA RetrievedIs ==
    ASSUME menu \in [Item -> DishType], NEW ps, DOMAIN ps \in SUBSET Phrase,
           \A p \in DOMAIN ps : ps[p] \in knnOne(p), NEW found \in knnSearch(ps)
    PROVE  PagesOK(menu, ps) /\ IsCut(menu, ps, found)
<1>1. ASSUME NEW p \in DOMAIN ps, NEW r \in ps[p]
      PROVE  r[1] \in SeededOf(menu) /\ menu[r[1]].names[r[2]][p] \in Percent
  <2>1. PICK missed \in Missed : ps[p] \in Top([q \in Rows \ missed |-> menu[q[1]].names[q[2]][p]], K * Overfetch)
    BY DEF knnOne
  <2>2. r \in Rows
    BY <2>1 DEF Top, kSubset
  <2>3. PICK i \in Item : r \in {i} \X DOMAIN menu[i].names
    BY <2>2 DEF Rows
  <2>4. r[1] = i /\ r[2] \in DOMAIN menu[i].names
    BY <2>3
  <2>5. PICK names \in Seq([Phrase -> Percent]) : names = menu[i].names
    BY DEF DishType
  <2>6. names[r[2]] \in [Phrase -> Percent] /\ names # <<>>
    BY <2>4, <2>5
  <2>7. p \in Phrase
    OBVIOUS
  <2> QED
    BY <2>4, <2>5, <2>6, <2>7 DEF SeededOf
<1>2. PagesOK(menu, ps)
  BY <1>1 DEF PagesOK
<1>3. PICK D, d : D = Paged(menu, ps) /\ d = [i \in D |-> Sim(menu, ps, i)] /\ bestOf(ps) = d
  BY <1>2, BestOfIs
<1>4. PICK S \in Top(d, K) : found = [x \in S |-> d[x]]
  BY <1>3 DEF knnSearch, Restricted
<1>5. DOMAIN d = D
  BY <1>3
<1>6. /\ S \in SUBSET D /\ Cardinality(S) = Min({K, Cardinality(D)})
      /\ \A r \in S, s \in D \ S : d[r] >= d[s]
  BY <1>4, <1>5 DEF Top, kSubset
<1>7. DOMAIN found = S /\ \A i \in D : d[i] = Sim(menu, ps, i)
  BY <1>3, <1>4
<1>8. NearestOf(menu, ps, S)
  BY <1>3, <1>6, <1>7 DEF NearestOf
<1>9. found = [i \in S |-> Sim(menu, ps, i)]
  BY <1>4, <1>6, <1>7
<1> QED
  BY <1>2, <1>7, <1>8, <1>9 DEF IsCut

-----------------------------------------------------------------------------
(* search_menu: what the call knows at each of its queries. *)

Ranked ==
    \/ ranking = <<>>
    \/ /\ ranking \in SetToSeqs({i \in Seeded : menu[i].qty > 0})
       /\ \A k, l \in DOMAIN ranking : k < l => menu[ranking[k]].qty >= menu[ranking[l]].qty

Wanted == IF wanted = {} THEN SeededOf(menu) ELSE wanted
NoPhrase == search.query /\ search.phrases = {}

SearchTypes ==
    /\ menu \in [Item -> DishType] /\ search \in Searches /\ Ranked
    /\ vectors \in SUBSET search.phrases /\ words \in SUBSET SeededOf(menu)
    /\ wanted \in SUBSET SeededOf(menu)

\* Before the retrieval nothing was found; from then on, what was found is what is nearest.
Retrieved ==
    /\ step \in {"called", "popularity", "embed"} => pages = NoDish /\ words = {} /\ sims = NoDish
    /\ step \in {"called", "popularity", "embed", "retrieve"} => wanted = {}
    /\ step \in {"scan", "getItems", "modRows", "over"} =>
          /\ PagesOK(menu, pages) /\ IsCut(menu, pages, sims)
          /\ wanted = (DOMAIN sims) \union words
    /\ step = "scan" => wanted = {}
    /\ step = "getItems" => wanted # {}

\* The products that are wanted are read, and only an answer from them is given.
Hydrated ==
    /\ step \in {"called", "popularity", "embed", "retrieve", "scan", "getItems"} => rows = NoDish
    /\ step \in {"called", "popularity", "embed", "retrieve", "scan", "getItems", "modRows"} => answer = <<>>
    /\ step \in {"embed", "retrieve", "scan", "getItems", "modRows"} => ~ NoPhrase
    /\ step \in {"modRows", "over"} => \A i \in DOMAIN rows : rows[i] \in DishType
    /\ step = "modRows" => DOMAIN rows = Wanted
    /\ step = "over" =>
          /\ DOMAIN rows = IF NoPhrase THEN {} ELSE Wanted
          /\ (DOMAIN rows = {} /\ answer = <<>>) \/ answer = searchMenu(rows)

SearchInv == SearchTypes /\ Retrieved /\ Hydrated

LEMMA SearchStarts == SearchInit => SearchInv
<1> SUFFICES ASSUME SearchInit PROVE SearchInv
  OBVIOUS
<1>1. menu \in [Item -> DishType]
  BY SearchAssumption DEF SearchInit
<1>2. SearchTypes
  BY <1>1 DEF SearchInit, SearchTypes, Ranked
<1>3. Retrieved /\ Hydrated
  BY DEF SearchInit, Retrieved, Hydrated
<1> QED
  BY <1>2, <1>3 DEF SearchInv

LEMMA PhrasesAre == ASSUME NEW s \in Searches PROVE s.phrases \in SUBSET Phrase
  BY SearchAssumption DEF SearchType

(* With no phrase answered nothing is near. *)
LEMMA FoundNothing == ASSUME NEW m PROVE PagesOK(m, NoDish) /\ IsCut(m, NoDish, NoDish) /\ DOMAIN NoDish = {}
<1>1. DOMAIN NoDish = {} /\ NoDish = [i \in DOMAIN NoDish |-> Sim(m, NoDish, i)]
  BY DEF NoDish
<1>2. Paged(m, NoDish) = {}
  BY <1>1 DEF Paged, Matches
<1>3. Min({K, 0}) = 0
  BY Sizes, MinOfTwo
<1>4. NearestOf(m, NoDish, {})
  BY <1>2, <1>3, FS_EmptySet DEF NearestOf
<1> QED
  BY <1>1, <1>4 DEF PagesOK, IsCut

(* The back office changes nothing that is retrieved or ranked. *)
LEMMA SameDishes ==
    ASSUME NEW m \in [Item -> DishType], NEW n \in [Item -> DishType],
           \A j \in Item : n[j].names = m[j].names
    PROVE  /\ SeededOf(n) = SeededOf(m)
           /\ \A ps, found : PagesOK(m, ps) /\ IsCut(m, ps, found) => PagesOK(n, ps) /\ IsCut(n, ps, found)
<1>1. SeededOf(n) = SeededOf(m) /\ SeededOf(m) \subseteq Item
  BY DEF SeededOf
<1>2. ASSUME NEW ps, NEW found, PagesOK(m, ps), IsCut(m, ps, found)
      PROVE  PagesOK(n, ps) /\ IsCut(n, ps, found)
  <2>1. PagesOK(n, ps)
    BY <1>1, <1>2 DEF PagesOK
  <2>2. ASSUME NEW i \in Item PROVE Matches(n, ps, i) = Matches(m, ps, i)
    <3>1. PICK names : names = m[i].names /\ names = n[i].names
      OBVIOUS
    <3>2. Matches(m, ps, i) = {s \in Percent : \E p \in DOMAIN ps : \E r \in ps[p] : r[1] = i /\ s = names[r[2]][p]}
      BY <3>1 DEF Matches
    <3>3. Matches(n, ps, i) = {s \in Percent : \E p \in DOMAIN ps : \E r \in ps[p] : r[1] = i /\ s = names[r[2]][p]}
      BY <3>1 DEF Matches
    <3> QED
      BY <3>2, <3>3
  <2>3. Paged(n, ps) = Paged(m, ps) /\ Paged(m, ps) \subseteq Item
    BY <2>2 DEF Paged
  <2>4. \A i \in Item : Sim(n, ps, i) = Sim(m, ps, i)
    BY <2>2 DEF Sim
  <2>5. PICK N : N = DOMAIN found /\ NearestOf(m, ps, N) /\ found = [i \in N |-> Sim(m, ps, i)] /\ N \subseteq Item
    BY <1>2, <2>3 DEF IsCut, NearestOf
  <2>6. NearestOf(n, ps, N)
    BY <2>3, <2>4, <2>5 DEF NearestOf
  <2>7. found = [i \in N |-> Sim(n, ps, i)]
    BY <2>4, <2>5
  <2> QED
    BY <2>1, <2>5, <2>6, <2>7 DEF IsCut
<1> QED
  BY <1>1, <1>2

LEMMA SearchKeeps == SearchInv /\ [SearchNext]_searchVars => SearchInv'
<1> SUFFICES ASSUME SearchInv, [SearchNext]_searchVars PROVE SearchInv'
  OBVIOUS
<1>0. /\ menu \in [Item -> DishType] /\ search \in Searches /\ Ranked
      /\ vectors \in SUBSET search.phrases /\ words \in SUBSET SeededOf(menu) /\ wanted \in SUBSET SeededOf(menu)
      /\ search.phrases \in SUBSET Phrase
      /\ PagesOK(menu, NoDish) /\ IsCut(menu, NoDish, NoDish) /\ DOMAIN NoDish = {}
  BY PhrasesAre, FoundNothing DEF SearchInv, SearchTypes
<1>1. CASE call
  <2>1. SearchTypes'
    BY <1>0, <1>1 DEF call, SearchTypes, Ranked, Seeded
  <2>2. /\ step' \in {"popularity", "scan", "over", "embed"}
        /\ step' \in {"scan", "embed"} => ~ NoPhrase
        /\ step' = "over" => NoPhrase
    BY <1>1 DEF call, AfterPopularity, NoPhrase
  <2>3. pages = NoDish /\ words = {} /\ wanted = {} /\ rows = NoDish /\ answer = <<>> /\ sims = NoDish
    BY <1>1 DEF call, SearchInv, Retrieved, Hydrated
  <2>4. NoPhrase' = NoPhrase
    BY <1>1 DEF call, NoPhrase
  <2> QED
    BY <1>0, <1>1, <2>1, <2>2, <2>3, <2>4 DEF call, SearchInv, Retrieved, Hydrated
<1>2. CASE popularity
  <2>1. SearchTypes'
    <3>1. Ranked'
      BY <1>2 DEF popularity, Bestsellers, Ranked, Seeded, units
    <3> QED
      BY <1>0, <1>2, <3>1 DEF popularity, SearchTypes
  <2>2. /\ step' \in {"scan", "over", "embed"}
        /\ step' \in {"scan", "embed"} => ~ NoPhrase
        /\ step' = "over" => NoPhrase
    BY <1>2 DEF popularity, AfterPopularity, NoPhrase
  <2>3. pages = NoDish /\ words = {} /\ wanted = {} /\ rows = NoDish /\ answer = <<>> /\ sims = NoDish
    BY <1>2 DEF popularity, SearchInv, Retrieved, Hydrated
  <2>4. NoPhrase' = NoPhrase
    BY <1>2 DEF popularity, NoPhrase
  <2> QED
    BY <1>0, <1>2, <2>1, <2>2, <2>3, <2>4 DEF popularity, SearchInv, Retrieved, Hydrated
<1>3. CASE embed
  <2>1. PICK answered \in SUBSET search.phrases :
          vectors' = answered /\ step' \in {IF answered = {} THEN "scan" ELSE "retrieve", "failed"}
    BY <1>3 DEF embed
  <2>2. SearchTypes'
    BY <1>0, <1>3, <2>1 DEF embed, SearchTypes, Ranked, Seeded
  <2>3. /\ pages = NoDish /\ words = {} /\ wanted = {} /\ rows = NoDish /\ answer = <<>> /\ sims = NoDish
        /\ ~ NoPhrase
    BY <1>3 DEF embed, SearchInv, Retrieved, Hydrated
  <2>4. NoPhrase' = NoPhrase
    BY <1>3 DEF embed, NoPhrase
  <2> QED
    BY <1>0, <1>3, <2>1, <2>2, <2>3, <2>4 DEF embed, SearchInv, Retrieved, Hydrated
<1>4. CASE retrieve
  <2>1. PICK answered \in SUBSET vectors :
          \E hits \in {f \in [answered -> UNION {knnOne(p) : p \in answered}] : \A p \in answered : f[p] \in knnOne(p)} :
          \E found \in knnSearch(hits), worded \in lexicalSearch(search.phrases) \union {{}} :
            /\ vectors' = answered /\ pages' = hits /\ words' = worded /\ sims' = found
            /\ wanted' = (DOMAIN found) \union worded
            /\ step' = IF wanted' = {} THEN "scan" ELSE "getItems"
    BY <1>4 DEF retrieve
  <2>2. PICK hits : /\ DOMAIN hits = answered /\ \A p \in answered : hits[p] \in knnOne(p)
                    /\ \E found \in knnSearch(hits), worded \in lexicalSearch(search.phrases) \union {{}} :
                         /\ vectors' = answered /\ pages' = hits /\ words' = worded /\ sims' = found
                         /\ wanted' = (DOMAIN found) \union worded
                         /\ step' = IF wanted' = {} THEN "scan" ELSE "getItems"
    BY <2>1
  <2>3. PICK found \in knnSearch(hits), worded \in lexicalSearch(search.phrases) \union {{}} :
               /\ vectors' = answered /\ pages' = hits /\ words' = worded /\ sims' = found
               /\ wanted' = (DOMAIN found) \union worded
               /\ step' = IF wanted' = {} THEN "scan" ELSE "getItems"
    BY <2>2
  <2>4. PagesOK(menu, hits) /\ IsCut(menu, hits, found)
    BY <1>0, <2>2, RetrievedIs
  <2>5. DOMAIN found \subseteq SeededOf(menu)
    BY <2>4, SimIs DEF IsCut, NearestOf
  <2>6. worded \subseteq SeededOf(menu)
    BY <2>3 DEF lexicalSearch, kSubset, Seeded, SeededOf
  <2>7. SearchTypes'
    BY <1>0, <1>4, <2>3, <2>5, <2>6 DEF retrieve, SearchTypes, Ranked, Seeded
  <2>8. rows = NoDish /\ answer = <<>> /\ ~ NoPhrase
    BY <1>4 DEF retrieve, SearchInv, Hydrated
  <2>9. menu' = menu /\ NoPhrase' = NoPhrase
    BY <1>4 DEF retrieve, NoPhrase
  <2> QED
    BY <1>4, <2>3, <2>4, <2>7, <2>8, <2>9 DEF retrieve, SearchInv, Retrieved, Hydrated
<1>5. CASE itemRows
  <2>1. SearchTypes'
    BY <1>0, <1>5 DEF itemRows, SearchTypes, Ranked, Seeded
  <2>2. /\ rows = NoDish /\ answer = <<>> /\ ~ NoPhrase
        /\ PagesOK(menu, pages) /\ IsCut(menu, pages, sims) /\ wanted = (DOMAIN sims) \union words
    BY <1>5 DEF itemRows, SearchInv, Hydrated, Retrieved
  <2>3. CASE step' = "failed"
    BY <1>5, <2>1, <2>3 DEF SearchInv, Retrieved, Hydrated
  <2>4. ASSUME rows' = [i \in IF step = "scan" THEN Seeded ELSE wanted \cap Seeded |-> menu[i]],
               step' = IF DOMAIN rows' = {} THEN "over" ELSE "modRows"
        PROVE  SearchInv'
    <3>1. wanted \cap Seeded = wanted /\ Seeded = SeededOf(menu)
      BY <1>0 DEF Seeded, SeededOf
    <3>2. step = "getItems" => wanted # {}
      BY <1>5 DEF itemRows, SearchInv, Retrieved
    <3>3. \A i \in DOMAIN rows' : rows'[i] \in DishType
      BY <1>0, <2>4, <3>1 DEF SeededOf
    <3>4. Wanted' = Wanted /\ NoPhrase' = NoPhrase /\ DOMAIN rows' = Wanted
      BY <1>5, <2>4, <3>1, <3>2 DEF itemRows, Wanted, NoPhrase, SearchInv, Retrieved
    <3> QED
      BY <1>5, <2>1, <2>2, <2>4, <3>3, <3>4 DEF itemRows, SearchInv, Retrieved, Hydrated
  <2> QED
    BY <1>5, <2>3, <2>4 DEF itemRows
<1>6. CASE modRows
  <2>1. SearchTypes'
    BY <1>0, <1>6 DEF modRows, SearchTypes, Ranked, Seeded
  <2>2. /\ answer = <<>> /\ DOMAIN rows = Wanted /\ ~ NoPhrase /\ \A i \in DOMAIN rows : rows[i] \in DishType
        /\ PagesOK(menu, pages) /\ IsCut(menu, pages, sims) /\ wanted = (DOMAIN sims) \union words
    BY <1>6 DEF modRows, SearchInv, Hydrated, Retrieved
  <2>3. CASE step' = "failed"
    BY <2>1, <2>3 DEF SearchInv, Retrieved, Hydrated
  <2>4. ASSUME rows' = [i \in DOMAIN rows |-> [rows[i] EXCEPT !.extras = menu[i].extras]],
               step' = "over", answer' = searchMenu(rows')
        PROVE  SearchInv'
    <3>1. DOMAIN rows' = Wanted
      BY <2>2, <2>4
    <3>2. \A i \in DOMAIN rows' : rows'[i] \in DishType
      <4> TAKE i \in DOMAIN rows'
      <4>1. i \in Item /\ i \in DOMAIN rows
        BY <1>0, <2>2, <3>1 DEF Wanted, SeededOf
      <4>2. menu[i] \in DishType /\ rows[i] \in DishType
        BY <1>0, <2>2, <4>1
      <4>3. rows'[i] = [rows[i] EXCEPT !.extras = menu[i].extras]
        BY <2>4, <4>1
      <4> QED
        BY <4>2, <4>3 DEF DishType
    <3>3. Wanted' = Wanted /\ NoPhrase' = NoPhrase
      BY <1>6 DEF modRows, Wanted, NoPhrase
    <3>4. (searchMenu(rows))' = searchMenu(rows')
      BY <1>6 DEF modRows, searchMenu, rerank, rank, browse, byScore, scoreOf, bySales, OnOffer
    <3> QED
      BY <1>6, <2>1, <2>2, <2>4, <3>1, <3>2, <3>3, <3>4 DEF modRows, SearchInv, Retrieved, Hydrated
  <2> QED
    BY <1>6, <2>3, <2>4 DEF modRows
<1>7. ASSUME NEW i \in Item, backOffice(i) PROVE SearchInv'
  <2>1. menu' = [menu EXCEPT ![i].available = FALSE] /\ menu \in [Item -> DishType]
    BY <1>0, <1>7 DEF backOffice
  <2>2. /\ \A j \in Item : menu'[j].names = menu[j].names /\ menu'[j].qty = menu[j].qty
        /\ SeededOf(menu') = SeededOf(menu)
        /\ \A ps, found : PagesOK(menu, ps) /\ IsCut(menu, ps, found) => PagesOK(menu', ps) /\ IsCut(menu', ps, found)
        /\ menu' \in [Item -> DishType]
    <3>1. PICK d \in DishType : d = menu[i]
      BY <2>1
    <3>2. PICK e : e = [d EXCEPT !.available = FALSE]
      OBVIOUS
    <3>3. e \in DishType /\ e.names = d.names /\ e.qty = d.qty
      BY <3>2 DEF DishType
    <3>4. menu' = [menu EXCEPT ![i] = e]
      BY <2>1, <3>1, <3>2
    <3>5. PICK m \in [Item -> DishType], n \in [Item -> DishType] : m = menu /\ n = menu'
      BY <2>1, <3>3, <3>4
    <3>6. \A j \in Item : n[j].names = m[j].names /\ n[j].qty = m[j].qty
      BY <3>1, <3>3, <3>4, <3>5
    <3>7. /\ SeededOf(n) = SeededOf(m)
          /\ \A ps, found : PagesOK(m, ps) /\ IsCut(m, ps, found) => PagesOK(n, ps) /\ IsCut(n, ps, found)
      BY <3>6, SameDishes
    <3> QED
      BY <1>0, <3>5, <3>6, <3>7
  <2>3. Ranked'
    <3>1. PICK B : B = {j \in Seeded : menu[j].qty > 0}
      OBVIOUS
    <3>2. {j \in Seeded' : menu'[j].qty > 0} = B
      BY <2>2, <3>1 DEF Seeded, SeededOf
    <3>3. CASE ranking = <<>>
      BY <1>7, <3>3 DEF backOffice, Ranked
    <3>4. CASE ranking # <<>>
      <4>1. /\ ranking \in SetToSeqs(B) /\ B \subseteq Item
            /\ \A k, l \in DOMAIN ranking : k < l => menu[ranking[k]].qty >= menu[ranking[l]].qty
        BY <1>0, <3>1, <3>4 DEF Ranked, Seeded, SeededOf
      <4>2. \A k \in DOMAIN ranking : ranking[k] \in Item
        BY <4>1 DEF SetToSeqs
      <4>3. \A k, l \in DOMAIN ranking : k < l => menu'[ranking[k]].qty >= menu'[ranking[l]].qty
        BY <2>2, <4>1, <4>2
      <4> QED
        BY <1>7, <3>2, <4>1, <4>3 DEF backOffice, Ranked
    <3> QED
      BY <3>3, <3>4
  <2>4. SearchTypes'
    BY <1>0, <1>7, <2>2, <2>3 DEF backOffice, SearchTypes
  <2>5. Wanted' = Wanted /\ NoPhrase' = NoPhrase
    BY <1>7, <2>2 DEF backOffice, Wanted, NoPhrase
  <2> QED
    BY <1>7, <2>2, <2>4, <2>5 DEF backOffice, SearchInv, Retrieved, Hydrated
<1>8. CASE UNCHANGED searchVars
  BY <1>8 DEF searchVars, SearchInv, SearchTypes, Ranked, Seeded, Retrieved, Hydrated, Wanted, NoPhrase,
     searchMenu, rerank, rank, browse, byScore, scoreOf, bySales, OnOffer
<1> QED
  BY <1>1, <1>2, <1>3, <1>4, <1>5, <1>6, <1>7, <1>8 DEF SearchNext

-----------------------------------------------------------------------------
(* search_menu: the answer. *)

LEMMA ScoreIs ==
    ASSUME NEW d \in DishType, NEW sim \in Percent, NEW phrases \in SUBSET Phrase
    PROVE  Score(d, sim, phrases) \in Nat
<1>1. d.near \in [Phrase -> Percent] /\ d.extras \in [Phrase -> Percent]
  BY DEF DishType
<1>2. PICK S1 : S1 = {d.near[p] : p \in phrases}
  OBVIOUS
<1>3. PICK S2 : S2 = {d.extras[p] : p \in phrases}
  OBVIOUS
<1>4. S1 \in SUBSET Percent /\ S2 \in SUBSET Percent
  BY <1>1, <1>2, <1>3
<1>5. PICK b1 \in 0..100, b2 \in 0..100 : b1 = Best(S1) /\ b2 = Best(S2)
  BY <1>4, BestOf DEF Percent
<1>6. PICK e \in 0..100 : e = modifierMatchScore(d, phrases)
  BY <1>3, <1>5 DEF modifierMatchScore
<1>7. Score(d, sim, phrases) = 55 * sim + 35 * b1 + 10 * e
  BY <1>2, <1>5, <1>6 DEF Score
<1> QED
  BY <1>7 DEF Percent

LEMMA LimitIs ==
    ASSUME NEW c \in Nat, NEW s \in Searches
    PROVE  /\ Limit(s) \in Nat
           /\ (IF c <= Limit(s) THEN c ELSE Limit(s)) = Min({MaxCandidates, c} \union ({s.limit} \ {Absent}))
<1>1. PICK m \in Nat \ {0} : m = MaxCandidates
  BY Sizes
<1>2. s.limit \in Nat \cup {Absent} /\ Absent \notin Nat
  BY SearchAssumption DEF SearchType
<1>3. CASE s.limit = Absent
  <2>1. {MaxCandidates, c} \union ({s.limit} \ {Absent}) = {m, c}
    BY <1>1, <1>3
  <2>2. Min({m, c}) = IF m <= c THEN m ELSE c
    BY MinOfTwo
  <2> QED
    BY <1>1, <1>3, <2>1, <2>2 DEF Limit
<1>4. CASE s.limit # Absent
  <2>1. PICK l \in Nat : l = s.limit
    BY <1>2, <1>4
  <2>2. {MaxCandidates, c} \union ({s.limit} \ {Absent}) = {m, c, l}
    BY <1>1, <1>4, <2>1
  <2>3. Limit(s) = IF l <= m THEN l ELSE m
    BY <1>1, <1>4, <2>1, MinOfTwo DEF Limit
  <2>4. PICK x \in {m, c, l} : x = IF c <= Limit(s) THEN c ELSE Limit(s)
    BY <2>3
  <2>5. x \in Nat /\ \A y \in {m, c, l} : x <= y
    BY <2>3, <2>4
  <2>6. \A z \in {m, c, l} : (\A y \in {m, c, l} : z <= y) => z = x
    BY <2>4, <2>5
  <2>7. Min({m, c, l}) = x
    BY <2>4, <2>5, <2>6 DEF Min
  <2> QED
    BY <2>2, <2>3, <2>4, <2>7
<1> QED
  BY <1>3, <1>4

(* A listing of what is eligible in which none is better than one before it *)
(* is cut to the best.                                                      *)
LEMMA CutIsBest ==
    ASSUME NearestOf(menu, pages, Nearest), Reachable = DOMAIN rows,
           IsFiniteSet(Eligible), NEW s \in SetToSeqs(Eligible), search \in Searches,
           \A k, l \in DOMAIN s : k <= l => ~ Better(s[l], s[k]),
           answer = First(s, Limit(search))
    PROVE  BestOfReachable
<1>1. PICK E : E = Eligible /\ IsFiniteSet(E) /\ s \in SetToSeqs(E)
  OBVIOUS
<1>2. /\ s \in Seq(E) /\ Len(s) = Cardinality(E) /\ DOMAIN s = 1..Len(s)
      /\ \A k, l \in DOMAIN s : k # l => s[k] # s[l]
      /\ \A x \in E : \E k \in DOMAIN s : s[k] = x
      /\ Cardinality(E) \in Nat
  BY <1>1, ListingIs
<1>3. PICK lim \in Nat : lim = Limit(search)
  BY <1>2, LimitIs
<1>4. /\ answer \in Seq(E)
      /\ Len(answer) = IF Len(s) <= lim THEN Len(s) ELSE lim
      /\ \A k \in 1..Len(answer) : answer[k] = s[k]
  BY <1>2, <1>3, FirstIs
<1>5. Len(answer) = Min({MaxCandidates, Cardinality(E)} \union ({search.limit} \ {Absent}))
  BY <1>2, <1>3, <1>4, LimitIs
<1>6. DOMAIN answer = 1..Len(answer) /\ Len(answer) \in Nat /\ Len(answer) <= Len(s)
  BY <1>2, <1>3, <1>4
<1>7. ASSUME NEW k \in DOMAIN answer
      PROVE  LET rest == E \ {answer[l] : l \in 1..k - 1}
             IN answer[k] \in rest /\ \A i \in rest : ~ Better(i, answer[k])
  <2>1. k \in DOMAIN s /\ answer[k] = s[k] /\ s[k] \in E
    BY <1>2, <1>4, <1>6
  <2>2. \A l \in 1..k - 1 : l \in DOMAIN s /\ answer[l] = s[l] /\ l < k
    BY <1>2, <1>4, <1>6
  <2>3. answer[k] \notin {answer[l] : l \in 1..k - 1}
    BY <1>2, <2>1, <2>2
  <2>4. ASSUME NEW i \in E, i \notin {answer[l] : l \in 1..k - 1} PROVE ~ Better(i, answer[k])
    <3>1. PICK l \in DOMAIN s : s[l] = i
      BY <1>2
    <3>2. l \notin 1..k - 1
      BY <2>2, <2>4, <3>1
    <3>3. k <= l
      BY <1>2, <1>6, <2>1, <3>2
    <3> QED
      BY <2>1, <3>1, <3>3
  <2> QED
    BY <2>1, <2>3, <2>4
<1> QED
  BY <1>1, <1>5, <1>7 DEF BestOfReachable

(* What is eligible, in the terms of the search itself. *)
LEMMA EligibleIs ==
    ASSUME SearchInv, step = "over", Reachable = DOMAIN rows
    PROVE  /\ Eligible \in SUBSET SeededOf(menu) /\ IsFiniteSet(Eligible) /\ Eligible \in SUBSET Item
           /\ Eligible \in SUBSET Nat /\ Cardinality(Eligible) <= Cardinality(Item) /\ Cardinality(Item) \in Nat
           /\ \A i \in Eligible : scoreOf(rows, i) = Relevance(i) /\ Relevance(i) \in Nat
           /\ search.query => Eligible = {i \in DOMAIN rows : OnOffer(rows[i]) /\ scoreOf(rows, i) >= Threshold}
           /\ ~ search.query => Eligible = {i \in DOMAIN rows : OnOffer(rows[i])}
<1>1. /\ search \in Searches /\ search.phrases \in SUBSET Phrase
      /\ PagesOK(menu, pages) /\ IsCut(menu, pages, sims) /\ wanted = (DOMAIN sims) \union words
      /\ wanted \in SUBSET SeededOf(menu) /\ \A i \in DOMAIN rows : rows[i] \in DishType
  BY PhrasesAre DEF SearchInv, SearchTypes, Retrieved, Hydrated
<1>5. DOMAIN rows \subseteq SeededOf(menu)
  BY <1>1 DEF Reachable, Nearest, Seeded
<1>6. SeededOf(menu) \subseteq Item /\ Item \subseteq Nat /\ IsFiniteSet(Item)
  BY Sizes DEF SeededOf
<1>7. ASSUME NEW i \in DOMAIN rows
      PROVE  scoreOf(rows, i) = Relevance(i) /\ Relevance(i) \in Nat
  <2>1. i \in Item /\ rows[i] \in DishType
    BY <1>1, <1>5, <1>6
  <2>2. PICK x \in Percent : x = IF i \in Nearest THEN Sim(menu, pages, i) ELSE 0
    <3>1. i \in Nearest => Sim(menu, pages, i) \in Percent
      BY <1>1, SimIs DEF IsCut, NearestOf, Nearest
    <3>2. 0 \in Percent
      BY DEF Percent
    <3> QED
      BY <3>1, <3>2
  <2>3. x = IF i \in DOMAIN sims THEN sims[i] ELSE 0
    BY <1>1, <2>2 DEF IsCut, Nearest
  <2>4. scoreOf(rows, i) = Score(rows[i], x, search.phrases) /\ Relevance(i) = Score(rows[i], x, search.phrases)
    BY <2>2, <2>3 DEF scoreOf, Relevance
  <2> QED
    BY <1>1, <2>1, <2>4, ScoreIs
<1>8. Eligible = {i \in DOMAIN rows : /\ rows[i].available /\ withinPrice(rows[i].price, search)
                                      /\ search.query => Relevance(i) >= Threshold}
  BY <1>5 DEF Eligible
<1>9. Eligible \in SUBSET SeededOf(menu) /\ Eligible \in SUBSET Item /\ Eligible \in SUBSET Nat
  BY <1>5, <1>6, <1>8
<1>10. IsFiniteSet(Eligible) /\ Cardinality(Eligible) <= Cardinality(Item) /\ Cardinality(Item) \in Nat
  BY <1>6, <1>9, FS_Subset, FS_CardinalityType
<1>11. \A i \in Eligible : scoreOf(rows, i) = Relevance(i) /\ Relevance(i) \in Nat
  BY <1>7, <1>8
<1>12. search.query => Eligible = {i \in DOMAIN rows : OnOffer(rows[i]) /\ scoreOf(rows, i) >= Threshold}
  BY <1>7, <1>8 DEF OnOffer
<1>13. ~ search.query => Eligible = {i \in DOMAIN rows : OnOffer(rows[i])}
  BY <1>8 DEF OnOffer
<1> QED
  BY <1>9, <1>10, <1>11, <1>12, <1>13

(* To go by one number, then by another that tells all apart, is to order. *)
LEMMA ByNumbers ==
    ASSUME NEW S, NEW f \in [S -> Int], NEW g \in [S -> Int], \A x, y \in S : x # y => g[x] # g[y],
           NEW before, \A x, y \in S : <<x, y>> \in before <=> (f[x] < f[y] \/ (f[x] = f[y] /\ g[x] < g[y]))
    PROVE  TotalOn(before, S)
<1>1. \A x, y \in S : x # y => <<x, y>> \in before \/ <<y, x>> \in before
  OBVIOUS
<1>2. \A x, y \in S : <<x, y>> \in before => <<y, x>> \notin before
  OBVIOUS
<1>3. \A x, y, z \in S : <<x, y>> \in before /\ <<y, z>> \in before => <<x, z>> \in before
  OBVIOUS
<1> QED
  BY <1>1, <1>2, <1>3 DEF TotalOn

LEMMA PositionIs ==
    ASSUME NEW S, IsFiniteSet(S), NEW s \in SetToSeqs(S)
    PROVE  /\ Range(s) = S
           /\ \A i : Position(s, i) \in Nat
           /\ \A k \in DOMAIN s : Position(s, s[k]) = k
           /\ \A i \in S : Position(s, i) \in DOMAIN s /\ s[Position(s, i)] = i
           /\ \A i : i \notin S => Position(s, i) = Len(s) + 1
<1>1. /\ s \in Seq(S) /\ Len(s) \in Nat /\ DOMAIN s = 1..Len(s)
      /\ \A k, l \in DOMAIN s : k # l => s[k] # s[l]
      /\ \A x \in S : \E k \in DOMAIN s : s[k] = x
  BY ListingIs
<1>2. Range(s) = S
  <2>1. \A k \in DOMAIN s : s[k] \in S
    BY <1>1
  <2> QED
    BY <1>1, <2>1 DEF Range
<1>3. ASSUME NEW i \in S PROVE Position(s, i) \in DOMAIN s /\ s[Position(s, i)] = i
  <2>1. \E k \in DOMAIN s : s[k] = i
    BY <1>1
  <2> QED
    BY <1>2, <2>1 DEF Position
<1>4. ASSUME NEW i, i \notin S PROVE Position(s, i) = Len(s) + 1
  BY <1>2, <1>4 DEF Position
<1>5. ASSUME NEW k \in DOMAIN s PROVE Position(s, s[k]) = k
  <2>1. s[k] \in S
    BY <1>1
  <2>2. PICK l : l = Position(s, s[k])
    OBVIOUS
  <2>3. l \in DOMAIN s /\ s[l] = s[k]
    BY <1>3, <2>1, <2>2
  <2> QED
    BY <1>1, <2>2, <2>3
<1>6. ASSUME NEW i PROVE Position(s, i) \in Nat
  <2>1. CASE i \in S
    BY <1>1, <1>3, <2>1
  <2>2. CASE i \notin S
    BY <1>1, <1>4, <2>2
  <2> QED
    BY <2>1, <2>2
<1> QED
  BY <1>2, <1>3, <1>4, <1>5, <1>6

(* The relevance of what is eligible orders it, and so does its id. *)
LEMMA RelevanceOrders ==
    ASSUME SearchInv, step = "over", Reachable = DOMAIN rows
    PROVE  /\ TotalOn(byScore(rows), Eligible) /\ TotalOn(byId, Eligible)
           /\ \A i, j \in Eligible : <<i, j>> \in byScore(rows) => Relevance(i) >= Relevance(j)
<1>1. /\ Eligible \in SUBSET Item /\ Eligible \in SUBSET Nat
      /\ \A i \in Eligible : scoreOf(rows, i) = Relevance(i) /\ Relevance(i) \in Nat
  BY EligibleIs
<1>2. PICK E : E = Eligible
  OBVIOUS
<1>3. PICK f : f = [i \in E |-> 0 - Relevance(i)]
  OBVIOUS
<1>4. PICK g : g = [i \in E |-> i]
  OBVIOUS
<1>5. PICK z : z = [i \in E |-> 0]
  OBVIOUS
<1>6. /\ f \in [E -> Int] /\ g \in [E -> Int] /\ z \in [E -> Int]
      /\ \A i \in E : f[i] = 0 - Relevance(i) /\ g[i] = i /\ z[i] = 0
  BY <1>1, <1>2, <1>3, <1>4, <1>5
<1>7. \A i, j \in E : <<i, j>> \in byScore(rows) <=> (f[i] < f[j] \/ (f[i] = f[j] /\ g[i] < g[j]))
  <2> TAKE i, j \in E
  <2>1. <<i, j>> \in Item \X Item
    BY <1>1, <1>2
  <2>2. PICK a \in Nat, b \in Nat : /\ a = scoreOf(rows, i) /\ b = scoreOf(rows, j)
                                    /\ a = Relevance(i) /\ b = Relevance(j)
    BY <1>1, <1>2
  <2>3. <<i, j>> \in byScore(rows) <=> (a > b \/ (a = b /\ i < j))
    BY <2>1, <2>2 DEF byScore
  <2>4. f[i] = 0 - a /\ f[j] = 0 - b /\ g[i] = i /\ g[j] = j
    BY <1>6, <2>2
  <2> QED
    BY <2>2, <2>3, <2>4
<1>8. \A i, j \in E : <<i, j>> \in byId <=> (z[i] < z[j] \/ (z[i] = z[j] /\ g[i] < g[j]))
  BY <1>1, <1>2, <1>6 DEF byId
<1>9. \A i, j \in E : i # j => g[i] # g[j]
  BY <1>6
<1>10. TotalOn(byScore(rows), E)
  <2>1. PICK before : before = byScore(rows)
    OBVIOUS
  <2>2. \A i, j \in E : <<i, j>> \in before <=> (f[i] < f[j] \/ (f[i] = f[j] /\ g[i] < g[j]))
    BY <1>7, <2>1
  <2>3. TotalOn(before, E)
    BY ONLY <1>6, <1>9, <2>2, ByNumbers
  <2> QED
    BY <2>1, <2>3
<1>11. TotalOn(byId, E)
  <2>1. PICK before : before = byId
    OBVIOUS
  <2>2. \A i, j \in E : <<i, j>> \in before <=> (z[i] < z[j] \/ (z[i] = z[j] /\ g[i] < g[j]))
    BY <1>8, <2>1
  <2>3. TotalOn(before, E)
    BY ONLY <1>6, <1>9, <2>2, ByNumbers
  <2> QED
    BY <2>1, <2>3
<1>12. \A i, j \in E : <<i, j>> \in byScore(rows) => Relevance(i) >= Relevance(j)
  <2> TAKE i, j \in E
  <2>1. PICK a \in Nat, b \in Nat : a = Relevance(i) /\ b = Relevance(j) /\ f[i] = 0 - a /\ f[j] = 0 - b
    BY <1>1, <1>2, <1>6
  <2> QED
    BY <1>7, <2>1
<1> QED
  BY <1>2, <1>10, <1>11, <1>12

(* Ordered by sales: a place in the bestsellers, then one in what is given. *)
LEMMA SalesOrder ==
    ASSUME SearchInv, Eligible \in SUBSET SeededOf(menu), IsFiniteSet(Eligible),
           NEW items \in SetToSeqs(Eligible)
    PROVE  /\ TotalOn(bySales(items), Eligible)
           /\ \A i, j \in Eligible : <<i, j>> \in bySales(items) =>
                 /\ Sold(i) >= Sold(j)
                 /\ Sold(i) = 0 /\ Sold(j) = 0 => Position(items, i) < Position(items, j)
<1>0. PICK E : E = Eligible
  OBVIOUS
<1>1. /\ \A i \in E : Position(items, i) \in Nat /\ Position(items, i) \in DOMAIN items
      /\ \A i \in E : items[Position(items, i)] = i
  BY <1>0, PositionIs
<1>2. PICK B : B = {i \in Seeded : menu[i].qty > 0}
  OBVIOUS
<1>3. menu \in [Item -> DishType] /\ Ranked
  BY DEF SearchInv, SearchTypes
<1>4. Seeded \in SUBSET Item /\ IsFiniteSet(Item) /\ IsFiniteSet(B)
  <2>1. Seeded \in SUBSET Item /\ IsFiniteSet(Item)
    BY Sizes DEF Seeded, SeededOf
  <2> QED
    BY <1>2, <2>1, FS_Subset
<1>5. \A i \in Item : menu[i].qty \in Int
  BY <1>3 DEF DishType
<1>6. E \in SUBSET Seeded /\ E \in SUBSET Item
  BY <1>0, <1>4 DEF Seeded, SeededOf
<1>7. PICK R : R = IF ranking = <<>> THEN {} ELSE B
  OBVIOUS
<1>8. PICK n \in Nat : n = Len(ranking)
  <2>1. CASE ranking = <<>>
    BY <2>1
  <2>2. CASE ranking # <<>>
    BY <1>2, <1>3, <1>4, <2>2, ListingIs DEF Ranked
  <2> QED
    BY <2>1, <2>2
<1>9. PICK p : p = [i \in E |-> Position(ranking, i)]
  OBVIOUS
<1>10. /\ \A i \in E : i \in R => p[i] \in 1..n /\ ranking[p[i]] = i
       /\ \A i \in E : i \notin R => p[i] = n + 1
  <2>1. CASE ranking = <<>>
    <3>1. \A i : Position(<<>>, i) = 1
      BY DEF Position, Range
    <3> QED
      BY <1>7, <1>8, <1>9, <2>1, <3>1
  <2>2. CASE ranking # <<>>
    <3>1. ranking \in SetToSeqs(B) /\ R = B
      BY <1>2, <1>3, <1>7, <2>2 DEF Ranked
    <3>2. PICK s \in SetToSeqs(B) : s = ranking
      BY <3>1
    <3>3. DOMAIN s = 1..Len(s)
      BY ONLY <1>4, <3>2, ListingIs
    <3>4. /\ \A i \in B : Position(s, i) \in DOMAIN s /\ s[Position(s, i)] = i
          /\ \A i : i \notin B => Position(s, i) = Len(s) + 1
      BY ONLY <1>4, <3>2, PositionIs
    <3> QED
      BY <1>8, <1>9, <3>1, <3>2, <3>3, <3>4
  <2> QED
    BY <2>1, <2>2
<1>11. \A i \in E : (i \in R => Sold(i) = menu[i].qty /\ Sold(i) > 0) /\ (i \notin R => Sold(i) = 0) /\ Sold(i) \in Nat
  BY <1>2, <1>5, <1>6, <1>7 DEF Sold
<1>12. \A i, j \in E : i \in R /\ j \in R /\ p[i] < p[j] => Sold(i) >= Sold(j)
  <2> SUFFICES ASSUME NEW i \in E, NEW j \in E, i \in R, j \in R, p[i] < p[j] PROVE Sold(i) >= Sold(j)
    OBVIOUS
  <2>1. ranking # <<>> /\ ranking \in SetToSeqs(B)
    BY <1>2, <1>3, <1>7 DEF Ranked
  <2>2. DOMAIN ranking = 1..n
    BY <1>4, <1>8, <2>1, ListingIs
  <2>3. menu[ranking[p[i]]].qty >= menu[ranking[p[j]]].qty
    BY <1>3, <1>10, <2>1, <2>2 DEF Ranked
  <2> QED
    BY <1>10, <1>11, <2>3
<1>13. PICK q : q = [i \in E |-> Position(items, i)]
  OBVIOUS
<1>14. \A i \in E : q[i] \in Nat /\ items[q[i]] = i /\ q[i] = Position(items, i) /\ p[i] = Position(ranking, i)
  BY <1>1, <1>9, <1>13
<1>15. PICK before : before = bySales(items)
  OBVIOUS
<1>16. \A i, j \in E : <<i, j>> \in before <=> (p[i] < p[j] \/ (p[i] = p[j] /\ q[i] < q[j]))
  BY <1>6, <1>14, <1>15 DEF bySales
<1>17. p \in [E -> Int] /\ q \in [E -> Int] /\ \A i, j \in E : i # j => q[i] # q[j]
  <2>1. \A i \in E : p[i] \in Int /\ q[i] \in Int
    BY <1>8, <1>10, <1>14
  <2>2. p = [i \in E |-> p[i]] /\ q = [i \in E |-> q[i]]
    BY <1>9, <1>13
  <2>3. \A i, j \in E : i # j => q[i] # q[j]
    BY <1>14
  <2> QED
    BY <2>1, <2>2, <2>3
<1>18. TotalOn(before, E)
  BY ONLY <1>16, <1>17, ByNumbers
<1>19. ASSUME NEW i \in E, NEW j \in E, <<i, j>> \in before
       PROVE  Sold(i) >= Sold(j) /\ (Sold(i) = 0 /\ Sold(j) = 0 => q[i] < q[j])
  <2>1. CASE i \in R /\ j \in R
    <3>1. p[i] = p[j] => i = j
      BY <1>10, <2>1
    <3>2. p[i] < p[j]
      BY <1>14, <1>16, <1>19, <3>1
    <3> QED
      BY <1>11, <1>12, <2>1, <3>2
  <2>2. CASE i \in R /\ j \notin R
    BY <1>11, <2>2
  <2>3. CASE i \notin R /\ j \in R
    <3>1. p[i] > p[j]
      BY <1>8, <1>10, <2>3
    <3> QED
      BY <1>8, <1>10, <1>16, <1>19, <2>3, <3>1
  <2>4. CASE i \notin R /\ j \notin R
    <3>1. p[i] = p[j] /\ ~ (p[i] < p[j])
      BY <1>8, <1>10, <2>4
    <3> QED
      BY <1>11, <1>16, <1>19, <2>4, <3>1
  <2> QED
    BY <2>1, <2>2, <2>3, <2>4
<1> QED
  BY <1>0, <1>14, <1>15, <1>18, <1>19

(* What search_menu answers is a cut of all that is eligible, in an order in *)
(* which none is better than one before it.                                 *)
LEMMA AnswerIsBest == SearchInv => BestOfReachable
<1> SUFFICES ASSUME SearchInv, step = "over" PROVE BestOfReachable
  BY DEF BestOfReachable
<1>0. /\ search \in Searches /\ NearestOf(menu, pages, Nearest) /\ Reachable = DOMAIN rows
      /\ (DOMAIN rows = {} /\ answer = <<>>) \/ answer = searchMenu(rows)
  <2>1. /\ search \in Searches /\ IsCut(menu, pages, sims) /\ wanted = Nearest \union words
        /\ DOMAIN rows = IF NoPhrase THEN {} ELSE Wanted
        /\ (DOMAIN rows = {} /\ answer = <<>>) \/ answer = searchMenu(rows)
    BY DEF SearchInv, SearchTypes, Retrieved, Hydrated, Nearest
  <2>2. Reachable = DOMAIN rows
    BY <2>1 DEF Reachable, Wanted, NoPhrase, Seeded
  <2> QED
    BY <2>1, <2>2 DEF IsCut, Nearest
<1>1. CASE DOMAIN rows = {} /\ answer = <<>>
  <2>1. Eligible = {}
    BY <1>0, <1>1 DEF Eligible
  <2>2. Cardinality(Eligible) = 0
    BY <2>1, FS_EmptySet
  <2>3. Limit(search) \in Nat /\ 0 = Min({MaxCandidates, 0} \union ({search.limit} \ {Absent}))
    BY <1>0, LimitIs
  <2>4. Len(answer) = 0 /\ DOMAIN answer = {}
    BY <1>1
  <2> QED
    BY <1>0, <2>2, <2>3, <2>4 DEF BestOfReachable
<1>2. CASE answer = searchMenu(rows)
  <2>1. /\ Eligible \in SUBSET SeededOf(menu) /\ IsFiniteSet(Eligible) /\ Eligible \in SUBSET Item
        /\ Cardinality(Eligible) <= Cardinality(Item) /\ Cardinality(Item) \in Nat
        /\ \A i \in Eligible : Relevance(i) \in Nat
        /\ search.query => Eligible = {i \in DOMAIN rows : OnOffer(rows[i]) /\ scoreOf(rows, i) >= Threshold}
        /\ ~ search.query => Eligible = {i \in DOMAIN rows : OnOffer(rows[i])}
    BY <1>0, EligibleIs
  <2>2. /\ TotalOn(byScore(rows), Eligible) /\ TotalOn(byId, Eligible)
        /\ \A i, j \in Eligible : <<i, j>> \in byScore(rows) => Relevance(i) >= Relevance(j)
    BY <1>0, RelevanceOrders
  <2>3. PICK ranked : ranked = Ordered(Eligible, byScore(rows))
    OBVIOUS
  <2>4. Sorts(ranked, Eligible, byScore(rows))
    <3>1. PICK E, before : E = Eligible /\ before = byScore(rows)
      OBVIOUS
    <3>2. IsFiniteSet(E) /\ TotalOn(before, E)
      BY <2>1, <2>2, <3>1
    <3>3. Sorts(Ordered(E, before), E, before)
      BY ONLY <3>2, OrderedSorts
    <3> QED
      BY <2>3, <3>1, <3>3
  <2>5. /\ ranked \in SetToSeqs(Eligible) /\ DOMAIN ranked = 1..Len(ranked) /\ Len(ranked) = Cardinality(Eligible)
        /\ \A k \in DOMAIN ranked : ranked[k] \in Eligible
        /\ Len(ranked) \in Nat /\ ranked \in Seq(Eligible)
    <3>1. PICK E : E = Eligible
      OBVIOUS
    <3>2. IsFiniteSet(E) /\ ranked \in SetToSeqs(E)
      BY <2>1, <2>4, <3>1 DEF Sorts
    <3>3. ranked \in Seq(E) /\ Len(ranked) = Cardinality(E) /\ DOMAIN ranked = 1..Len(ranked)
      BY ONLY <3>2, ListingIs
    <3>4. Len(ranked) \in Nat /\ \A k \in DOMAIN ranked : ranked[k] \in E
      BY <3>3
    <3> QED
      BY <3>1, <3>2, <3>3, <3>4
  <2>6. \A k, l \in DOMAIN ranked : k <= l => Relevance(ranked[k]) >= Relevance(ranked[l])
    <3> TAKE k, l \in DOMAIN ranked
    <3>1. k \in Nat /\ l \in Nat /\ ranked[k] \in Eligible /\ ranked[l] \in Eligible
      BY <2>5
    <3>2. CASE k = l
      BY <2>1, <3>1, <3>2
    <3>3. CASE k < l
      BY <2>2, <2>4, <3>1, <3>3 DEF Sorts
    <3> QED
      BY <3>1, <3>2, <3>3
  <2>7. search.query => rank(rows) = First(ranked, matchLimit(search))
    BY <2>1, <2>3 DEF rank
  <2>8. CASE ~ byPopularity(search)
    <3>1. answer = First(ranked, Limit(search))
      BY <1>2, <2>7, <2>8 DEF searchMenu, matchLimit, byPopularity
    <3>2. \A k, l \in DOMAIN ranked : k <= l => ~ Better(ranked[l], ranked[k])
      <4> TAKE k, l \in DOMAIN ranked
      <4>1. ranked[k] \in Eligible /\ ranked[l] \in Eligible
        BY <2>5
      <4>2. PICK a \in Nat, b \in Nat : a = Relevance(ranked[k]) /\ b = Relevance(ranked[l])
        BY <2>1, <4>1
      <4> QED
        BY <2>6, <2>8, <4>2 DEF Better
    <3> QED
      BY <1>0, <2>1, <2>5, <3>1, <3>2, CutIsBest
  <2>9. CASE byPopularity(search)
    <3>1. PICK items : items = IF search.query THEN rank(rows) ELSE browse(rows)
      OBVIOUS
    <3>2. items \in SetToSeqs(Eligible) /\ (search.query => items = ranked)
      <4>1. CASE search.query
        <5>1. First(ranked, Cardinality(Item)) = ranked
          <6>1. PICK c \in Nat : c = Cardinality(Item) /\ Len(ranked) <= c
            BY <2>1, <2>5
          <6>2. PICK E, fst : E = Eligible /\ fst = First(ranked, c)
            OBVIOUS
          <6>3. ranked \in Seq(E)
            BY <2>5, <6>2
          <6>4. /\ fst \in Seq(E) /\ Len(fst) = (IF Len(ranked) <= c THEN Len(ranked) ELSE c)
                /\ \A k \in 1..Len(fst) : fst[k] = ranked[k]
            BY ONLY <6>2, <6>3, FirstIs
          <6>5. Len(fst) = Len(ranked)
            BY <6>1, <6>4
          <6> QED
            BY <6>1, <6>2, <6>3, <6>4, <6>5
        <5> QED
          BY <2>5, <2>7, <2>9, <3>1, <4>1, <5>1 DEF matchLimit
      <4>2. CASE ~ search.query
        <5>1. items = Ordered(Eligible, byId)
          BY <2>1, <3>1, <4>2 DEF browse
        <5>2. PICK E, before : E = Eligible /\ before = byId
          OBVIOUS
        <5>3. IsFiniteSet(E) /\ TotalOn(before, E)
          BY <2>1, <2>2, <5>2
        <5>4. Sorts(Ordered(E, before), E, before)
          BY ONLY <5>3, OrderedSorts
        <5> QED
          BY <4>2, <5>1, <5>2, <5>4 DEF Sorts
      <4> QED
        BY <4>1, <4>2
    <3>3. /\ Range(items) = Eligible
          /\ \A k \in DOMAIN items : Position(items, items[k]) = k
      BY <2>1, <3>2, PositionIs
    <3>4. /\ TotalOn(bySales(items), Eligible)
          /\ \A i, j \in Eligible : <<i, j>> \in bySales(items) =>
                 /\ Sold(i) >= Sold(j)
                 /\ Sold(i) = 0 /\ Sold(j) = 0 => Position(items, i) < Position(items, j)
      BY <2>1, <3>2, SalesOrder
    <3>5. PICK sold : sold = Ordered(Eligible, bySales(items))
      OBVIOUS
    <3>6. Sorts(sold, Eligible, bySales(items))
      <4>1. PICK E, before : E = Eligible /\ before = bySales(items)
        OBVIOUS
      <4>2. IsFiniteSet(E) /\ TotalOn(before, E)
        BY <2>1, <3>4, <4>1
      <4>3. Sorts(Ordered(E, before), E, before)
        BY ONLY <4>2, OrderedSorts
      <4> QED
        BY <3>5, <4>1, <4>3
    <3>7. /\ sold \in SetToSeqs(Eligible) /\ DOMAIN sold = 1..Len(sold) /\ Len(sold) \in Nat
          /\ \A k \in DOMAIN sold : sold[k] \in Eligible
      <4>1. PICK E : E = Eligible
        OBVIOUS
      <4>2. IsFiniteSet(E) /\ sold \in SetToSeqs(E)
        BY <2>1, <3>6, <4>1 DEF Sorts
      <4>3. sold \in Seq(E) /\ DOMAIN sold = 1..Len(sold)
        BY ONLY <4>2, ListingIs
      <4>4. Len(sold) \in Nat /\ \A k \in DOMAIN sold : sold[k] \in E
        BY <4>3
      <4> QED
        BY <4>1, <4>2, <4>3, <4>4
    <3>8. answer = First(sold, Limit(search))
      BY <1>2, <2>9, <3>1, <3>3, <3>5 DEF searchMenu, rerank
    <3>9. \A i \in Eligible : Sold(i) \in Nat
      <4>1. menu \in [Item -> DishType]
        BY DEF SearchInv, SearchTypes
      <4> QED
        BY <2>1, <4>1 DEF DishType, Sold
    <3>10. \A k, l \in DOMAIN sold : k <= l => ~ Better(sold[l], sold[k])
      <4> SUFFICES ASSUME NEW k \in DOMAIN sold, NEW l \in DOMAIN sold, k <= l PROVE ~ Better(sold[l], sold[k])
        OBVIOUS
      <4>1. PICK i \in Eligible, j \in Eligible : i = sold[k] /\ j = sold[l]
        BY <3>7
      <4>2. /\ Sold(i) \in Nat /\ Sold(j) \in Nat /\ Relevance(i) \in Nat /\ Relevance(j) \in Nat
            /\ k \in Nat /\ l \in Nat
        BY <2>1, <3>7, <3>9
      <4>3. CASE k = l
        BY <2>9, <4>1, <4>2, <4>3 DEF Better
      <4>4. CASE k < l
        <5>1. Sold(i) >= Sold(j) /\ (Sold(i) = 0 /\ Sold(j) = 0 => Position(items, i) < Position(items, j))
          BY <3>4, <3>6, <4>1, <4>4 DEF Sorts
        <5>2. ASSUME search.query, Sold(i) = 0, Sold(j) = 0 PROVE Relevance(i) >= Relevance(j)
          <6>1. PICK a, b : a = Position(ranked, i) /\ b = Position(ranked, j) /\ a < b
            BY <3>2, <5>1, <5>2
          <6>2. a \in DOMAIN ranked /\ b \in DOMAIN ranked /\ ranked[a] = i /\ ranked[b] = j
            BY <2>1, <2>5, <6>1, PositionIs
          <6>3. a <= b
            BY <2>5, <6>1, <6>2
          <6> QED
            BY <2>6, <6>2, <6>3
        <5> QED
          BY <2>9, <4>1, <4>2, <5>1, <5>2 DEF Better
      <4> QED
        BY <4>2, <4>3, <4>4
    <3> QED
      BY <1>0, <2>1, <3>7, <3>8, <3>10, CutIsBest
  <2> QED
    BY <2>8, <2>9
<1> QED
  BY <1>0, <1>1, <1>2

(* search_menu answers with the best of all that its queries returned, best  *)
(* first and within the limits: whatever rows the index comes to, however    *)
(* many names a dish has and however they tie, whatever fails, whatever is   *)
(* not answered and however the back office interferes.                     *)
THEOREM BestIsAnswered == SearchSpec => []BestOfReachable
<1>1. SearchInit => SearchInv
  BY SearchStarts
<1>2. SearchInv /\ [SearchNext]_searchVars => SearchInv'
  BY SearchKeeps
<1>3. SearchInv => BestOfReachable
  BY AnswerIsBest
<1> QED
  BY <1>1, <1>2, <1>3, PTL DEF SearchSpec
=============================================================================
