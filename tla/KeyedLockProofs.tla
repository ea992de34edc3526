--------------------------- MODULE KeyedLockProofs ---------------------------
(***************************************************************************)
(* The promise chain of KeyedAsyncLock excludes two calls of a key from    *)
(* each other and serves them in arrival order, for any calls and keys,    *)
(* forgets a key once it is unused, and implements FifoMutex.              *)
(***************************************************************************)
EXTENDS KeyedLock, TLAPS

Made(c) == stage[c] # "idle"
Started(c) == stage[c] \in {"running", "returned", "settled"}

(* d was called for the same key before c. *)
Before(d, c) == KeyOf[d] = KeyOf[c] /\ 0 < arrival[d] /\ arrival[d] < arrival[c]

\* Calls are numbered, from 1, in the order they are made.
Numbered ==
    /\ \A c \in Call : Made(c) <=> 0 < arrival[c]
    /\ \A c \in Call : arrival[c] <= clock
    /\ \A c, d \in Call : 0 < arrival[c] /\ arrival[c] = arrival[d] => c = d

\* The tail of a key is its latest call; a key without a tail is at rest.
TailIsLast ==
    \A k \in Key :
        /\ tails[k] # None => /\ Made(tails[k]) /\ KeyOf[tails[k]] = k
                              /\ \A c \in Call : KeyOf[c] = k => arrival[c] <= arrival[tails[k]]
        /\ tails[k] = None => \A c \in Call : KeyOf[c] = k /\ Made(c) => stage[c] = "settled"

\* A call chained on the call just before it, or all before it were settled.
PrevIsNext ==
    \A c \in Call :
        /\ Made(c) /\ prev[c] = None => \A d \in Call : Before(d, c) => stage[d] = "settled"
        /\ Made(c) /\ prev[c] # None => /\ Before(prev[c], c)
                                        /\ \A d \in Call : Before(d, c) => arrival[d] <= arrival[prev[c]]

\* Once a call has started, all before it are settled.
StartedLast == \A c, d \in Call : Started(c) /\ Before(d, c) => stage[d] = "settled"

IInv == TypeOK /\ Numbered /\ TailIsLast /\ PrevIsNext /\ StartedLast

-----------------------------------------------------------------------------
LEMMA InitIInv == Init => IInv
  BY KeyOfAssumption, NoneAssumption
     DEF Init, IInv, TypeOK, Stage, Numbered, TailIsLast, PrevIsNext, StartedLast,
         Made, Started, Before

LEMMA RunStep == ASSUME IInv, NEW c \in Call, Run(c) PROVE IInv'
<1> USE KeyOfAssumption, NoneAssumption
<1>0. /\ KeyOf[c] \in Key /\ tails[KeyOf[c]] \in Call \cup {None}
      /\ clock + 1 \in Nat
  BY DEF IInv, TypeOK
<1>1. TypeOK'
  BY <1>0 DEF IInv, Run, TypeOK, Stage
<1>2. Numbered'
  BY DEF IInv, Run, TypeOK, Stage, Numbered, Made
<1>3. TailIsLast'
  BY DEF IInv, Run, TypeOK, Stage, Numbered, TailIsLast, Made
<1>4. PrevIsNext'
  <2> SUFFICES ASSUME NEW e \in Call, Made(e)'
               PROVE  /\ (prev[e] = None => \A d \in Call : Before(d, e) => stage[d] = "settled")'
                      /\ (prev[e] # None => /\ Before(prev[e], e)
                                            /\ \A d \in Call : Before(d, e) => arrival[d] <= arrival[prev[e]])'
    BY DEF PrevIsNext
  <2>1. CASE e = c
    <3>1. /\ prev'[c] = tails[KeyOf[c]] /\ arrival'[c] = clock + 1
          /\ \A d \in Call : d # c => /\ arrival'[d] = arrival[d] /\ arrival[d] <= clock
                                      /\ stage'[d] = stage[d]
      BY DEF IInv, Run, TypeOK, Numbered
    <3>2. \A d \in Call : Before(d, c)' => Made(d) /\ KeyOf[d] = KeyOf[c] /\ d # c
      BY <3>1 DEF IInv, TypeOK, Numbered, Before
    <3>3. CASE tails[KeyOf[c]] = None
      BY <1>0, <2>1, <3>1, <3>2, <3>3 DEF IInv, TailIsLast
    <3>4. CASE tails[KeyOf[c]] # None
      <4>1. LET t == tails[KeyOf[c]]
            IN  /\ t \in Call /\ Made(t) /\ KeyOf[t] = KeyOf[c] /\ t # c
                /\ \A d \in Call : KeyOf[d] = KeyOf[c] => arrival[d] <= arrival[t]
        BY <1>0, <3>4 DEF IInv, TailIsLast, Made, Run
      <4>2. Before(prev[c], c)'
        BY <3>1, <4>1 DEF IInv, TypeOK, Numbered, Before
      <4> QED
        BY <2>1, <3>1, <3>2, <3>4, <4>1, <4>2
    <3> QED
      BY <3>3, <3>4
  <2>2. CASE e # c
    BY <2>2 DEF IInv, Run, TypeOK, Stage, Numbered, PrevIsNext, Made, Before
  <2> QED
    BY <2>1, <2>2
<1>5. StartedLast'
  BY DEF IInv, Run, TypeOK, Stage, Numbered, StartedLast, Started, Made, Before
<1> QED
  BY <1>1, <1>2, <1>3, <1>4, <1>5 DEF IInv

LEMMA StartStep == ASSUME IInv, NEW c \in Call, Start(c) PROVE IInv'
<1> USE KeyOfAssumption, NoneAssumption
<1>1. TypeOK' /\ Numbered' /\ TailIsLast' /\ PrevIsNext'
  BY DEF IInv, Start, TypeOK, Stage, Numbered, TailIsLast, PrevIsNext, Made, Before
<1>2. \A d \in Call : Before(d, c) => stage[d] = "settled"
  <2>1. CASE prev[c] = None
    BY <2>1 DEF IInv, Start, PrevIsNext, Made
  <2>2. CASE prev[c] # None
    <3>1. prev[c] \in Call /\ stage[prev[c]] = "settled" /\ Before(prev[c], c)
      BY <2>2 DEF IInv, TypeOK, Start, PrevIsNext, Made
    <3>2. SUFFICES ASSUME NEW d \in Call, Before(d, c) PROVE stage[d] = "settled"
      OBVIOUS
    <3>3. arrival[d] <= arrival[prev[c]]
      BY <2>2, <3>2 DEF IInv, Start, PrevIsNext, Made
    <3>4. CASE arrival[d] = arrival[prev[c]]
      BY <3>1, <3>2, <3>4 DEF IInv, Numbered, Before
    <3>5. CASE arrival[d] < arrival[prev[c]]
      BY <3>1, <3>2, <3>5 DEF IInv, StartedLast, Started, Before
    <3> QED
      BY <3>1, <3>3, <3>4, <3>5 DEF IInv, TypeOK
  <2> QED
    BY <2>1, <2>2
<1>3. StartedLast'
  BY <1>2 DEF IInv, Start, TypeOK, Stage, StartedLast, Started, Before
<1> QED
  BY <1>1, <1>3 DEF IInv

LEMMA ReturnStep == ASSUME IInv, NEW c \in Call, Return(c) PROVE IInv'
  BY DEF IInv, Return, TypeOK, Stage, Numbered, TailIsLast, PrevIsNext, StartedLast,
         Made, Started, Before

LEMMA SettleStep == ASSUME IInv, NEW c \in Call, Settle(c) PROVE IInv'
  BY DEF IInv, Settle, TypeOK, Stage, Numbered, TailIsLast, PrevIsNext, StartedLast,
         Made, Started, Before

LEMMA SweepStep == ASSUME IInv, NEW c \in Call, Sweep(c) PROVE IInv'
<1> USE KeyOfAssumption, NoneAssumption
<1>1. TypeOK' /\ Numbered' /\ PrevIsNext' /\ StartedLast'
  BY DEF IInv, Sweep, TypeOK, Stage, Numbered, PrevIsNext, StartedLast, Made, Started, Before
<1>2. ASSUME tails[KeyOf[c]] = c, NEW d \in Call, KeyOf[d] = KeyOf[c], Made(d)
      PROVE  stage[d] = "settled"
  <2>1. arrival[d] <= arrival[c] /\ 0 < arrival[d]
    BY <1>2 DEF IInv, TypeOK, TailIsLast, Numbered
  <2>2. CASE arrival[d] = arrival[c]
    BY <2>1, <2>2 DEF IInv, Numbered, Sweep
  <2>3. CASE arrival[d] < arrival[c]
    BY <1>2, <2>1, <2>3 DEF IInv, StartedLast, Started, Before, Sweep
  <2> QED
    BY <2>1, <2>2, <2>3 DEF IInv, TypeOK
<1>3. TailIsLast'
  BY <1>2 DEF IInv, Sweep, TypeOK, TailIsLast, Made
<1> QED
  BY <1>1, <1>3 DEF IInv

(* The inductive invariant of the promise chain. *)
LEMMA IInvHolds == Spec => []IInv
<1>1. IInv /\ [Next]_vars => IInv'
  <2> SUFFICES ASSUME IInv, [Next]_vars PROVE IInv'
    OBVIOUS
  <2>1. ASSUME NEW c \in Call, Step(c) PROVE IInv'
    BY <2>1, RunStep, StartStep, ReturnStep, SettleStep, SweepStep DEF Step
  <2>2. CASE UNCHANGED vars
    BY <2>2 DEF vars, IInv, TypeOK, Numbered, TailIsLast, PrevIsNext, StartedLast,
                Made, Started, Before
  <2> QED
    BY <2>1, <2>2 DEF Next
<1> QED
  BY <1>1, InitIInv, PTL DEF Spec

-----------------------------------------------------------------------------
(* Calls of a key start in the order they were made, each after the return of
   those before it. *)
THEOREM ServedInOrder == Spec => []ArrivalOrder
<1>1. IInv => ArrivalOrder
  BY DEF IInv, StartedLast, ArrivalOrder, Started, Before
<1> QED
  BY <1>1, IInvHolds, PTL

(* No two fns run for the same key at once. *)
THEOREM Exclusion == Spec => []MutualExclusion
<1>1. ASSUME IInv, NEW c \in Call, NEW d \in Call, KeyOf[c] = KeyOf[d],
             stage[c] = "running", stage[d] = "running"
      PROVE  c = d
  <2>1. 0 < arrival[c] /\ 0 < arrival[d]
    BY <1>1 DEF IInv, Numbered, Made
  <2>2. ~ Before(c, d) /\ ~ Before(d, c)
    BY <1>1 DEF IInv, StartedLast, Started
  <2>3. arrival[c] = arrival[d]
    BY <1>1, <2>1, <2>2 DEF IInv, TypeOK, Before
  <2> QED
    BY <1>1, <2>1, <2>3 DEF IInv, Numbered
<1>2. IInv => MutualExclusion
  BY <1>1 DEF MutualExclusion
<1> QED
  BY <1>2, IInvHolds, PTL

-----------------------------------------------------------------------------
\* A clean-up that ran belongs to a settled call, and left no tail of that call.
SweptInv ==
    /\ \A c \in swept : stage[c] = "settled"
    /\ \A k \in Key : tails[k] # None => tails[k] \notin swept

LEMMA SweptStep == ASSUME IInv, SweptInv, [Next]_vars PROVE SweptInv'
<1> USE KeyOfAssumption
<1>1. ASSUME NEW c \in Call, Run(c) PROVE SweptInv'
  <2>1. c \notin swept /\ swept' = swept
    BY <1>1 DEF SweptInv, Run
  <2>2. \A d \in swept : stage'[d] = stage[d]
    BY <1>1, <2>1 DEF IInv, TypeOK, Run
  <2>3. \A k \in Key : tails'[k] = IF k = KeyOf[c] THEN c ELSE tails[k]
    BY <1>1 DEF IInv, TypeOK, Run
  <2> QED
    BY <2>1, <2>2, <2>3 DEF SweptInv
<1>2. ASSUME NEW c \in Call, Start(c) \/ Return(c) \/ Settle(c) PROVE SweptInv'
  <2>1. UNCHANGED <<tails, swept>> /\ \A d \in Call : stage[d] = "settled" => stage'[d] = "settled"
    BY <1>2 DEF IInv, TypeOK, Start, Return, Settle
  <2> QED
    BY <2>1 DEF IInv, TypeOK, SweptInv
<1>3. ASSUME NEW c \in Call, Sweep(c) PROVE SweptInv'
  <2>1. /\ stage[c] = "settled" /\ swept' = swept \cup {c} /\ stage' = stage
        /\ \A k \in Key : tails'[k] = IF k = KeyOf[c] /\ tails[k] = c THEN None ELSE tails[k]
    BY <1>3 DEF IInv, TypeOK, Sweep
  <2>2. \A k \in Key : tails[k] # None => KeyOf[tails[k]] = k
    BY DEF IInv, TailIsLast
  <2> QED
    BY <2>1, <2>2, NoneAssumption DEF SweptInv
<1>4. CASE UNCHANGED vars
  BY <1>4 DEF vars, SweptInv
<1> QED
  BY <1>1, <1>2, <1>3, <1>4 DEF Next, Step

(* The map of tails forgets a key as soon as the last of its calls is cleaned
   up after, and not before the last of them has settled. *)
THEOREM TailsAreExact == Spec => []NoTailLeak
<1>1. Init => SweptInv
  BY DEF Init, SweptInv
<1>2. IInv /\ SweptInv => NoTailLeak
  <2> SUFFICES ASSUME IInv, SweptInv, NEW k \in Key
               PROVE  LET made == {c \in Call : KeyOf[c] = k /\ stage[c] # "idle"}
                      IN  /\ made \subseteq swept => tails[k] = None
                          /\ (\E c \in made : stage[c] # "settled") => tails[k] # None
    BY DEF NoTailLeak
  <2>1. tails[k] # None => /\ tails[k] \in Call /\ KeyOf[tails[k]] = k
                           /\ stage[tails[k]] # "idle" /\ tails[k] \notin swept
    BY DEF IInv, TypeOK, TailIsLast, Made, SweptInv
  <2>2. tails[k] = None => \A c \in Call : KeyOf[c] = k /\ stage[c] # "idle" => stage[c] = "settled"
    BY DEF IInv, TailIsLast, Made
  <2> QED
    BY <2>1, <2>2
<1> QED
  BY <1>1, <1>2, SweptStep, IInvHolds, PTL DEF Spec

-----------------------------------------------------------------------------
LEMMA RunRequests == ASSUME IInv, NEW c \in Call, Run(c) PROVE Mutex!Queue(c)
<1>1. /\ stage'[c] = "waiting" /\ arrival'[c] = clock + 1
      /\ \A d \in Call : d # c => stage'[d] = stage[d] /\ arrival'[d] = arrival[d]
      /\ \A d \in Call : arrival[d] <= clock
      /\ clock \in Nat /\ arrival \in [Call -> Nat] /\ stage[c] = "idle"
  BY DEF IInv, Run, TypeOK, Numbered
<1>2. WaitsFor(c)' = {d \in Call : KeyOf[d] = KeyOf[c] /\ InLock(d)}
  BY <1>1 DEF WaitsFor, InLock
<1>3. ASSUME NEW e \in Call, e # c PROVE WaitsFor(e)' = WaitsFor(e)
  BY <1>1, <1>3 DEF WaitsFor, InLock
<1>4. \A d \in Call : LockPhase(d)' = IF d = c THEN "waiting" ELSE LockPhase(d)
  BY <1>1 DEF LockPhase
<1>5. \A d \in Call : InLock(d) <=> LockPhase(d) \in {"waiting", "running"}
  BY DEF InLock, LockPhase
<1>6. LockPhase(c) = "idle"
  BY <1>1 DEF LockPhase
<1> QED
  BY <1>2, <1>3, <1>4, <1>5, <1>6 DEF Mutex!Queue, Mutex!Present

LEMMA StartEnters == ASSUME IInv, NEW c \in Call, Start(c) PROVE Mutex!Enter(c)
<1>1. IInv' /\ stage[c] = "waiting"
  BY StartStep DEF Start
<1>2. /\ stage'[c] = "running" /\ arrival' = arrival
      /\ \A d \in Call : d # c => stage'[d] = stage[d]
  BY DEF IInv, TypeOK, Start
<1>3. ASSUME NEW d \in Call, KeyOf[d] = KeyOf[c], InLock(d), arrival[d] < arrival[c]
      PROVE  FALSE
  <2>1. Before(d, c)' /\ Started(c)' /\ d # c
    BY <1>2, <1>3 DEF IInv, TypeOK, Numbered, Made, InLock, Before, Started
  <2>2. stage'[d] = "settled"
    BY <1>1, <2>1 DEF IInv, StartedLast
  <2> QED
    BY <1>2, <1>3, <2>1, <2>2 DEF InLock
<1>4. WaitsFor(c) = {} /\ WaitsFor(c)' = {}
  BY <1>2, <1>3 DEF WaitsFor
<1>5. ASSUME NEW e \in Call, e # c PROVE WaitsFor(e)' = WaitsFor(e)
  BY <1>1, <1>2, <1>5 DEF WaitsFor, InLock
<1>6. \A d \in Call : LockPhase(d)' = IF d = c THEN "running" ELSE LockPhase(d)
  BY <1>2 DEF LockPhase
<1> QED
  BY <1>1, <1>4, <1>5, <1>6 DEF Mutex!Enter, LockPhase

LEMMA ReturnLeaves == ASSUME IInv, NEW c \in Call, Return(c) PROVE Mutex!Leave(c)
<1>1. /\ stage[c] = "running" /\ stage'[c] = "returned" /\ arrival' = arrival
      /\ \A d \in Call : d # c => stage'[d] = stage[d]
  BY DEF IInv, TypeOK, Return
<1>2. ASSUME NEW e \in Call PROVE WaitsFor(e)' = WaitsFor(e) \ {c}
  BY <1>1 DEF WaitsFor, InLock
<1>3. \A d \in Call : LockPhase(d)' = IF d = c THEN "left" ELSE LockPhase(d)
  BY <1>1 DEF LockPhase
<1>4. LockPhase(c) = "running"
  BY <1>1 DEF LockPhase
<1> QED
  BY <1>2, <1>3, <1>4 DEF Mutex!Leave

LEMMA CleanUpStutters ==
    ASSUME IInv, NEW c \in Call, Settle(c) \/ Sweep(c)
    PROVE  UNCHANGED Mutex!vars
<1>1. /\ arrival' = arrival
      /\ \A d \in Call : LockPhase(d)' = LockPhase(d) /\ (InLock(d)' <=> InLock(d))
                         /\ (stage'[d] = "waiting" <=> stage[d] = "waiting")
  BY DEF IInv, TypeOK, Settle, Sweep, LockPhase, InLock
<1>2. ASSUME NEW e \in Call PROVE WaitsFor(e)' = WaitsFor(e)
  BY <1>1 DEF WaitsFor
<1> QED
  BY <1>1, <1>2 DEF Mutex!vars

(* Every step of the promise chain is a request, an entry or a departure of
   the first-come-first-served mutex, or changes nothing it shows. *)
THEOREM Refinement == Spec => ImplementsMutex
<1>1. Init => Mutex!Init
  BY DEF Init, Mutex!Init, LockPhase, WaitsFor
<1>2. IInv /\ [Next]_vars => [Mutex!Next]_Mutex!vars
  <2> SUFFICES ASSUME IInv, [Next]_vars PROVE [Mutex!Next]_Mutex!vars
    OBVIOUS
  <2>1. ASSUME NEW c \in Call, Step(c) PROVE Mutex!Next \/ UNCHANGED Mutex!vars
    BY <2>1, RunRequests, StartEnters, ReturnLeaves, CleanUpStutters DEF Step, Mutex!Next
  <2>2. CASE UNCHANGED vars
    BY <2>2 DEF vars, Mutex!vars, LockPhase, WaitsFor, InLock
  <2> QED
    BY <2>1, <2>2 DEF Next
<1> QED
  BY <1>1, <1>2, IInvHolds, PTL DEF Spec, ImplementsMutex, Mutex!Spec
=============================================================================
