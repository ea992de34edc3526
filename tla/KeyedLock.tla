------------------------------ MODULE KeyedLock ------------------------------
(***************************************************************************)
(* KeyedAsyncLock.run (src/shared/async-lock.ts) as the promise chain it   *)
(* is.  A call c of run(key, fn) makes two promises: `result`, settled     *)
(* when fn is, and `settled`, one microtask later.  The Map `tails` holds  *)
(* the last `settled` promise of a key; the next call chains on it.  Each  *)
(* microtask is an action, so that everything the event loop may run       *)
(* between two of them is between two steps here.                          *)
(***************************************************************************)
EXTENDS Naturals, FiniteSets

CONSTANTS Call, Key, KeyOf,
          None          \* no promise: the key has no tail, or prev is Promise.resolve()

ASSUME KeyOfAssumption == KeyOf \in [Call -> Key]
ASSUME NoneAssumption == None \notin Call

VARIABLES
    tails,      \* tails[k]: the call whose `settled` promise is the tail of key k
    prev,       \* prev[c]: the call whose `settled` promise c chained on
    stage,      \* how far the promises of c are
    swept,      \* the calls whose `settled.then(delete)` callback has run
    arrival,    \* history: the order in which run was called, 0 for not yet
    clock       \* history: how many calls were made

vars == <<tails, prev, stage, swept, arrival, clock>>

\* waiting: `result` is pending and fn not started; running: fn is running;
\* returned: `result` is settled; settled: `settled` is settled too.
Stage == {"idle", "waiting", "running", "returned", "settled"}

TypeOK ==
    /\ tails \in [Key -> Call \cup {None}]
    /\ prev \in [Call -> Call \cup {None}]
    /\ stage \in [Call -> Stage]
    /\ swept \in SUBSET Call
    /\ arrival \in [Call -> Nat]
    /\ clock \in Nat

Init ==
    /\ tails = [k \in Key |-> None]
    /\ prev = [c \in Call |-> None]
    /\ stage = [c \in Call |-> "idle"]
    /\ swept = {}
    /\ arrival = [c \in Call |-> 0]
    /\ clock = 0

\* Mutant: the tail is left to the first caller, so a third call chains on it.
RunKeepsFirstTail(c) ==
    /\ stage[c] = "idle"
    /\ prev' = [prev EXCEPT ![c] = tails[KeyOf[c]]]
    /\ tails' = [tails EXCEPT ![KeyOf[c]] = IF @ = None THEN c ELSE @]
    /\ stage' = [stage EXCEPT ![c] = "waiting"]
    /\ clock' = clock + 1
    /\ arrival' = [arrival EXCEPT ![c] = clock + 1]
    /\ UNCHANGED swept

\* run(key, fn) is synchronous: it reads the tail and replaces it in one turn.
Run(c) ==
    /\ stage[c] = "idle"
    /\ prev' = [prev EXCEPT ![c] = tails[KeyOf[c]]]
    /\ tails' = [tails EXCEPT ![KeyOf[c]] = c]
    /\ stage' = [stage EXCEPT ![c] = "waiting"]
    /\ clock' = clock + 1
    /\ arrival' = [arrival EXCEPT ![c] = clock + 1]
    /\ UNCHANGED swept

\* Mutant: fn() is called without waiting for prev.
StartAtOnce(c) ==
    /\ stage[c] = "waiting"
    /\ stage' = [stage EXCEPT ![c] = "running"]
    /\ UNCHANGED <<tails, prev, swept, arrival, clock>>

\* Mutant: prev.then(fn) alone, behind a call that threw: fn never runs.
StartAfterSuccess(c) ==
    /\ stage[c] = "waiting"
    /\ prev[c] = None
    /\ stage' = [stage EXCEPT ![c] = "running"]
    /\ UNCHANGED <<tails, prev, swept, arrival, clock>>

\* prev.then(fn, fn): fn starts once prev is settled.
Start(c) ==
    /\ stage[c] = "waiting"
    /\ prev[c] # None => stage[prev[c]] = "settled"
    /\ stage' = [stage EXCEPT ![c] = "running"]
    /\ UNCHANGED <<tails, prev, swept, arrival, clock>>

\* fn returned or threw; `result` is fulfilled or rejected.
Return(c) ==
    /\ stage[c] = "running"
    /\ stage' = [stage EXCEPT ![c] = "returned"]
    /\ UNCHANGED <<tails, prev, swept, arrival, clock>>

\* result.then(undefined, undefined): `settled` never rejects.
Settle(c) ==
    /\ stage[c] = "returned"
    /\ stage' = [stage EXCEPT ![c] = "settled"]
    /\ UNCHANGED <<tails, prev, swept, arrival, clock>>

\* Mutant: the clean-up deletes the tail without looking whose it is.
SweepAnyTail(c) ==
    /\ stage[c] = "settled"
    /\ c \notin swept
    /\ swept' = swept \cup {c}
    /\ tails' = [tails EXCEPT ![KeyOf[c]] = None]
    /\ UNCHANGED <<prev, stage, arrival, clock>>

\* settled.then: drop the tail, unless a later call has replaced it.
Sweep(c) ==
    /\ stage[c] = "settled"
    /\ c \notin swept
    /\ swept' = swept \cup {c}
    /\ tails' = IF tails[KeyOf[c]] = c THEN [tails EXCEPT ![KeyOf[c]] = None] ELSE tails
    /\ UNCHANGED <<prev, stage, arrival, clock>>

Step(c) == Run(c) \/ Start(c) \/ Return(c) \/ Settle(c) \/ Sweep(c)

Next == \E c \in Call : Step(c)

\* The event loop runs every ready microtask, and the calls made under the
\* lock end: Redis replies or fails, and every Odoo call has a 10 s timeout.
Fairness == \A c \in Call : WF_vars(Start(c) \/ Return(c) \/ Settle(c) \/ Sweep(c))

Spec == Init /\ [][Next]_vars /\ Fairness

-----------------------------------------------------------------------------
(* fn of two calls with the same key never runs at the same time. *)
MutualExclusion ==
    \A c, d \in Call : stage[c] = "running" /\ stage[d] = "running" /\ KeyOf[c] = KeyOf[d] => c = d

(* Calls of a key run in the order run was called: an earlier call has
   returned before a later one starts. *)
ArrivalOrder ==
    \A c, d \in Call :
        /\ KeyOf[c] = KeyOf[d]
        /\ 0 < arrival[c] /\ arrival[c] < arrival[d]
        /\ stage[d] \in {"running", "returned", "settled"}
        => stage[c] \in {"returned", "settled"}

(* The map never keeps a key nobody uses: once every call made for a key has
   run its clean-up, the key has no tail.  A tail is never dropped early
   either: while a call of the key is not settled, the key has one. *)
NoTailLeak ==
    \A k \in Key :
        LET made == {c \in Call : KeyOf[c] = k /\ stage[c] # "idle"}
        IN  /\ made \subseteq swept => tails[k] = None
            /\ (\E c \in made : stage[c] # "settled") => tails[k] # None

(* Every call runs: an earlier one that throws does not break the chain. *)
EveryCallRuns == \A c \in Call : stage[c] = "waiting" ~> stage[c] = "settled"

-----------------------------------------------------------------------------
(* The lock its callers see.  A call is out of it as soon as fn has settled. *)
InLock(c) == stage[c] \in {"waiting", "running"}

LockPhase(c) == IF stage[c] \in {"returned", "settled"} THEN "left" ELSE stage[c]

WaitsFor(c) == {d \in Call : /\ KeyOf[d] = KeyOf[c]
                             /\ stage[c] = "waiting" /\ InLock(d)
                             /\ arrival[d] < arrival[c]}

Mutex == INSTANCE FifoMutex WITH
    phase <- [c \in Call |-> LockPhase(c)],
    ahead <- [c \in Call |-> WaitsFor(c)]

(* The promise chain implements the first-come-first-served mutex. *)
ImplementsMutex == Mutex!Spec
=============================================================================
