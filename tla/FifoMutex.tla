------------------------------ MODULE FifoMutex ------------------------------
(***************************************************************************)
(* What KeyedAsyncLock promises its callers (src/shared/async-lock.ts):    *)
(* "Runs fn exclusively for key; calls on the same key serialize in        *)
(* arrival order."  A call waits for the calls of its key that arrived     *)
(* before it and have not left, and for nothing else.                      *)
(***************************************************************************)
EXTENDS FiniteSets

CONSTANTS Call,         \* the calls of run(key, fn), each made at most once
          Key,          \* the keys: cart ids
          KeyOf         \* the key each call is made for

VARIABLES phase,        \* where each call is
          ahead         \* for a waiting call, the calls it still waits for

vars == <<phase, ahead>>

Phase == {"idle", "waiting", "running", "left"}

TypeOK == /\ phase \in [Call -> Phase]
          /\ ahead \in [Call -> SUBSET Call]

Init == /\ phase = [c \in Call |-> "idle"]
        /\ ahead = [c \in Call |-> {}]

Present(c) == phase[c] \in {"waiting", "running"}

\* Mutant: a call waits for the running call only, not for those in the queue.
QueueBehindRunning(c) ==
    /\ phase[c] = "idle"
    /\ phase' = [phase EXCEPT ![c] = "waiting"]
    /\ ahead' = [ahead EXCEPT ![c] = {d \in Call : KeyOf[d] = KeyOf[c] /\ phase[d] = "running"}]

Queue(c) ==
    /\ phase[c] = "idle"
    /\ phase' = [phase EXCEPT ![c] = "waiting"]
    /\ ahead' = [ahead EXCEPT ![c] = {d \in Call : KeyOf[d] = KeyOf[c] /\ Present(d)}]

Enter(c) ==
    /\ phase[c] = "waiting"
    /\ ahead[c] = {}
    /\ phase' = [phase EXCEPT ![c] = "running"]
    /\ UNCHANGED ahead

\* fn settled: whether it returned or threw, the next call of the key may run.
Leave(c) ==
    /\ phase[c] = "running"
    /\ phase' = [phase EXCEPT ![c] = "left"]
    /\ ahead' = [d \in Call |-> ahead[d] \ {c}]

\* The process died: the lock lives in its memory, so every call in it is gone.
Restart ==
    /\ \E c \in Call : Present(c)
    /\ phase' = [c \in Call |-> IF Present(c) THEN "left" ELSE phase[c]]
    /\ ahead' = [c \in Call |-> {}]

Next == Restart \/ \E c \in Call : Queue(c) \/ Enter(c) \/ Leave(c)

Spec == Init /\ [][Next]_vars

-----------------------------------------------------------------------------
(* No two calls of one key run at once: the "single writer per cart" critical
   section that applyProposal, confirm and ensureCart rely on. *)
MutualExclusion ==
    \A c, d \in Call : phase[c] = "running" /\ phase[d] = "running" /\ KeyOf[c] = KeyOf[d] => c = d

(* The inductive form: of two calls of a key that are in the lock, one is
   ahead of the other, and a running call has nothing ahead of it. *)
Ordered ==
    /\ \A c, d \in Call : Present(c) /\ Present(d) /\ KeyOf[c] = KeyOf[d] /\ c # d
                              => c \in ahead[d] \/ d \in ahead[c]
    /\ \A c \in Call : phase[c] = "running" => ahead[c] = {}
=============================================================================
