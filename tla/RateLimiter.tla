----------------------------- MODULE RateLimiter -----------------------------
(***************************************************************************)
(* The rate limiter of one provider quota (src/ratelimit/): a bucket of    *)
(* requests, a bucket of model tokens and a pool of permits behind         *)
(* acquire, settle and abandon.  Every wait is in a FIFO queue, with a     *)
(* deadline and an abort; a bucket arms one timer, for its queue's head.   *)
(* A tick is the time in which a bucket gains one token, so token counts   *)
(* and instants are whole numbers; timers may be late by any ticks.        *)
(***************************************************************************)
EXTENDS Integers, Sequences, FiniteSets, Functions, FiniteSetsExt, SequencesExt

CONSTANTS Caller,
          Capacity,     \* Capacity["rpm"], Capacity["tpm"]: 0 is no limit
          Permits,      \* maxConcurrent: 0 is no limit
          Cost,         \* Cost[c]: the model tokens c asks for
          Overrun,      \* Overrun[c]: what c may turn out to have used beyond that
          Wait,         \* Wait[c]: deadlineMs
          MaxQueued,    \* MaxQueued[st]: maxQueuedWaiters, one number for every stage in the code
          Penalties,    \* hold-offs a refusal may ask for
          NoTimer,
          MaxTime       \* bound: ticks of a behaviour

Dim == {"rpm", "tpm"}

ASSUME LimitsAssumption ==
    /\ Capacity \in [Dim -> Nat] /\ Permits \in Nat
    /\ MaxQueued \in [Dim \cup {"permit"} -> Nat]
ASSUME CallerAssumption ==
    /\ IsFiniteSet(Caller)
    /\ Cost \in [Caller -> Nat] /\ Overrun \in [Caller -> Nat] /\ Wait \in [Caller -> Nat]
ASSUME TimeAssumption == MaxTime \in Nat /\ Penalties \subseteq Nat /\ NoTimer \notin Nat

VARIABLES now,
          bucket,       \* bucket[d]: a TokenBucket
          used,         \* Semaphore: permits held
          permitQueue,
          at,           \* at[c]: the stage of acquire c is at, or what became of its lease
          promise,      \* promise[c]: the promise of that stage
          deadlineAt,
          aborted,      \* aborted[c]: c's signal
          charged       \* charged[c]: the model tokens c was charged when it settled

vars == <<now, bucket, used, permitQueue, at, promise, deadlineAt, aborted, charged>>

Stage == Dim \cup {"permit"}
Outcome == {"leased", "settled", "abandoned", "refused"}

TypeOK ==
    /\ now \in 0..MaxTime
    /\ bucket \in [Dim -> [tokens : Int, lastRefillAt : Nat, penaltyUntil : Nat,
                           queue : Seq(Caller), timer : Nat \cup {NoTimer},
                           spilled : Nat]]    \* history: tokens lost to the clamp
    /\ used \in 0..Permits
    /\ permitQueue \in Seq(Caller)
    /\ at \in [Caller -> {"idle"} \cup Stage \cup Outcome]
    /\ promise \in [Caller -> {"none", "waiting", "granted", "failed"}]
    /\ deadlineAt \in [Caller -> Nat]
    /\ aborted \in [Caller -> BOOLEAN]
    /\ charged \in [Caller -> Nat]

Init ==
    /\ now = 0
    /\ bucket = [d \in Dim |-> [tokens |-> Capacity[d], lastRefillAt |-> 0, penaltyUntil |-> 0,
                                queue |-> <<>>, timer |-> NoTimer, spilled |-> 0]]
    /\ used = 0
    /\ permitQueue = <<>>
    /\ at = [c \in Caller |-> "idle"]
    /\ promise = [c \in Caller |-> "none"]
    /\ deadlineAt = [c \in Caller |-> 0]
    /\ aborted = [c \in Caller |-> FALSE]
    /\ charged = [c \in Caller |-> 0]

-----------------------------------------------------------------------------
(* A bucket *)

\* What a caller takes: one request; its cost, clamped to the capacity.
Need(d, c) == IF d = "rpm" THEN 1 ELSE Min({Cost[c], Capacity["tpm"]})

\* n tokens more, never above the capacity.
Credit(d, b, n) == [b EXCEPT !.tokens = Min({Capacity[d], @ + n}),
                             !.spilled = @ + Max({0, b.tokens + n - Capacity[d]})]

refill(d, b) == [Credit(d, b, now - b.lastRefillAt) EXCEPT !.lastRefillAt = now]

forceTake(d, b, n) == [refill(d, b) EXCEPT !.tokens = @ - n]
refund(d, b, n) == Credit(d, refill(d, b), n)
penalizeBucket(b, until) == [b EXCEPT !.penaltyUntil = Max({@, until})]

\* c's place in a queue, closed up.
splice(q, c) == RemoveAt(q, CHOOSE i \in DOMAIN q : q[i] = c)
remove(b, c) == [b EXCEPT !.queue = splice(@, c)]

\* What the first k waiters need.
Owed(d, b, k) == SumFunctionOnSet([i \in DOMAIN b.queue |-> Need(d, b.queue[i])], 1..k)

\* How many waiters reschedule pays: in order, while the tokens last and no
\* penalty is in force ...
served(d, b) ==
    IF now < b.penaltyUntil THEN 0
    ELSE Cardinality({k \in DOMAIN b.queue : Owed(d, b, k) <= refill(d, b).tokens})

\* Mutant: the timer is only armed when none is.
rearmOnce(d, b) ==
    IF b.queue = <<>> \/ b.timer # NoTimer THEN b
    ELSE [b EXCEPT !.timer = Max({now, b.penaltyUntil, now + Need(d, Head(b.queue)) - b.tokens})]

\* ... and arms the timer for the instant the new head can be paid.
rearm(d, b) ==
    [b EXCEPT !.timer = IF b.queue = <<>> THEN NoTimer
                        ELSE Max({now, b.penaltyUntil, now + Need(d, Head(b.queue)) - b.tokens})]

reschedule(d, b) ==
    LET n == served(d, b)
    IN  rearm(d, [refill(d, b) EXCEPT !.tokens = @ - Owed(d, b, n),
                                      !.queue = SubSeq(@, n + 1, Len(@))])

-----------------------------------------------------------------------------
(* Steps on the buckets and the permits *)

\* The buckets in `changed` are rescheduled; those they pay are granted, and
\* the promises of `more` become what it says.
Reschedule(changed, more) ==
    LET paid == UNION {{changed[d].queue[i] : i \in 1..served(d, changed[d])} : d \in DOMAIN changed} IN
    /\ bucket' = [d \in Dim |-> IF d \in DOMAIN changed THEN reschedule(d, changed[d]) ELSE bucket[d]]
    /\ promise' = [c \in Caller |-> IF c \in paid THEN "granted"
                                    ELSE IF c \in DOMAIN more THEN more[c] ELSE promise[c]]

Becomes(c, what) == [z \in {c} |-> what]

\* Mutant: a caller is served at once although others wait.
takeAtOnce(c, d) ==
    LET b == refill(d, bucket[d]) IN
    /\ \/ /\ ~aborted[c] /\ b.tokens >= Need(d, c) /\ now >= b.penaltyUntil
          /\ bucket' = [bucket EXCEPT ![d] = [b EXCEPT !.tokens = @ - Need(d, c)]]
          /\ promise' = [promise EXCEPT ![c] = "granted"]
       \/ /\ ~aborted[c] /\ ~(b.tokens >= Need(d, c) /\ now >= b.penaltyUntil)
          /\ Reschedule(Becomes(d, [b EXCEPT !.queue = Append(@, c)]), Becomes(c, "waiting"))
    /\ UNCHANGED <<used, permitQueue>>

\* TokenBucket.take
take(c, d) ==
    LET b == refill(d, bucket[d])
        payable == b.tokens >= Need(d, c) /\ now >= b.penaltyUntil /\ b.queue = <<>>
    IN
    /\ \/ /\ aborted[c]
          /\ promise' = [promise EXCEPT ![c] = "failed"]
          /\ UNCHANGED bucket
       \/ /\ ~aborted[c] /\ payable
          /\ bucket' = [bucket EXCEPT ![d] = [b EXCEPT !.tokens = @ - Need(d, c)]]
          /\ promise' = [promise EXCEPT ![c] = "granted"]
       \/ /\ ~aborted[c] /\ ~payable /\ Len(b.queue) >= MaxQueued[d]
          /\ bucket' = [bucket EXCEPT ![d] = b]
          /\ promise' = [promise EXCEPT ![c] = "failed"]
       \/ /\ ~aborted[c] /\ ~payable /\ Len(b.queue) < MaxQueued[d]
          /\ Reschedule(Becomes(d, [b EXCEPT !.queue = Append(@, c)]), Becomes(c, "waiting"))
    /\ UNCHANGED <<used, permitQueue>>

\* Semaphore.acquire
takePermit(c) ==
    /\ \/ /\ aborted[c]
          /\ promise' = [promise EXCEPT ![c] = "failed"]
          /\ UNCHANGED <<used, permitQueue>>
       \/ /\ ~aborted[c] /\ used < Permits
          /\ used' = used + 1
          /\ promise' = [promise EXCEPT ![c] = "granted"]
          /\ UNCHANGED permitQueue
       \/ /\ ~aborted[c] /\ used >= Permits /\ Len(permitQueue) >= MaxQueued["permit"]
          /\ promise' = [promise EXCEPT ![c] = "failed"]
          /\ UNCHANGED <<used, permitQueue>>
       \/ /\ ~aborted[c] /\ used >= Permits /\ Len(permitQueue) < MaxQueued["permit"]
          /\ permitQueue' = Append(permitQueue, c)
          /\ promise' = [promise EXCEPT ![c] = "waiting"]
          /\ UNCHANGED used
    /\ UNCHANGED bucket

\* The waiter a released permit is handed to, without going back to the pool.
handed == IF Permits = 0 \/ permitQueue = <<>> THEN {} ELSE {Head(permitQueue)}

release ==
    /\ permitQueue' = IF handed = {} THEN permitQueue ELSE Tail(permitQueue)
    /\ used' = IF Permits > 0 /\ permitQueue = <<>> THEN used - 1 ELSE used

-----------------------------------------------------------------------------
(* acquire *)

Order == <<"idle", "rpm", "tpm", "permit", "leased">>

\* A limit that is not configured, or a call that costs nothing, has no stage.
HasStage(c, st) ==
    CASE st = "rpm" -> Capacity["rpm"] > 0
      [] st = "tpm" -> Capacity["tpm"] > 0 /\ Cost[c] > 0
      [] st = "permit" -> Permits > 0
      [] st = "leased" -> TRUE
      [] OTHER -> FALSE

Passed(st, other) == \E i, j \in DOMAIN Order : i < j /\ Order[i] = st /\ Order[j] = other

\* `next` is the stage c comes to after `st`.
Follows(c, st, next) ==
    /\ Passed(st, next) /\ HasStage(c, next)
    /\ \A other \in Range(Order) : Passed(st, other) /\ HasStage(c, other) => ~Passed(other, next)

Begin(c, st) ==
    /\ at' = [at EXCEPT ![c] = st]
    /\ \/ st \in Dim /\ take(c, st)
       \/ st = "permit" /\ takePermit(c)
       \/ /\ st = "leased"
          /\ promise' = [promise EXCEPT ![c] = "none"]
          /\ UNCHANGED <<bucket, used, permitQueue>>

acquire(c) ==
    /\ at[c] = "idle"
    /\ now + Wait[c] <= MaxTime
    /\ deadlineAt' = [deadlineAt EXCEPT ![c] = now + Wait[c]]
    /\ \E next \in Range(Order) : Follows(c, "idle", next) /\ Begin(c, next)
    /\ UNCHANGED <<now, aborted, charged>>

\* The promise of a stage resolved: on to the next, or the lease.
proceed(c) ==
    /\ at[c] \in Stage /\ promise[c] = "granted"
    /\ \E next \in Range(Order) : Follows(c, at[c], next) /\ Begin(c, next)
    /\ UNCHANGED <<now, deadlineAt, aborted, charged>>

\* The buckets c has taken from, each with its take given back.
Refunds(c, stages) == [d \in stages |-> refund(d, bucket[d], Need(d, c))]

Took(c) == {d \in Dim : Passed(d, at[c]) /\ HasStage(c, d)}

\* The promise of a stage rejected: what the earlier ones took goes back.
refuse(c) ==
    /\ at[c] \in Stage /\ promise[c] = "failed"
    /\ at' = [at EXCEPT ![c] = "refused"]
    /\ Reschedule(Refunds(c, Took(c)), Becomes(c, "none"))
    /\ UNCHANGED <<now, used, permitQueue, deadlineAt, aborted, charged>>

\* Mutant: a waiter that gives up stays in the queue.
giveUpInLine(c) ==
    /\ promise[c] = "waiting"
    /\ promise' = [promise EXCEPT ![c] = "failed"]
    /\ UNCHANGED <<bucket, used, permitQueue>>

\* A waiter that gives up leaves the queue.
giveUp(c) ==
    /\ promise[c] = "waiting"
    /\ \/ /\ at[c] \in Dim
          /\ Reschedule(Becomes(at[c], remove(bucket[at[c]], c)), Becomes(c, "failed"))
          /\ UNCHANGED permitQueue
       \/ /\ at[c] = "permit"
          /\ permitQueue' = splice(permitQueue, c)
          /\ promise' = [promise EXCEPT ![c] = "failed"]
          /\ UNCHANGED bucket
    /\ UNCHANGED used

\* Mutant: only the buckets' queues have a deadline.
deadlineOnlyInBuckets(c) ==
    /\ now >= deadlineAt[c] /\ at[c] # "permit"
    /\ giveUp(c)
    /\ UNCHANGED <<now, at, deadlineAt, aborted, charged>>

\* The deadline of c's stage: the one deadline of the whole acquire.
deadline(c) ==
    /\ now >= deadlineAt[c]
    /\ giveUp(c)
    /\ UNCHANGED <<now, at, deadlineAt, aborted, charged>>

\* The caller's signal: a waiter leaves, and a later stage does not begin.
abort(c) ==
    /\ at[c] \in Stage /\ ~aborted[c]
    /\ aborted' = [aborted EXCEPT ![c] = TRUE]
    /\ giveUp(c) \/ (promise[c] # "waiting" /\ UNCHANGED <<bucket, promise, used, permitQueue>>)
    /\ UNCHANGED <<now, at, deadlineAt, charged>>

-----------------------------------------------------------------------------
(* The lease *)

\* Mutant: the overrun is measured from the cost that was asked for.
settleFromAsk(c, actual) ==
    /\ at[c] = "leased"
    /\ at' = [at EXCEPT ![c] = "settled"]
    /\ charged' = [charged EXCEPT ![c] = Max({Need("tpm", c), actual})]
    /\ release
    /\ Reschedule(IF Capacity["tpm"] > 0 /\ actual > Cost[c]
                  THEN Becomes("tpm", forceTake("tpm", bucket["tpm"], actual - Cost[c])) ELSE <<>>,
                  [z \in handed |-> "granted"])
    /\ UNCHANGED <<now, deadlineAt, aborted>>

\* The call reached the provider: what it used beyond the reservation is
\* charged, nothing is given back, and the permit is released.
settle(c, actual) ==
    /\ at[c] = "leased"
    /\ at' = [at EXCEPT ![c] = "settled"]
    /\ charged' = [charged EXCEPT ![c] = Max({Need("tpm", c), actual})]
    /\ release
    /\ Reschedule(IF Capacity["tpm"] > 0 /\ actual > Need("tpm", c)
                  THEN Becomes("tpm", forceTake("tpm", bucket["tpm"], actual - Need("tpm", c)))
                  ELSE <<>>,
                  [z \in handed |-> "granted"])
    /\ UNCHANGED <<now, deadlineAt, aborted>>

\* The call never left the process: everything goes back.
abandon(c) ==
    /\ at[c] = "leased"
    /\ at' = [at EXCEPT ![c] = "abandoned"]
    /\ release
    /\ Reschedule(Refunds(c, {d \in Dim : HasStage(c, d)}), [z \in handed |-> "granted"])
    /\ UNCHANGED <<now, deadlineAt, aborted, charged>>

\* The provider refused the call for rate: both buckets are given a floor that
\* only ever moves later.  The lease is closed in a step of its own, after this
\* one or, a socket that had closed, before it.
penalize(c, hold) ==
    LET floored == {d \in Dim : Capacity[d] > 0 /\ now + hold > bucket[d].penaltyUntil} IN
    /\ at[c] \in {"leased", "settled"}
    /\ Reschedule([d \in floored |-> penalizeBucket(bucket[d], now + hold)], <<>>)
    /\ UNCHANGED <<now, used, permitQueue, at, deadlineAt, aborted, charged>>

-----------------------------------------------------------------------------
(* Time *)

\* The bucket's timer.
fire(d) ==
    /\ bucket[d].timer # NoTimer /\ now >= bucket[d].timer
    /\ Reschedule(Becomes(d, bucket[d]), <<>>)
    /\ UNCHANGED <<now, used, permitQueue, at, deadlineAt, aborted, charged>>

Tick ==
    /\ now < MaxTime
    /\ now' = now + 1
    /\ UNCHANGED <<bucket, used, permitQueue, at, promise, deadlineAt, aborted, charged>>

Step(c) == acquire(c) \/ proceed(c) \/ refuse(c) \/ deadline(c)

Next ==
    \/ Tick
    \/ \E d \in Dim : fire(d)
    \/ \E c \in Caller :
          \/ Step(c) \/ abort(c) \/ abandon(c)
          \/ \E actual \in {0, Cost[c] + Overrun[c]} : settle(c, actual)
          \/ \E hold \in Penalties : penalize(c, hold)

\* Time passes and the deadlines fire.  Nothing makes a call end, and the
\* buckets' timers are not needed.
Fairness == WF_vars(Tick) /\ \A c \in Caller : WF_vars(deadline(c))

Spec == Init /\ [][Next]_vars /\ Fairness

-----------------------------------------------------------------------------
(* Safety *)

\* What c took of dimension d and did not give back.
Holds(d, c) == Passed(d, at[c]) \/ (at[c] = d /\ promise[c] = "granted")

\* What c holds, or has spent, of dimension d.
Charge(d, c) ==
    IF at[c] = "settled" THEN IF d = "rpm" THEN 1 ELSE charged[c]
    ELSE IF HasStage(c, d) /\ Holds(d, c) THEN Need(d, c) ELSE 0

(* The books of a bucket balance at every instant, over every refund, overrun
   and clamp: what it has and what calls hold or spent is what it started with
   and gained since.  So it never admits more than the provider's budget, and
   a caller that was refused, or whose call never left, was charged nothing. *)
BooksBalance ==
    \A d \in Dim : Capacity[d] > 0 =>
        /\ bucket[d].tokens <= Capacity[d]
        /\ bucket[d].tokens + SumFunction([c \in Caller |-> Charge(d, c)]) + bucket[d].spilled
               = Capacity[d] + bucket[d].lastRefillAt

HasPermit(c) == (at[c] = "permit" /\ promise[c] = "granted") \/ at[c] = "leased"

Queue(st) == IF st = "permit" THEN permitQueue ELSE bucket[st].queue

(* Every permit in use is in the hands of a live call: none is lost to a
   waiter that gave up, none is handed back twice.  For that every queue holds
   the callers that wait in it, once each, and no dead one. *)
PermitsExact ==
    /\ Permits > 0 => used = Cardinality({c \in Caller : HasPermit(c)})
    /\ \A st \in Stage :
           /\ Range(Queue(st)) = {c \in Caller : at[c] = st /\ promise[c] = "waiting"}
           /\ IsInjective(Queue(st))

(* A bucket with a queue has a timer, due no later than its head can be paid:
   no waiter sleeps beside the tokens it needs. *)
HeadHasTimer ==
    \A d \in Dim : bucket[d].queue # <<>> =>
        LET b == bucket[d]
            short == Need(d, Head(b.queue)) - b.tokens
        IN  /\ b.timer # NoTimer
            /\ b.timer <= Max({b.penaltyUntil, b.lastRefillAt + short, b.lastRefillAt})

(* First come, first served: a caller gets a stage only when everyone who was
   waiting there before is served too. *)
NoOvertaking ==
    [][\A c \in Caller, st \in Stage :
           at'[c] = st /\ promise'[c] = "granted" /\ ~(at[c] = st /\ promise[c] = "granted") =>
               \A e \in Caller \ {c} :
                   /\ e \in Range(Queue(st)) /\ e \in Range(Queue(st)')
                   => \E i, j \in DOMAIN Queue(st) :
                         i < j /\ Queue(st)[i] = c /\ Queue(st)[j] = e]_vars

(* Liveness *)

(* No caller waits for ever, for tokens or for a permit, whether or not any
   call ends or any bucket is ever refilled. *)
WaitsEnd == \A c \in Caller : promise[c] = "waiting" ~> promise[c] # "waiting"

-----------------------------------------------------------------------------
(* What a doc says and the code does not do *)

(* "A refusal requires a grant, and grants are gated while the floor holds"
   (docs/plans/rate-limiting-policy.md): no lease is given during a penalty. *)
NoLeaseInPenalty ==
    [][\A c \in Caller : at[c] # "leased" /\ at'[c] = "leased" =>
           \A d \in Dim : now >= bucket[d].penaltyUntil]_vars
=============================================================================
