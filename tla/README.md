# Verification of the voice order backend

TLA+ models of the concurrent core of the backend, TLC configurations that check them on small instances,
and TLAPS proofs of the properties that matter most. Paths below are relative to the repository's `src/`
directory of TypeScript sources.

1. [The system](#1-the-system)
2. [Modules](#2-modules)
3. [Runs, bounds and what they show](#3-runs-bounds-and-what-they-show)
4. [Fairness](#4-fairness)
5. [Proofs](#5-proofs)
6. [Where the code disagrees with its own words](#6-where-the-code-disagrees-with-its-own-words)
7. [What is not modelled](#7-what-is-not-modelled)
8. [Plan](#8-plan)
9. [How to run it](#9-how-to-run-it)

## 1. The system

A tablet at a restaurant table opens a WebSocket, streams the customer's voice, and shows a cart that
several devices may share. One Node process serves many sockets. It is single-threaded, so its concurrency
is that of promises: between two `await`s a handler runs alone, at an `await` anything else may run.

```
 socket ─ voice.* ─▶ VoiceMessageHandler ──▶ AssemblyAI stream          (lease of a rate limiter)
   ▲                        │ stt.final_transcript.received
   │                        ▼
   │              OrderUnderstandingService ─ queue per cart ─▶ LangGraph: classify, load cart,
   │                        │                                   agent ⇄ tools, finalize
   │      order.reply       │ order.operations_proposed
   │   voice.session_failed ▼
   │                  CartController ─ lock per cart ─▶ Redis (cart, ledger, indexes), Odoo
   │                        │ cart.updated, cart.operation_rejected
   └── RealtimeGateway ◀────┘                                  (lease of a rate limiter)
         └─▶ TtsService ─▶ Cartesia

 agent's tools ── search_menu ─▶ MenuService ─▶ Jina, Postgres (pgvector, Odoo's tables)
              └─ propose_cart ─▶ required modifiers

 HTTP ── POST confirm, GET orders ─▶ CartController        GET image ─▶ HttpOdooImageClient ─▶ Odoo
```

All arrows with an event name go through `events/event-bus.ts`, a synchronous emitter: the listeners run
inside the emitting step, in the order they subscribed. None of the event handlers that start asynchronous
work is awaited by the emitter.

| component | state | operations | what is hard about it | what makes it correct |
|---|---|---|---|---|
| per-key lock, `shared/async-lock.ts` | `tails`: key → last promise | `run` | joining between a settlement and the clean-up of the map; a section that rejects | exclusion, arrival order, no key left behind, everyone is served |
| Cart Module, `cart/`, `redis/cart-cache.ts` | in Redis: cart, ledger of request ids, device and table indexes; in Odoo: the order | `ensureCart`, `applyProposal`, `confirm` | replay, two devices, a failure or a lost reply at any of the awaits, restart, edit against confirmation | exactly once, no lost update, confirmed carts frozen, identity set once, indexes exact, the customer told the truth |
| voice sessions, `voice/`, `stt/` | session per socket with two timers; provider stream; permit | start, chunk, stop, disconnect; partial, final, error, close; idle and grace timer | everything may happen during the handshake and the flush; restart on one socket | no stranded permit, no ghost stop, one end per session, audio in order, no transcript of a dead session |
| rate limiter, `ratelimit/` | two token buckets with queue, timer and penalty; a semaphore with queue | acquire (three stages), settle, abandon, penalize | deadline and abort against hand-over; refunds after a late stage fails; one timer for a queue | the books balance, permits exact, no overtaking, every wait ends |
| limiter registry, `ratelimit/registry.ts` | quota → limiter | get | call sites in any order, with disagreeing limits | one budget per quota, disagreement reported |
| provider calls, `menu/jina-*`, `llm/openai-*`, `tts/cartesia-*` | per call: attempt, status seen, header kept by the SDK | send, retry, back off, time out, classify the failure | a refusal followed by a network failure; headers of every form | what the provider counted stays charged, what never left is refunded, refusals are honoured |
| order turns, `ordering/` | a checkpoint per cart (history and the channels of a turn); the queue | node by node; tools; outcome | channels that survive a turn or a throw; two tool calls in one answer; the next turn against the cart's commit | the outcome is this turn's own; commits in the order spoken; answers are heard; no turn runs into the recursion limit |
| required modifiers, `ordering/tools/required-modifiers.ts` | none (a pure check) | check a batch | the view it uses is older than the cart it protects | a batch that passes leaves no group short or over-full, unless somebody else changed that very group meanwhile |
| menu search, `menu/menu-service.ts`, `candidate-matcher.ts`, `postgres-menu-store.ts` | none; Postgres is read at every call | `search_menu`: retrieve by vector and by word, hydrate, score, filter, order, cut | a row per language and product, two cuts and two orders; each of the queries may fail and the menu change between them | the answer is the best of all the queries returned, on sale, in the price window, each once |
| HTTP API and process, `api/`, `odoo/odoo-image-client.ts`, `app.ts`, `server.ts` | a response per request; an upstream connection and a buffer per image; the connections | confirm, past orders, image; boot, signal, shutdown | handlers nobody awaits; an index that expires while its carts do not; a client that hangs up; Redis closed under a handler | confirmed orders are listed, the proxy is bounded, every request ends |
| gateway and speech, `realtime/`, `tts/tts-service.ts` | registry by session and by cart, liveness of sockets, abort handle per session | connect, disconnect, heartbeat, resume, broadcast, speak | the old and the new socket of one session overlap; barge-in | registry exact, no cart missed, no overlapping audio, dead sockets go |

The hazards behind the last two columns are listed one by one, each at its line, in `PROJECT.json`.

## 2. Modules

Every operator keeps the name of the function it models where it has one. An `await` is a point between two
actions; what runs between two awaits is one action. History variables (what a caller was told, what the
kitchen received) are marked as such at their declaration.

**`FifoMutex`** is the lock as it is meant: a call queues behind the calls of its key that are present
(`Queue`), enters when none is ahead (`Enter`), leaves (`Leave`); `Restart` empties it. **`KeyedLock`** is `KeyedAsyncLock.run` as the promise chain it builds: `tails` is the map,
`run(c)` links a call to the tail it found, `Start` is the microtask that calls `fn`, `Return` ends it
(resolved or rejected, `then(fn, fn)` makes no difference), `Settle` is the tail's promise, `Sweep` the
clean-up that deletes the entry if it is still the newest. `Mutex == INSTANCE FifoMutex WITH ...` maps one to
the other, and `ImplementsMutex` is checked and proved.

**`CartOperations`** is `applyOperation`: add, remove, quantity, modifiers, on lines that carry quantity and
modifiers. **`CartController`** extends it with the Cart Module. Each call of `ensureCart`, `applyProposal`
or `confirm` arrives at the lock, and then passes its awaits: read, check the ledger, operations (the menu may
be down), quote, commit, mark, insert, set. Redis is `store` (cart
blobs), `ledger`, `deviceIndex` and `tableIndex`, written together by `Persist` (the Lua script of
`cart-repository.ts`); Odoo is `kitchen`. Each await may succeed, fail without
effect, or take effect and lose its reply; `Restart` ends the process, its calls and its lock, and leaves
Redis and Odoo. The lock is that of `FifoMutex` (a queue per cart), which `KeyedLock` implements.
**`AtomicCart`** is what the Cart Module promises: one atomic step per request. `ImplementsAtomicCart`
checks the mapping.

**`VoiceSessions`** models one socket: `session[s]` is the `VoiceSession` of the s-th `voice.start`,
`stream[s]` the provider's side with its lease, `at[s]` the await `handleStart` or `stopSession` stands at.
The SDK of the provider is external: connect succeeds, fails or is refused; partials, finals, errors and
closes come whenever the socket is open, and an error may come without a close.

**`RateLimiter`** has the buckets `rpm` and `tpm`, the semaphore and the callers, each at one of the stages
of `acquire`. Time is a counter of ticks, a bucket gets one token a tick, deadlines and the penalty are
instants; `reschedule` is one operator, as in the code, and every operation that changes a bucket ends in
it. `penalize` only floors the buckets: the lease, if there still is one, is given back in a step of its own.
**`LimiterRegistry`** models `get` for any configuration of keys and limits, which `Init` leaves open. The identity of
a quota is the string the code builds: provider, base URL, key and model, joined by a `|`. That no part holds a `|` is an
assumption (`KeyAssumption`); with one, two quotas could share an identity.
**`ProviderCalls`** puts the three adapters on one limiter, reduced to what the calls do to it: what was
reserved, what came back, until when a penalty holds. The answers of the provider are statuses, network
errors with a chain of causes, and headers of each form `retry-after.ts` reads: a delay, the three dates of RFC 7231
(as what the clock they were written by shows, with the zone named or not), and texts that `Date.parse` would take for
a date or cannot take for one. `demands` is history: until when the provider, by the RFC, asked to be left alone. Wall
clock and monotonic clock are one.

**`OrderTurns`** has the queue of utterances, the graph (`normalize`, `classify`, `load_cart`, `agent`,
`tools`, `finalize`) over the channels of the checkpoint, with the reducers of `state.ts`, the tools node over
batches of tool calls, and the dispatch of the outcome; the proposals it emits queue for the Cart Module,
which applies them one by one at some later time. **`RequiredModifiers`** has the simulation of the check
beside the batch the cart applies: `buildCartView(t)` is what turn t sees of lines and menu, `propose_cart(t)` the
check, `commitBatch(t)` the cart's turn, operation by operation, each with the options and the answer about the item it
reads for itself, `menuChanges` the back office in between. A key is any of `ModifierKey`, an option of the product or not.

**`MenuSearch`** is the other tool, `search_menu`. `step` is the query it waits for: `popularity`, `embed`,
`retrieve` (both retrievals), `itemRows` and `modRows` (hydration); each may fail as the code lets it, to no
hits, to the scan of the menu or to a tool error, and `backOffice` takes products off sale meanwhile. `knnOne`
is a page of rows: the nearest among those the scan of the index came to, as the index is approximate (`Missed` has the sets of rows a
scan may not come to). `knnSearch` cuts to products, `rank` scores, filters and cuts, `rerank` orders by sales and cuts. The stable sorts
of the code are sorts by a total order (`byScore`, `bySales`, and `byId`, as products are read): what ties keeps its place.
Similarities are attributes of the dishes; the SQL order of ties is left open. `BestOfReachable` says what it is
all for without going through best rows, scores per phrase or cuts: of the products on the pages the nearest K are looked at, and of
those and the ones found by a word, repeatedly the best of what is left. Which rows are on a page is for the index to say, and nothing is claimed of
a product none of whose rows is: neither of one its scan missed nor of one that was off the page because a nearer product has
more names than `Overfetch` allows for.

**`ImageProxy`** is the image route: head and body of Odoo's answer, the cap, the abort when the response closes
and the timeout. **`HttpApi`** extends it with the other routes, each at the await `at[r]` of its handler, and with
the process: `start`, `stop` once per signal, `closeRedisClient`, `closePgPool`. Carts are `blob` (absent, draft,
confirmed) and the device index; the commits of the Cart Module are `commit`, taken together as the
atomic steps they are, and `expire` is Redis dropping an index. The confirm route takes the cart's lock.
A request that comes on a connection another one keeps open is taken also after `close()` (`Connected`).

**`Gateway`** has the sockets of one cart with the heartbeat, the registry, the snapshots a client asks for (any number
at once, each read when it is asked for and sent when its answer comes), the broadcasts, and the stream of each spoken reply.
A `connection.resume` names its cart itself; one for another cart than the socket's is not about the state of this model.

How they fit together: `CartController` uses the lock that `KeyedLock` is proved to implement, and so does the
queue of `OrderTurns`. `OrderTurns` and `RequiredModifiers` see the Cart Module as the queue of atomic steps that
`AtomicCart` describes. `Gateway` takes from `CartController` that the versions of a cart are announced one by
one after they are stored (`BroadcastInOrder`). `VoiceSessions` and `ProviderCalls` take from `RateLimiter` a
lease that is granted or refused and given back at most once. `HttpApi` takes the commits of `CartController` as
one step each, and the lock as held or not; a failed step of `MenuSearch` is a tool error of `OrderTurns`.
`MCAgentTools` and `MCApp` put components side by side: `MCAgentTools` has the two tools, of which a behaviour
calls one; `MCApp` is the life of the process, first the registration of the limiters, then the routes.

## 3. Runs, bounds and what they show

`MC<module>.tla` instantiates a module, `MC<module>.cfg` gives the constants. A **pass** run is explored
completely. Deadlock is not checked: every module has finite behaviours (each call, turn or socket is used
once), so a state without a successor is the normal end; that nothing stops too early is what the liveness
properties say.

| run | instance | distinct states | shows |
|---|---|---|---|
| `keyed_lock` | 3 calls on one cart, 1 on another | 9 k | no leaked key (`NoTailLeak`), every call runs, the chain implements the mutex |
| `cart` | two devices join one cart; a request, its replay, a second request that edits the line of the first, a confirm; 1 restart | 630 k | exactly once (`LedgerExact`), no lost update, honest answers, the kitchen has what was confirmed, confirmed carts frozen, identity set once (`StoredCartKept`) and missing only after a failure that was logged (`HonestAnswers`), indexes exact, broadcasts in order, one atomic step per request (`ImplementsAtomicCart`) |
| `voice_sessions` | 2 sessions on a socket, 1 permit, room for 1 pending chunk; 2 chunks in one session, 2 finals in the other, either may replace the other | 240 k | leases exact, audio in order, no stray idle timer, one ending and finals only of the current session (`OneTurnAtATime`), the grace window decides and a drop before any final is told (`NobodyLeftWaiting`) |
| `rate_limiter` | 3 callers, both buckets of 2, one ask of 3, 1 permit, queues of 2 and 1, a penalty while a lease is held or after | 435 k | books balance, permits exact, a timer for every head, no overtaking, every wait ends |
| `app` | 3 sites, 5 quotas, 3 sets of limits; then 3 requests (a confirm, a list, and one of any kind), 2 carts of which one has no device, an image of 3 units in chunks of up to 2, 1 signal | 154 k | one budget per quota; confirmed orders are listed unless the index expired; the image proxy bounded; every request ends |
| `provider_calls` | two embedding calls, two LLM calls, or an LLM call and a synthesis, with 1 retry each; a status of every kind, every failure, 6 headers, a host 3 units from GMT | 1604 k | charges and refunds (`ChargedIfCounted`), no grant before the time a refusal asked for (`RefusalIsHonoured`), calls end by their own timers |
| `order_turns` | 2 turns, 2 agent steps, batches of 2 tool calls | 172 k | nothing of a turn leaks into the next, answers pass the junk gate, commits in the order spoken, no turn runs into the recursion limit |
| `agent_tools` | 2 turns on a cart with one line: 5 batches in the first, in the second every batch of up to 2 operations and every swap of 3, with keys that are no option; an option and an extra that may be withdrawn and an item that may go off sale at any point; or 6 menus of 3 of 8 dishes under 34 kinds of search, with 2 phrases and 3 sets of rows the index misses | 1195 k | a batch that passes leaves whole what nobody else changed; nobody is asked without a reason; a search answers the best of all that its queries returned |
| `gateway` | 2 sockets of a session; 2 versions of the cart, or 2 replies of up to 2 segments | 362 k | registry exact, nothing missed, the abort handle is right, no overlapping audio, dead sockets go |

Why the bounds are enough. The interesting cases are of two kinds. *Pairs*: a call and its replay, two
devices, two sessions on a socket, two sockets of a session, a turn and the next, a caller and the head of
the queue. Two of a kind reach them; the lock and the limiter's queues have three, so that someone is in the
middle, and `keyed_lock` has a second key to show that keys do not interfere. *Limits*: the queue, the bucket,
the pending audio, the number of attempts, all of which are made so small that being full, one short and one
over occur. The real values (256 waiters, 4000 ms of grace, 60 000 ms of idle, 3 retries) differ only in how
long it takes to get there. `WithinRecursionLimit` bounds the supersteps of a turn by `2 * maxAgentSteps + 5`;
with the code's 8 steps that is 21 of the 25 supersteps LangGraph allows. `MaxFinals`, `MaxChunks`,
`Loads`, `Replies`, `MaxTime`, `MaxClock`, `MaxRestarts`, `MaxChunk` (of an image) and `MaxSignals` are bounds of
the models, not of the code. In `agent_tools` the code's limits are scaled down together (`K`, `Overfetch` and
`MaxCandidates` 2, `LexicalLimit` 1) so that three products overflow each; the eight dishes have
three, two, one or no names in the index (three are more than `Overfetch`), a name that is near or only contains a word, a fitting option,
sales of every sign, and one is off sale; the eighth ties with two others, in a row each and in sales. The two turns are those of the pair
above: the second has read lines and options that the batch of the first, or the menu, then changes. In `app`, the five
quotas differ in one part, or in which part a string stands in, so that parts that were run together would be confused.
`MCServe` starts from one configuration of the limiters, as the routes do not depend on it.

The runs whose names are not in the table are those of section 6, in which TLC must find a violation.

Every property of a passing run has a mutant: a plausible bug, written next to the definition it spoils and
marked `Mutant:`, under which TLC finds that property violated. The mutants are not part of any specification.

`FifoMutex` has no run of its own: `CartController` and `OrderTurns` contain an instance of it, and that it excludes
is proved (`LockExcludes`). Each module has one `TypeOK` (`ModifiersTypeOK` in `RequiredModifiers`). Those of the
modules section 5 lists are proved (`TypeCorrect`, `ModifiersTypeCorrect`, or as a part of the inductive invariant);
that of `MenuSearch` holds when it is added to the configuration, and what its proof needs of it is in `SearchInv`.

## 4. Fairness

Weak fairness only, and only for what the process does by itself.

- `KeyedLock`: microtasks run, and the section a call runs returns (`Start`, `Return`, `Settle`, `Sweep`).
- `CartController`: a call that is at an await or may take the lock goes on (`Work(c)`): Redis, Odoo and the
  menu answer or fail. Arrivals and restarts are not fair.
- `VoiceSessions`: an await of a session comes back, and armed timers fire. Nothing the customer or the provider
  may choose to do is fair.
- `RateLimiter`: time passes and deadlines fire, no more. Callers need not give anything back and buckets need
  not wake anyone, and `WaitsEnd` holds nevertheless.
- `ProviderCalls`: time passes, a granted call is sent, client-side timers fire. The provider need never answer. The
  timer of the body of an LLM's answer is not the configured one, which its SDK clears once the headers are there, but
  the one of `fetch` itself (`bodyTimeout`, external).
- `OrderTurns`: the graph goes on (`Graph`) and a queued proposal is applied. Customers need not speak.
- `HttpApi`: a handler that was called goes on (`Serve`): Redis and Odoo answer or fail, the fetch of an image has
  a timeout of 10 s. Neither requests nor signals, hang-ups, the boot or the steps of a shutdown are fair.
- `Gateway`: the heartbeat runs, a terminated socket gets its `close`, a synthesis returns or is timed out.

`Work`, `Await`, `Graph` and `Serve` stand for promises of library calls that end: an Odoo call has a timeout of 10 s, a
Redis command is rejected after the client's default number of reconnections, the LLM client has a request
timeout. A Redis server that keeps the connection and never answers would hold its cart for ever; the source
sets no command timeout, and the liveness results do not speak of that case.

## 5. Proofs

TLAPS checks these for every set of calls, keys, carts, requests, devices, callers, sessions and sockets, and for
every value of the limits and bounds.

- **`KeyedLockProofs`**, `Exclusion`, `ServedInOrder`, `TailsAreExact` and `Refinement`. The inductive invariant says
  what the chain looks like: calls are numbered in arrival order; the tail of a key is its latest call, and a key
  without a tail is at rest; a call chained on the call just before it, or all before it were settled; once a
  call has started, all before it are settled. From it, every step of the chain is a step of `FifoMutex` or a
  stutter. `TailsAreExact` adds (`SweptInv`) that a tail which is still in the map has not run its clean-up.
- **`CartProofs`**. `LockExcludes`: that two calls of a cart are not inside its lock at once is not inductive.
  `Lock!Ordered` is: of two calls of a cart in the lock one is ahead of the other, and nothing is ahead of a call
  that runs. Two that ran at once would contradict it. `TypeCorrect`, `ExactlyOnce`, `ConfirmationLock`, `IdentitySetOnce`, `StoredCartIsKept` (the two
  together), `IndexesExact`. The strengthening (`CallInv`) relates what a call has read and computed to what is
  stored: while a call is inside the lock (`Lock!Ordered`) nobody else writes its cart, so what it read still holds
  when it writes. `ExactlyOnce` needs that a call past the ledger check belongs to a request not yet marked; the
  confirmation lock, that a call about to commit holds the stored cart, not confirmed, with lines of its own and one
  version more; the identity, that a call about to create read no cart. From the same facts every step keeps the
  indexes exact.
  `NoUpdateIsLost`, `KitchenIsTold` and `BroadcastsInOrder` add `CartsInv`: the version of a cart is the number of its
  requests that are marked applied, what was announced is no newer than what is stored and older than what a call
  that has just committed will announce, and the kitchen has every line of a confirmed cart from before it was stamped. `AnswersAreHonest` adds `AnswersInv`, what the
  calls that left have said; it stays true because marks and confirmations are never taken back.
  `RefinesAtomicCart`: the four actions that write Redis (`commitCreated`, `commitApplied`, `markProcessed`, `Stamp`) are
  the four steps of `AtomicCart`; every other one, the failures and the restart with them, is a stutter.
- **`VoiceProofs`**, `TypeCorrect`, `LeasesAreExact`, `IdleTimersAreLive`, `OneTurnOnly`, `AudioIsInOrder`. From its
  `voice.start` on, a session is retired exactly when it is not the current one (`Reached`), and what it holds follows
  the await it is at (`Placed`, `Leased`): a socket that opens belongs to the handshake, one that is open to an
  attached stream, one being flushed closes. `stopping` is never taken back, so a session ends once (`Stopped`). For
  the audio, what was sent and what is kept is together a rising run that starts with the first chunk, unless that was
  lost with its socket (`Heard`).
- **`RateLimiterProofs`**, `TypeCorrect`, `PermitsAreExact`, `HeadsAreTimed`, `BooksAlwaysBalance`, `NobodyOvertakes`.
  Every action prepares some buckets (`Ready`) and hands them to `Reschedule`, or leaves every queue alone, so one
  lemma about `Reschedule` serves all: it pays a prefix of the queue (`PayQueue`), charges those it pays what the
  bucket loses (`RescheduleCharges`), and times the new head (`ReschedulePays`). `IInv` needs besides that a caller
  has a promise exactly in a stage that is configured (`Staged`: a refund is of what was taken), and that callers queue
  for a permit only when all are out (`FullPool`: a hand-over leaves the count alone). The books are a sum over all
  callers; `SumRecursion` and the lemmas on it prove that such sums behave, from `SmallestSet`: among sets on which
  a claim about sums fails there would be a smallest, and it does not fail there.
- **`GatewayProofs`**, `TypeCorrect`, `RegistryIsExact`, `NothingIsMissed`, `InflightIsExact`, `RepliesDoNotOverlap`.
  Three parts that share the connections. `Sockets`: what is found under a session belongs to that session, so a late
  close takes no other's entry. `Carts`: a client without a cart has a snapshot in flight that is as new as what was
  announced, since whatever was announced since it subscribed reached it. `Spoken`: replies begin in the order of
  their numbers, and one that may still speak is the one whose handle its session holds.
- **`AppProofs`**, on the two modules of `MCApp`. `Budgets` and `Disagreements`: the invariant says where every limiter
  comes from. An entry holds the limiter of a site of its own quota or the passthrough, and a site that registered
  holds the limiter of its quota's entry and was reported if its limits are not the ones kept there.
  That two keys with one identity are one key is proved of the joined string, splitting it at its first bar, three times
  (`JoinSplits`, `IdentityIsKey`).
  `ProxyIsBounded` and `ConfirmedIsListed`: the invariant places every request: which await
  fits which route, and that an unanswered one has neither a status nor a list. A list owes, at each await in
  turn, carts that are in the index, then among the members read, then in the answer; they get there because the
  index of a device holds every cart committed since it last expired (`Indexed`), and stay because confirmed is
  final. The upstream connection exists only from the fetch of an image on, and a response closes with it.
- **`ProviderCallsProofs`**, `TypeCorrect`, `ChargesAreTrue`, `RefusalsAreHonoured`, `HoldOffsAreBounded`. Whether a
  reservation is refunded is decided by the one error a call ends with, several attempts after what it is about, so
  `CallInv` says what `post` has carried there: the status is set once a rejection was read to its end, and is not set
  while every attempt failed to connect. The lemmas on errors say what `reachedProvider` finds in a chain of causes no
  longer than it looks. `HeldBack` relates the floor of a limiter, which the code computes as a duration from whenever it
  reads the header, to the instants in `demands`: `HeaderIsRead` compares the two for each form of header, and `Owed` says
  that a header the SDK still keeps back will not be read as less by the time it is thrown (`HeaderKeeps`).
  `HoldOffsAreBounded` adds that a hold-off never shrinks and is never longer than the cap.
- **`AgentProofs`**, the turns. `TypeCorrect`, `OwnWords`, `RepliesAreAnswered`, `EndsInWords`, `SpokenOrder`.
  The invariant has a part for each reason. Turns run and leave in the order of their numbers, so at most one is in
  the graph (`TurnsInOrder`), and their proposals follow each other through the lock of the cart
  (`ProposalsInOrder`). Between two turns the history ends with what the latest one said (`AtRest`), which is why the
  junk gate lets the next utterance pass. What stands in the channels while a turn runs is its own, and which of them
  can be set follows the node it is at (`Running`); its supersteps are those of the node it is at and the agent steps
  before (`Counted`). What left keeps its own words (`Outcomes`). The calls of one answer are folded, one after the
  other, into the channels; that the result is the turn's own is proved by a set of good prefixes that contains the
  empty one and is closed under one call more.
- **`AgentProofs`**, the check. `ModifiersTypeCorrect`, `AppliedIsWhole`, `AsksForAReason`, for any number of turns, batches
  and lines of any length, and withdrawals at any point. The check runs over the view, which has lost the keys the menu no longer offers; the cart
  runs over the lines, skips what it must reject, reads the menu anew for each operation, and is judged by the menu it ends with. What they have in common, of a group g
  nobody else changed, is what is left of a line when only the options of g are kept (`Only(keys, OfGroup(M, g))`): after every operation of
  the batch that is the same sequence on both sides (`Follows`, `BatchFollows`), since no operation can have missed an option that is still offered
  at the end, an operation that is skipped or names no such option leaves it alone on both, and the count of g depends on nothing else (`CountSame`). The touched groups
  of the simulation are the groups the batch names (`TouchedAreNamed`), an added line is what its operation says
  (`BatchAdds`). So a batch that complies leaves the groups it is about whole (`CompliantIsWhole`), and one that does not, does not (`ViolationIsNot`).
  `ModInv` carries this to the moment the batch is applied: the menu only shrinks under a view, a batch that passed complies with the view, its added lines also with
  the menu in the groups that are as they were (`Checked`), and the lines a turn adds are not there before (`OwnLines`).
  No turn and no withdrawal is excluded: a line and group that somebody changed is one of which nothing is claimed, and section 6 has
  the counterexamples to claiming it. That `commitBatch` rejects, skips and half-applies is not assumed away but part of what is followed.
- **`AgentProofs`**, the search. `BestIsAnswered`, for any menu, arguments, bounds, failures and pages. `BestOfReachable`
  compares a choice of the best of what is left, again and again, with what two cuts and two sorts leave. The fold over the pages
  keeps the best row of every product that has one (`BestOfIs`), so what the cut leaves are the nearest K of those products with their
  similarities, whichever the database chose among ties (`RetrievedIs`). `SearchInv` carries
  that, past the back office, to the moment the rows are scored, and that what was wanted is what was read. Scores, and places among the bestsellers and in the
  list that is ordered again, are total orders (`RelevanceOrders`, `SalesOrder`); a total order sorts any finite set,
  each element at the place of the number of those before it (`OrderedSorts`), and the first `limit` of a sorted list
  of what is eligible is what `BestOfReachable` asks (`CutIsBest`). The filter comes before the cut and, by popularity, the whole list
  before its cut: that is where `matchLimit` enters. Nothing is supposed of ties, of the number of names or of the index.

The proofs rest on the assumptions named in the modules and on nothing else: functions such as `KeyOf` have the
domain and range their use implies, `None` and `Nothing` are no call, cart, device, author, socket or number, a request is
about one cart however often it is delivered, an option is a key the agent may name, the codes of an error that never
left are some and no reset is among them, a status has three digits, the cause of an error is looked for at least three
deep, as the adapters nest them, products are finitely many and numbered, the parts of a quota's key hold no `|`, and the callers of the limiter are finitely many, as calls in one process are (a sum over all of
them has to exist). Every capacity, number of permits, length of a queue, cost, overrun and wait of the limiter is any
natural number, zero included. The bounds of the models (`MaxTime` and the like) are parameters the theorems hold for whatever they are.
Mutual exclusion (`Exclusion`, `LockExcludes`), arrival order (`ServedInOrder`), the two halves of `StoredCartKept`, the
`TypeCorrect` theorems, `Disagreements` and `HoldOffsAreBounded` have no run of their own: the runs check
the stronger `ImplementsMutex` and `StoredCartKept`, and types are proved instead of checked where they can be.
`IInv` of the turns was checked as an invariant before it was proved, on two turns (172 k states) and on three with
smaller batches (40 k).

Induction over data needs an argument of its own, because the induction theorems of the library take an operator as a
parameter, which the provers cannot instantiate. Where a proof goes along a sequence, it goes by a *set* of good sequences
instead: it holds the empty one and, with each, every longer one, hence all (`SeqInduction`, from the least prefix that
would be missing). Recursion is by recursive functions throughout, which are unfolded once (`OnlyUnfolds`,
`LineStateUnfolds`, `CartUnfolds`) and used by their equations from there on.

What stays with TLC: liveness (`EveryCallRuns`, `NobodyLeftWaiting`, `WaitsEnd`, `RequestsEnd`, `CallEnds`,
`DeadSocketsGo`), which needs fairness and `ENABLED`, out of this prover's reach, so `Refinement` is of the safety
part of the mutex. Of every invariant and action property the passing runs check there is a theorem.

## 6. Where the code disagrees with its own words

Three runs end in a counterexample; `PROJECT.json` quotes the sentence and the line.

| run | what happens |
|---|---|
| `voice_ghost_error` | a session replaced during its flush arms a grace timer that later fails the live turn |
| `order_stale` | a turn may load the cart before the proposal of the turn before it is applied |
| `gateway_unreachable` | the close of an old socket removes the entry of the new one |

The other sentences of this kind that came up are stated in the last section of their module. TLC refutes each
when it takes the place of the properties of the module's configuration.

| module, definition | what happens, and what the source says |
|---|---|
| `CartController`, `EveryCartIdentified` | when `ensureCart` fails, the next proposal persists a cart without a device, for good; "guaranteed by the write path" (`src/cart/cart-types.ts:47`) |
| `CartController`, `ErrorMeansNothingPersisted` | the commit ran, its reply was lost: the customer hears `internal_error` although the edit is stored; "Nothing was persisted" (`src/cart/cart-controller.ts:117`) |
| `CartController`, `KitchenMakesTheCart`, with `Call <- RetryCalls` | Odoo took the order, the stamp was not stored: the cart can be edited and the kitchen never sees the edit; "nothing may change it" (`src/cart/cart-controller.ts:70`) |
| `VoiceSessions`, `StopWhileConnectingEnds` | a `voice.stop` during the handshake is forgotten; "Either one ends the *turn*" (`docs/customer-stop-detection.md:6`) |
| `VoiceSessions`, `FlushEnds` | a flush that rejects leaves the session neither ended nor failed; "the hard backstop" (`src/stt/assemblyai-stt-provider.ts:188`) |
| `VoiceSessions`, `DropIsHeard` | a drop during the second utterance of a session is silent; "emit voice.stt_failed, ask repeat" (`docs/design.md:690`) |
| `OrderTurns`, `ReplyConfirmsProposal` | of two proposals in one answer, the customer may hear the confirmation of the dropped one; "written by the SAME terminal `propose_cart`" (`src/ordering/order-graph.ts:128`) |
| `OrderTurns`, `CommitKeepsUtteranceOnly` | a proposal with a bundled confirmation is remembered as a spoken turn; "records only its utterance" (`src/ordering/graph/build-graph.ts:136`) |
| `RateLimiter`, `NoLeaseInPenalty` | a caller past the buckets gets its lease during a penalty; "grants are gated while the floor holds" (`docs/plans/rate-limiting-policy.md:167`) |
| `ProviderCalls`, `RefundOnlyUnsent` | a retry that cannot connect refunds an attempt that may have arrived, or that was answered with a 3xx, which the `catch` takes for a network failure since it lets only `jina_http_4*` out (`src/menu/jina-embedding-service.ts:141`); "only what provably never left this process" (`src/ratelimit/arrival.ts:13`) |
| `ProviderCalls`, `FailsFastOn4xx` | a terminal 4xx whose body breaks off is retried; "fail fast on 4xx" (`src/menu/jina-embedding-service.ts:107`) |
| `Gateway`, `ReplyIsFinished` | the close of an old socket cuts the reply spoken on the new one; "Per reply, the client receives ..." (`docs/text-to-speech.md:42`) |
| `MenuSearch`, `ScansWithoutIndex`, with `MCAgentTools.cfg` | when the vector index fails but the search by word has hits, only those are scored; "falls back to a fuzzy scan" (`src/menu/postgres-menu-store.ts:112`) |
| `HttpApi`, `ExitDrains`, with `MCApp.cfg` and `MaxSignals = 2` | a second signal finds no connection to close and exits at once; "`quit()` drains in-flight commands" (`src/redis/redis-client.ts:23`) |
| `RequiredModifiers`, `EveryBatchIsWhole`, with `MCAgentTools.cfg` and `Withdrawn = {}` | two turns each add a choice to one line: the second saw it before the first was applied, both pass the check, and a group of one has two; "the customer must pick EXACTLY ONE" (`src/ordering/tools/required-modifiers.ts:9`) |
| the same, with `Withdrawn = {b}` | an option is withdrawn after the check, or between two operations: half of a swap is applied |

Behaviour that is deliberate or harmless and that a reader may stumble over: a retry inside a lease goes out
during a penalty, since the lease was granted before it; a `Retry-After: 0` makes the embedding client's own
retry immediate; a handshake that fails after an error event is reported twice; `base_version` is only logged.

## 7. What is not modelled

- The event bus as a component (a synchronous call without state: every module takes an emit as a call of the
  listeners in the same step), prompts, tool descriptions, usage logs and estimates, environment parsing, schemas and wiring.
- In the menu: the single lookups of a product (they are the menu's answers in `CartController`), the popularity label,
  the embedder and the edit distance as functions of text, the in-memory store of the tests. Rows of a product without a
  template cannot be told from products that were never seeded.
- In the HTTP API: headers other than those that decide a status, request bodies of the Odoo client. The Odoo client's
  quote and insert are external operations of `CartController`.
- In the Cart Module: expiry of ledger keys, a stored blob that does not parse, amounts. The expiry of the device index and the
  read of past orders are in `HttpApi`; the table index has no reader.
- In the voice module: the no-op provider, transcripts as text (only whether a partial is new).
- In the order graph: the model's words. The agent may answer with any batch of the calls the code
  distinguishes; the cap on mentioned items is left out. LangGraph's limit of 25 supersteps is taken from the library.
- In the gateway: parsing, authentication (a stub in the source), the split into sentences. Clients are taken
  to ignore a cart older than the one they have, as the client contract asks.
- Two carts in one `OrderTurns` or `Gateway` instance: all of their state is per cart or per session.

## 8. Plan

Done: the lock and the Cart Module (model, refinement), voice sessions, rate limiter, registry, HTTP routes with boot
and shutdown, gateway, provider calls, order turns, required modifiers and menu search, with proofs of all the safety
properties their runs check.

Next, the model:

1. the expiry of the ledger, with the property that exactly-once holds for replays within it;
2. `VoiceSessions` composed with `Gateway` (a late close of an old socket and the live voice session);
3. two carts in `OrderTurns`, with the provider's limiter between their turns.

Next, the proofs:

1. `RateLimiter` and `ProviderCalls` under one specification: the lease of the second granted by the first.

## 9. How to run it

`tlc -config MCCartController.cfg MCCartController` checks one run, and likewise for every run listed in
`PROJECT.json`; each takes from seconds to a few minutes. `tlapm CartProofs.tla` checks a proof module.
