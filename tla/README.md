# A TLA+ model of claude-code-gateway

The gateway is one Go process. It takes Anthropic (`/v1/messages`) and OpenAI
(`/v1/chat/completions`) requests, chooses a chain of upstream providers for each, tries
their keys until one answers, and translates the answer back. This directory holds
TLA+ modules for its stateful parts, TLC runs over small instances of them, and TLAPS
proofs for every instance. `PROJECT.json` maps each definition to the lines it stands for.
Paths below are relative to `src/`.

## The system

| component | state | operations | talks to |
|---|---|---|---|
| key pool (`internal/provider/pool.go`) | per key: `coolUntil`, `softFails`; one rotation `idx`; a mutex | `Pick`, `ReportHint` | called by the attempt loop |
| provider (`provider.go`) | atomics `consecFails`, `openUntilUnix`, `inflight`; `latEMA` | `BeginRequest`, `EndRequest`, `NoteUpstream`, `IsOpen`, `Execute` | pool, upstream HTTP |
| registry (`registry.go`) | providers, rules, discovered models; generation context | `Resolve`, `Swap`, probe loops | providers; read by handlers |
| attempt loop (`server/handlers.go`, `handler_openai.go`) | per request: targets, `attemptsLeft`, `triedKeys` | the loop over targets and keys | all of the above, cache, budgets, log |
| response cache (`cache/cache.go`, `state_backend.go`) | map, FIFO order, semantic index; Redis tier | get, put, flush, search | attempt loop, state store |
| budgets (`server/budget.go`) | client limits, money spent per period | `exceeded`, `add`, admin updates | state store |
| client limiter (`ratelimit/`) | per minute: requests and tokens of a client | `Allow`, `AllowTokens` | state store |
| state stores (`state/`) | counters and blobs with expiry; one Redis connection | `IncrWindow`, `IncrFloat`, `GetFloat`, bytes | Redis, Postgres |
| stream translator (`core/stream.go`) | open content blocks, indices, usage | `Chunk`, `Finalize` | attempt loop, client |
| configuration (`config_editor.go`, `mcp.go`) | the file, its backup, the running configuration | set, rollback, reload | registry, prices |
| lifecycle (`cmd/gateway/main.go`, `server/ratelimit.go`) | in-flight tracker, admin token buckets | begin, end, wait, shutdown | admin handlers |
| usage log, webhooks | aggregates, ring; outstanding deliveries | `Add`, `notifyHooks` | attempt loop |

What makes them hard to get right:

* **Concurrency.** Handlers are goroutines. They share a provider's pool (mutex), breaker
  and in-flight counter (separate atomics), the registry (RWMutex), caches, budgets and one
  Redis connection. Between `Pick` and `Report` a whole upstream call passes, during which
  any number of other handlers pick and report.
* **Failure.** Upstreams reject, throttle, hang, or break in the middle of a body; clients
  disconnect at any time, which cancels the context of every later call of their request.
* **Order.** Reports arrive in another order than the picks. The breaker sees the outcomes
  in the order in which handlers get to `NoteUpstream`, not that of the calls.
* **Time.** Cooldowns, breaker pauses, cache and counter windows, budget periods.

What must hold, component by component: *pool* - no key starved, a cooldown never cut short
except by success, never longer than ten minutes; *attempt loop* - at most
`retry.max_attempts` calls, no key of a target used twice, a target left only when its keys are used up,
every request answered; *provider* - exact in-flight counts, the breaker opened only by failures in a row; *cache* - no answer past its lifetime, at most `max`
entries, none lost early; *admission* - rejected requests cost nothing, windows end, spending
is bounded, what is spent is recorded; *Redis connection* - each caller gets its own reply; *registry* - a
configuration is served with its own models only; *translator* - a well-formed event sequence;
*configuration* - what runs is what was saved, and there is always a good version to return to;
*lifecycle* - a shutdown ends.
The `hazards` in `PROJECT.json` list where each can go wrong, and by which property it is caught; where the code itself
is what goes wrong, the property names it as its exception, and the note says so.

## Modules

| module | content | size of the idea |
|---|---|---|
| `PoolOps` | operators on one pool: which key `Pick` returns, what a report does | no state |
| `KeyPool`, `MCKeyPool` | a pool and its callers | 4 variables, 6 actions |
| `Dispatch`, `MCDispatch` | the attempt loop of concurrent requests over shared providers | 14 variables, 20 actions |
| `MCBreaker` | `Dispatch` with a history of each provider's run of failures | for one run |
| `ResponseCache`, `MCResponseCache` | replicas with a cache and a semantic index each, over one Redis | 9 variables, 12 actions |
| `Admission`, `MCAdmission` | what a request passes before it is routed, and the charge after it; Redis counters that fail | 24 variables, 17 actions |
| `Messages` | the two protocols' messages and streams, and the translations between them | no state |
| `Requests` | what is made of a request before a provider sees it | no state |
| `EventProtocol` | abstract: the events a client may count on | 4 variables |
| `Delivery`, `MCDelivery` | the body of an answer on its way to the client; refines `EventProtocol` | 14 variables, 10 actions |
| `Routing` | which configurations load, what the registry makes of one, `Resolve`, `Catalog` | no state |
| `Reconfigure`, `MCReconfigure` | files, editor, rollback, reload, edits by hand, probes, in-flight tracker, shutdown, crash | 19 variables, 30 actions |
| `NumberLemmas` | induction on a number, least and greatest members, folds unrolled: what several proofs cite | |
| `KeyPoolProofs`, `DispatchProofs`, `ResponseCacheProofs`, `AdmissionProofs`, `DeliveryProofs` | theorems about the modules they are named for | |
| `RequestProofs` | theorems about what `Delivery` says of requests | |
| `ReconfigureProofs` | what the loops of `Routing` compute; theorems about `Reconfigure` | |

`KeyPool` and `Dispatch` both build on `PoolOps`: the first looks at one pool in isolation,
with all its timing; the second at what a request makes of several of them.

### PoolOps and KeyPool

A key is a position in `Pool.keys`. Time is counted in units of ten seconds, the first backoff
step; 0 is Go's zero time, so clocks start at 1. `Cooling` keeps the code's comparison
(`now.After(coolUntil)`: still cooling at the instant the cooldown ends). `PicksFree` is the
scan, `PicksFallback` the choice of the key that recovers first when all are cooling, in
scan order among equals. `AfterPick` moves `idx` only for a free key, as the code does.
`fillFirst` is a field of the pool, and the loop it guards is in the model (`FirstFree`) though it never finds a key: it
tests, with the same `now`, what the scan has just denied, as does the test inside the scan. So a `fill_first` pool
rotates like any other, which is not what the documents say (below). `RotationFair` holds of both strategies; the mutant
`PicksInOrder`, fill-first as it is meant, breaks it.

In `KeyPool` a caller picks, holds the key while it talks to the upstream, and reports success, a
soft failure with some hint, a hard failure, or nothing (a fatal status). `waited` is a history
variable: for each key, the picks it sat out while free.

### Dispatch

One action is what a handler does between two points where others can change what it
reads. `pc` names the place: `pick` is the head of the attempt loop (or of the target loop),
`exec` the upstream call, `noteFail` / `trip` / `noteOk` the steps of `NoteUpstream`, `body` the time
between a 2xx header and the end of the body.

| action | code |
|---|---|
| `Arrive` | `Resolve` with the breaker filter and the least_busy order; `attemptsLeft` set |
| `AnswerEarly` | a cache hit on `/v1/messages`; a payload that cannot be built |
| `SendAttempt` | one iteration: attempt taken, new key picked, `BeginRequest`, call sent |
| `BurnAttempt` | one iteration that picks a key tried before: only the attempt is spent |
| `NextTarget`, `GiveUp` | loop exits; "all providers exhausted" |
| `NetError`, `SoftStatus`, `HardStatus`, `FatalStatus`, `OkStatus` | what `Execute` returned, up to `NoteUpstream` |
| `NoteFailure`, `TripBreaker`, `NoteSuccess` | `NoteUpstream`, atomic by atomic |
| `BodyDelivered`, `BodyFails`, `BodyBlocked` | the body's end: sent, broken, stopped by a response guardrail |
| `Disconnect` | the client of a request in `Leavers` goes away |

The two endpoints differ where their code does: `/v1/messages` accepts `x-ccg-max-attempts`,
tells the breaker of successes and stays in flight during the body; `/v1/chat/completions`
ends the request at the header and never tells the breaker; its stream (`chatStream`)
cannot go back to the loop. The stream of `/v1/messages` does go back.

What is abstracted, and why it is harmless:

* `EndRequest` and the report that follows are one action. No decision reads both the
  counter and the pool, so no handler can tell the order.
* The comparisons of one `least_busy` sort are taken at one instant; the weights that break ties, and the
  `latency` and weighted orders, are choices within `Chains`.
* Keys of one pool are distinct, as the configuration means them to be. (Duplicates
  would make the loop's `len(triedKeys) < Len()` unreachable and burn attempts.)
* A reload while a request is under way (`Swap` replaces its providers) is left out: the request keeps
  the old provider object, a new request gets a new one, and they share nothing.
* A 3xx status takes the path of a 2xx, as in the code.
* Cache contents, budgets and token counts are in `ResponseCache` and `Admission`; here a hit is a choice
  of `AnswerEarly`. What the body of an answer becomes is in `Delivery`.

### ResponseCache

One request of `handleMessages` that is not streamed: the search of the semantic index, the lookups under the semantic
and the exact key, each in the local and then in the shared tier, the upstream call, and the write-back of both keys
into both tiers and of the vector into the index. Each is an action, so that other requests, a flush, a restart or
the clock come between any two. `Put` is the code's: a key not in the map is appended to the order even if
it stands there already for an entry that has expired. A body is named by the request that fetched it and
`saved` remembers when it was written, so that hits can be compared with what was asked. A vector is the prompt
it was made of; `Sim` gives the cosines, in the instance a chain q1 - q2 - q3 whose ends are not near.

### Admission

The two handlers pass the same gates in different orders (`AfterRate`, `AfterChecks`, `AfterBudget`):
authentication, the requests per minute, the budget, guardrails and model lists, the tokens per minute; then
the upstream call and the charge. A counter is in Redis, or in the process when there is none or the command failed.
`Outcomes` is what `RedisStore.cmd` makes of one command: applied no, one or two times (it resends after a lost
reply), and answered with its own reply, an error, or the reply of another goroutine's command on
the unlocked connection. `Panics` is the other thing that goroutine may do: it sets the connection to nil while this one is about
to use it, and `withRecovery` ends the request, after its answer too, when the charge was all that was left. `ReportPanics` is the same panic under the
mutex that `tokenReports` holds without a defer: `held` from then on, and a charge that falls back to the map waits for ever (`Hangs`; so do
updates of limits and new tokens). INCRBY and PEXPIRE are two steps. The history variables `charged`, `passed` and
`granted` count what really went through since the counter that limits it began, `unpaid` the charges recorded nowhere. `ChargesKept` is the whole
account: a charge is in the store, in memory, or in `unpaid`, and there is at most one request's in `unpaid` for each failure.

### Messages, Requests, EventProtocol and Delivery

`Messages` has the translator (`StreamTranslator`, chunk by chunk), the two collectors, the synthetic stream and the
translation of whole answers; `Requests` those of requests, redaction, and the flat text that guardrails and the
semantic index see. `Delivery` follows one request of either endpoint through its attempts: `Decoder` is the
choice of code that reads the body, by endpoint, streaming, response patterns, provider type and content type - with the
combinations in which it finds nothing or reads a body already closed. `up` is that choice's input, with whether the answer counts tokens read from or
written to a cache; `usage` and `cache` are what is charged for in the end. A failed attempt's events stay in the response (`before`), its `message_delta` and
`message_stop` with them, and `reply` is all of it. The upstream sends any legal
sequence of pieces up to a bound and may break off anywhere. Each event written is a step, so the refinement
of `EventProtocol` holds of what a client sees at any time. `Protocol` maps the events written so far to blocks opened, open and
touched last.

The properties compare views: what a client puts together from the reply, and what the upstream produced; what was said in a
conversation, as a sequence of items, and what a provider is told. An item is a word, or a picture, call, result or block of
another kind *as it is*: `RequestKept` compares the provider's items with those of the request after `RedactItem`, `EmptyItem` and
`FlattenItem`, which say what the code does to them (a result becomes one string and its pictures the word "[image]", for
Anthropic providers too; a turn that redaction changes loses thinking and the content of blocks the code has no fields for), so
any other change of an item shows. "document" stands for all those blocks: documents, search results, pictures named by a file, a
chat client's audio or refusal. Not in the items are a result's `is_error` (which OpenAI has no place for), `cache_control` and
how a JSON text is spelled. The exceptions named in the properties are the code's losses, listed in `hazards`. `RequestKept` and
`NothingUnseen` concern requests, not behaviours: they are evaluated for every conversation of a set before anything is sent, and
proved for every one the two APIs define. What those define are the sets `MessageBodies` and `ChatBodies`: texts are sequences of
`Words`, `Personal` ones among them; a turn of a message may hold any block, whoever's it is.

### Routing and Reconfigure

`Routing` is pure: `Validate`, the sort of `apply`, `Resolve` with all its stages, `Catalog`. Where the code draws
random numbers (the weighted strategy compares random keys) `Resolve` gives the set of outcomes.

`Reconfigure` is the process. `os.WriteFile` is a truncation and a write, each a step, since the process may die between them and other
handlers run; `file.ino` tells a file opened before a rename from the one renamed over it. `EditByHand` is an operator who replaces the file; nothing in
the process sees it, and `hand` remembers it until the file is read. `routing.free_only` and `free_models` are not in the model of a configuration: the handlers
read them from the one of the start for ever, so what is said of "what routes" is said of providers, rules, chains and scenarios. `reloadConfig` reads,
swaps the registry, then stores the prices. `gen` stands for a registry generation's context, a probe loop
carries the one it was started with, and an answer enters whatever list is current. `inFlight` is modelled atomic by
atomic: `End` decrements, `SeeWaiter` looks at `closing` and `done`, `CloseDone` closes. Two may reach `CloseDone`;
the second one's panic is recovered and changes nothing. `Stop` is the end of the
process, by exit or crash; only the files survive it.

Operators marked "to be caught" next to a definition are wrong versions of it: with one in place
of the original, TLC must find a property violated. They are used nowhere else, and show
that each property depends on the code it is about.

## Runs

| run | what it checks | bounds |
|---|---|---|
| `keypool` | `TypeOK`, `RotationFair`, `CooldownBounded`, `CooldownOnlyCutBySuccess` | 3 keys, 2 callers, clock to 4; backoffs 1, 2, 3 (cap), hints 0 and 4, hard cooldown 4; either strategy; 1 007 024 states |
| `dispatch` | `TypeOK`, `InflightCounts`, `AttemptsWithinBudget`, `NoKeyTwice`, `NoPrematureFallback`, `BreakerNeedsCalls` | 2 requests, chain of 2 providers with 2 and 1 keys, the first set to `fill_first`, 3 attempts, both endpoints, threshold 2; 2 202 731 states |
| `dispatch_live` | `LeaverFreed`, `Answered` | 2 requests, one may lose its client, 1 attempt or an override of 2; `/v1/messages` and chat streams |
| `cache` | `TypeOK`, `ExactHitsMatch`, `SemanticHitsNear`, `IndexedAfterSaved`, `ServedFresh`, `NewestSurvives` | 3 requests in three mixes on 2 replicas, 2 under way at a time, 2 entries, lifetime 1, clock to 3, 1 fault; 1 685 000 states |
| `delivery` | `TypeOK`, `ContentKept`, `StopAndUsageKept`, `LossesKnown`, `RequestKept`, `NothingUnseen`, `FollowsProtocol` | 2 attempts, 3 pieces over both, 2 tool calls; conversations of a turn of up to 3 blocks or two turns of one; 2 387 610 states |
| `admission` | `TypeOK`, `OverspendBounded`, `ChargesKept`, `RateHeld`, `TokensHeld`, `SilenceForgives` | 2 clients, 3 requests in four mixes, two of them interchangeable (`SYMMETRY`), 2 under way at a time, with and without Redis, 1 fault, a period of 2 minutes, clock to 2; about 2.1 million states |
| `reconfigure` | `TypeOK`, `AppliedIsSaved`, `BackupIsPrevious`, `Recoverable`, `NoStrangers`, `LongestPrefixWins`, `WakeNotLost`, `ShutdownEnds`, `CatalogHeals` | 4 configurations, 2 admin requests, one and a message, or three one at a time, some with an edit by hand, 3 or 4 generations, 1 fault; 488 576 states |
| `failover` (violated) | `FailoverComplete` | 2 requests, 3 attempts |
| `breaker` (violated) | `OpensOnConsecutiveFailures` | 2 chat requests, threshold 2 |
| `leastbusy` (violated) | `LeastBusyFirst` | 3 requests, 2 providers of 1 key |
| `steady` (violated) | `NextWindowAllows` | 3 requests of one client, 1 per minute, no faults, clock to 3 |
| `toolcalls` (violated) | `ChatCallsDistinct` | as `delivery` |

Why these bounds are enough to be interesting. In `keypool` two callers can hold the same
key and report opposite results for it in either order; three keys let a rotation skip one and
wrap around; the scaled times keep the order that matters (backoff < cap < hard cooldown, a hint
larger than the cap). In `dispatch` two requests can burn each other's attempts, take the same
provider over the breaker's threshold together or leave a success between two failures, and three
attempts over three keys let the budget end in either target. The clock of the live run stands still:
the loop's progress does not depend on time, as `Pick` returns a key even when all are cooling.

In `cache` the mixes put a chain of near prompts on one replica, one prompt for two targets on two replicas, and one custom key
under unlike requests; two entries and a lifetime of 1 make eviction, expiry and re-insertion of an expired key happen in the life
of three requests. In `admission` the mixes are a client with a budget, one with a token limit, and both with requests a list or
guardrail stops; two under way overspend together, and one fault of any kind, a panic included, can come at any command; the
report that leaves the mutex locked is none by itself, so that a charge can then fail and hang. In `delivery` three pieces are a
text between two calls, or a call whose arguments take two, or a finish reason and the usage; they may be split over two attempts,
the first of which may have ended its message in the same response. In `reconfigure` the second configuration has rules in the
wrong order, targets and a scenario that name no provider, and another list to discover; "bad" must be refused, "few" stops
probing a provider whose old probe is still under way. A fault is a write that fails, a crash or a deadline missed.

Deadlock is not checked where the system really stops: when all requests are done and the clock is at its bound
(`cache`, `admission`), the one request has been answered (`delivery`), the process has ended (`reconfigure`).

The bounds that are not in the code: `MaxNow` (the clock), `MaxFails` (the run of soft failures; past the cap more change nothing but
the count), `MaxBusy` (requests under way at a time), `MaxFaults`, `MaxPieces`, `MaxGen` (generations of the registry, for
each script of requests; `Start` leaves one to each admin request still to come). `Apart` names the scripts whose admin requests come
one at a time: three of them, as an edit, a rollback and an edit, is what `Recoverable` needs to meet its exception.

**Fairness.** `FairSpec` assumes weak fairness of each handler's own steps, since the Go runtime
schedules every runnable goroutine, and of `Aborts`: once a client is gone, net/http ends a
call or a body read with the cancelled context. Nothing else is fair. In particular no
upstream has to answer: `http.Client` has no timeout, and the provider's `timeout` setting
is read and dropped (`provider.go:56`). `Answered` therefore assumes for the request
itself, and for nobody else, that its calls end. `LeaverFreed` needs no assumption.

In `Reconfigure` the handlers of admin requests, `main` and the start of discovery are weakly fair together, since each takes
finitely many steps; a message is not, whose upstream may hang. A probe's HTTP call has a timeout of 30 seconds and its ticker
fires again, so its turns are weakly fair; that a provider asked again and again answers some time, and that a loop whose context
has been cancelled takes that case of its `select` before its ticker's some time, are strong fairness. The shutdown's deadline is
not relied on: `ShutdownEnds` says that it is not needed, whatever admin requests are under way, begin or panic while `main`
waits, unless a message never ends. `CatalogHeals` needs all of it: without the stop of the old loops, an old generation's answer
would overwrite the new one's for ever.

**The five violated runs** are disagreements between code and documents; `findings` quotes both.

* `failover`: another request moves the rotation so that this one picks its tried key again,
  and again, until its attempts are gone; the next provider is never called although the
  attempts spent on real calls were fewer than allowed.
* `breaker`: `/v1/chat/completions` never resets the failure counter, so the breaker opens
  on failures that are not consecutive.
* `leastbusy`: a blocked response leaves the in-flight counter one too high, and `least_busy`
  then prefers the busier provider. `InflightCounts` says the leak precisely: it is the only one.
* `steady`: with Redis each refused request renews the expiry of the counter that refuses it, so steady
  traffic over the limit is refused for ever. `SilenceForgives` says what does end it: a minute of silence.
* `toolcalls`: all tool calls of a streamed chat completion carry index 0, so a client takes two for one.

**Documents not followed, in properties that hold.** Three more of the `findings` are about runs that pass, since the property says what the code does:

* `key_strategy: fill_first` (`README.md:19`, `README.md:527`, `CHANGELOG.md:23`, `config.go:126`) changes nothing: `RotationFair` holds of such
  pools too (`pool.go:88`-`109`).
* "Config auto-reload on file change" (`CHANGELOG.md:65`): `config_watch` (`config.go:21`) is read and never used. `AppliedIsSaved` excepts a file edited by hand
  until it is read.
* "Hot reload providers/routing/pricing" (`README.md:468`, `mcp.go:29`): `routing.free_only` and `free_models` stay those of the start (`freemode.go:9`).
  `AppliedIsSaved` is about the rest.

What else the documents say and the code does not do, seen while modelling and not worth a run: `x-ccg-cache-ttl` is parsed and not used
(`README.md:42`, `overrides.go:25`); a budget of 0 in the file is unlimited, not "blocked immediately" (`README.md:367`, `budget.go:79`);
the cache evicts in order of insertion and is not "LRU" (`README.md:493`, `cache.go:93`); only admin requests are
tracked for the graceful shutdown (`main.go:116`, `server.go:142`).

## Proofs

TLAPS proves, for every value of the constants that satisfies the named assumptions:

| theorem | says | argument |
|---|---|---|
| `TypeCorrect` (KeyPoolProofs) | `[]TypeOK` | inductive as it stands |
| `Bounded` | `[]CooldownBounded` | one step lemma over what a report can set; needs hints within `HardCool` (`parseRetryAfter` caps them) |
| `OnlyCutBySuccess` | `CooldownOnlyCutBySuccess` | the same case split, from type correctness |
| `Rotation` | `[]RotationFair` | `RotationInv`, below; `FirstFree` is false of every key when all are cooling |
| `DispatchTypes` (DispatchProofs) | `[]TypeOK` | with `HandlerInv` |
| `WithinBudget` | `[]AttemptsWithinBudget` | every step that logs a call takes an attempt |
| `KeysOnce` | `[]NoKeyTwice` | `CallsRecorded`: what was logged for the current position is in `tried`, and no call is logged for a later one |
| `FallbackInOrder` | `[]NoPrematureFallback` | `TriedWereCalled`: each key in `tried` was called at the current position, so when `tried` has as many members as there are keys all were called |
| `InflightExact` | `[]InflightCounts` | the set of requests holding a provider gains or loses exactly one member where the counter moves |
| `OpensAfterCalls` | `[]BreakerNeedsCalls` | `BreakerInv`: the failures counted, and the calls that may still add one (`MayFail`), are together no more than the calls made |
| `CacheTypes`, `ExactMatch`, `SemanticMatch`, `SavedFirst` (ResponseCacheProofs) | `[]TypeOK`, `[]ExactHitsMatch`, `[]SemanticHitsNear`, `[]IndexedAfterSaved` | one invariant, below |
| `AgeBound`, `NewestKept` | `ServedFresh`, `NewestSurvives` | from the same invariant, step by step |
| `AdmissionTypes`, `RateKept`, `Forgiven` (AdmissionProofs) | `[]TypeOK`, `[]RateHeld`, `SilenceForgives` | `RateInv`, `SilenceInv` |
| `TokensKept`, `ChargesAccounted`, `Overspend` | `[]TokensHeld`, `[]ChargesKept`, `[]OverspendBounded` | `TokenInv`, `BudgetInv` |
| `RulesSorted`, `FirstIsLongest`, `ResolvedKnown` (ReconfigureProofs) | what `SortRules`, `MatchRules` and `Resolve` return, for any input | the folds, unrolled |
| `ConfigTypes`, `WokenUp` | `[]TypeOK`, `[]WakeNotLost` | `Types`, `WakeInv` |
| `Saved`, `BackedUp`, `Recovers` | `[]AppliedIsSaved`, `[]BackupIsPrevious`, `[]Recoverable` | `SavedInv`, `RecoverInv`, `Alone`, `Mishaps` |
| `LongestPrefix`, `NoneStrange` | `[]LongestPrefixWins`, `[]NoStrangers` | `RouteInv` and the theorems about `Routing` |
| `DeliveryTypes`, `ProtocolKept` (DeliveryProofs) | `[]TypeOK`, `FollowsProtocol` | `EventsInv`, below |
| `LossesNamed` | `[]LossesKnown` | `LossesInv` |
| `EndsKept` | `[]StopAndUsageKept` | `EndsInv` |
| `ContentSame` | `[]ContentKept` | `ContentInv`, below |
| `RequestsKept` (RequestProofs) | `[]RequestKept` | `RequestsStand`: redaction and translation, element by element, below |
| `AllSeen` | `[]NothingUnseen` | `WordsStand`: the words of the items that `RequestsStand` compares |

**Key pool.** `RotationFair` is not inductive: nothing in it ties a key's waiting time to the index. `RotationInv`
does: the picks a key has sat out and its distance from the index in scan order add up to less than
`N`, so each pick that passes a free key over brings the scan at least one closer to it.

**Dispatch.** `HandlerInv` is what typing needs: a handler inside an attempt is at a position of its chain and uses a
key of the provider there, and a request not yet received has touched nothing. The other proofs take their steps from one
lemma, `LoopStep`, which says how any step of the system changes one request's position, attempts, tried keys and log; the
invariants about the log are proved from it without looking at the actions again. For the breaker the log is read the other
way: `CallsTo(p)` collects all requests' calls, and each failure counted has one of its own. A success only takes away.

**Response cache.** `Honest` says of every entry of either tier that it is the answer of the request it names, under that
request's own key or under the semantic key made for it, and that it is no younger than the last write under that key. It
has to hold of local and shared tiers alike, since a local miss is filled from Redis with the age it gets there. `Indexed` and
`HandlerInv` carry the identity of a semantic key from the vector found to the lookup made with it; with them
a hit is near its asker, whatever was evicted or flushed between the search and the lookup.

**Admission.** The bounds are about what was let through, the code counts what was asked for, so each invariant compares the two.
`RateInv`: with Redis a verdict is in the counter or in a failed command, without it in this minute's bucket. `TokenInv` also
needs the tokens that refused requests have added and not yet taken back (`Owed`), and what a late refund takes off a counter that
never had it (`late`): a counter minus what it is owed still covers what was granted. `BudgetInv` bounds spending by the room left
for requests that have passed the check: whoever passes it saw less than the limit, and each of the others takes one place of
`MaxBusy`; a failed command or a restart pays for one more. The same faults (`Lent`) pay for what only memory holds and for what
nobody does: memory and `unpaid` together are no more than one request's cost for each, which gives both halves of `ChargesKept`.
`limit <= top` ties the limit a check reads to the highest there was. `top` is a history of limits since the charges began, and
"no limit" once one of them was: a budget may be lifted and set again, after which nothing bounds what was spent before. `MaxCost`
is the maximum of a finite set of costs.

**Routing.** The nested loops of `apply` and the filter of `Resolve` are folds, whose community definition chooses a
function that satisfies a recursion. `FoldExists` shows that there is one when the values stay in a set, so that it can be unrolled
(`SettleSteps`, `SortSteps`); what holds of every step then follows by `Upwards`, induction on a number stated for a set. The exchange
sort: after round `i` position `i` has the longest prefix of those behind it, and what stands before it stays.

**Reconfigure.** `Types` adds to `TypeOK` that the tracker counts a set of requests, and that generations left are enough for the
requests that can still reload. `WakeInv`: whoever waits has announced it before it looked, so the request that takes the count to
0 sees it. The files' invariants say for each place of the two handlers what the file, its backup and the handler's variables
hold; `Alone` lets one speak of one admin request at a time, until two have met. `SavedInv` is about no fault, `RecoverInv` about
one and a file never edited by hand; `Agree` is what runs and what is in the file, with the edit by hand between them. `Mishaps`
counts: a missed deadline and a failed write are two. `RouteInv`: what routes loads, only what loads is about to be swapped in,
and a request resolved by the current generation was resolved by what routes.

**Delivery.** That the events follow `EventProtocol` is proved as a refinement: initial states are matched, each event written is
a step of it, and a new attempt is `StartOver`. `EventsInv` carries it: what has been written and what waits to be written (`out
\o pend`) are together `Good`, that is, each event is one the protocol allows after those before it; the write of one then needs
no more (`Written`). What waits comes from the translator or from `Synthetic`. Of the translator's state machine `Translating`
says what its fields have to do with what it has emitted: the open blocks are its text block and its tools, numbered below the
next index, and each of `Chunk`'s and `Finalize`'s operators keeps that for any chunk. `Synthetic` of any message whose content is
a list is `Good` (`SyntheticGood`, by `Upwards` over its blocks). `LossesInv` needs of every decoder that the message it makes is
one that can be marshalled, for pieces in any order (`FoldsUp` unrolls the collectors): all but `TranslateResponse` test arguments
first. It carries `before`: only the two decoders that write as they read leave events to a next attempt; and `ReceivedInv` that
an attempt which failed though its body came whole had the closed body to read. `EndsInv`: the translator and the collectors have
heard what the pieces so far say of the stop reason and the usage (`Told`, `Hears`), and what is about to be written says it too.
One `message_delta` of the attempt carries it, which the protocol admits once (so the claim is about responses with nothing
`before` it); pieces that follow `Follows` add no second finish or usage. `ContentInv`: what the translator has emitted, if a
client collected it now, shows the text and the calls of the pieces so far (`Rendered`), and what is about to be written shows the
whole. `Laid` says of any events which blocks the Anthropic collector has made of them, in order, one lemma for each kind of
event; `Shown` ties that list to the translator's fields: the tool whose index a delta names is the block at the place `tools`
remembers, and an open text is the last block. So a delta of a call changes that call's block and no other, though texts and other
calls came between, and a text after a call is a block of its own. This needs of the upstream that a call's name comes with its
first delta (`Follows`). `SyntheticView` says that a message written as a stream and collected is the same message, which the
answers that are decoded twice need; `GatheredAll` what the OpenAI collector's fold has of each call; `ChatViews` that a chat
client finds the same. The views are concatenations (`FlattenSeq`), which, unlike filters, can be unrolled: `TextOf`, `ArgsOf` and
`Texts` grow by one piece or block at a time. For this a few definitions were put so that their meaning can be reasoned with:
`SortInts` is the enumeration in ascending order, whatever sorts it, the mapping to `EventProtocol` counts events by sets of their
positions, and `FinishOf`, `UsageOf` and `NameOf` look for the positions of a kind of piece (`PlacesOf`); the filters of
`Requests` (`Where`) are concatenations too.

**Requests.** The two properties of requests say the same in every state, so `RequestsStand` and `WordsStand` prove them from
`RequestsAssumption` and no step matters. Texts, blocks and contents are sequences made into items element by element, and `Bind`
and `PartsOf` say that doing so to the parts and joining them is doing it to the whole. Redaction then commutes with taking items
(`BlockRedacted`, `ContentRedacted`, `MessageRedacted`), though it may turn a list into a string and a result into its flat text;
that a turn is written again, and its other blocks emptied, exactly when an item of it changes is `RedactedBlocks`. `Tellable` is
what an OpenAI provider can be told of items: of six classes, with results as strings. It is compared with what is sent, block by
block: a user's turn is a fold that flushes what it has collected before each result; `UserFits` says that what it has put out and
what it still holds are what was said so far. In an assistant's turn calls and texts change places: `Swapped` and `SpokenFirst`
say that for any two classes of items but these the order stays. A chat client's messages become a message's by `BlocksAsked` and
`TurnConverted` (`RewrittenTells`: writing blocks again takes nothing from them that can be told), and what it tells the system is
joined in order while all of it is strings (`StringsTold`). Then the words: items that agree up to order have the same
(`SameWords`), the flat text holds those of every block that can be sent (`BlocksSeen`), and a redacted text has no personal one.

Two properties changed because a proof would not close. `Recoverable` was first stated without the condition `sameFS \/ ~lost`:
the case left over was a rollback whose write of the file fails, followed by an edit that backs the torn file up and then cannot
rename. TLC confirms it with three requests (the script in `Apart`); two could not show it. And the first `OverspendBounded` took
the bound from the limit in force, with updates only to another value; setting a limit to the value it has resets what was spent,
as the code does.

**Assumptions.** `PoolAssumption` (the cap of a soft backoff is at most a hard cooldown, as 5 and 10 minutes are; powers of two
are positive), `KeyPoolAssumption`, `DispatchAssumption` (finite sets of requests, types of the constants); `CacheAssumption` and
`MixesAssumption` (types; at least one entry and a positive lifetime, as `cache.New` and the configuration's defaults give);
`AdmissionAssumption` (a finite, nonempty set of requests; estimates, costs and limits are integers, costs finite in number and
not negative); `ReconfigureAssumption` (the first configuration loads, the others need not; fields of a configuration are lists,
as YAML unmarshals them; a session's hash is not negative; `MaxGen` leaves a generation to each admin request; names of
configurations differ from the words for other requests); `DeliveryAssumption` (two numbers); `WordsAssumption` (the marker that
redaction leaves and the names of block types, which stand for other blocks in a flat text, are words, and the marker is not
personal); `RequestsAssumption` (the requests are made of the blocks and contents above: any blocks in a message's turns, texts
only in its system; of a chat client's turns those parts its role may have). TLC evaluates them in the runs.

**Only model-checked.** `LeaverFreed`, `Answered`, `ShutdownEnds` and `CatalogHeals` are liveness under fairness, which TLAPS does
not prove. That the five violated properties are violated is TLC's counterexample. Every other property of the runs is a theorem.

## Plan

Done: `PoolOps`, `KeyPool`, `Dispatch`, `ResponseCache`, `Admission`, with the shared Redis connection as a set of outcomes
of a command; `Messages`, `Requests`, `EventProtocol` and `Delivery`; `Routing` and `Reconfigure`; their runs; all safety
properties proved, with the refinement of `EventProtocol`. What is left to the prover is what it cannot do, liveness.

Left to model: a composition of `Dispatch` with the cache's write-back, `Relay` (the abstract life of a request, refined by `Dispatch`), the token refresh of
`gcp.go` as part of `Dispatch`'s liveness, and a Postgres store if its table name is repaired.

## Not modelled

* Request signing, byte framing of Bedrock event streams, transforms: functions of one document, without shared state.
* Of the translations: tool definitions, sampling parameters, `reasoning_effort`, token estimates.
* The Postgres store (its table cannot be created, `postgres.go:33`) and the memory store (given to nobody who counts).
* The admin limiter's token bucket: a request it refuses does nothing.
* The keep-alive goroutine's race with the writer: below the level of whole events.
* Dashboard, metrics, MCP tools, price synchronisation, openapi, gzip: views and I/O.
* Webhooks and the usage log: no part of the gateway depends on them; their delivery promises nothing.
* `antigravity.go`'s client: not called.
* Parsing of the YAML configuration, Helm chart, CI.
