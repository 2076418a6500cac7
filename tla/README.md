# apcore-a2a: formal models, checks and proofs

apcore-a2a (`src/src/apcore_a2a`, Python, asyncio) serves apcore modules as an
A2A agent and has a client for such agents. This directory holds TLA+ models of
the parts of it that are hard to test, the TLC configurations that check them on
small instances, and theorems about them that TLAPS has checked for every value
of their constants.

Contents: the system and its parts; which module models which; the runs; the
proofs; where the code and its documentation disagree; what is not modelled; the
plan. Paths below are relative to `src/src/apcore_a2a/`.

## 1. The system

One server process runs one asyncio event loop. A request passes
`AuthMiddleware`, reaches the a2a-sdk's routes and request handler, and for a
message the SDK starts a *producer* task that calls
`ApCoreAgentExecutor.execute()`, which calls an apcore module and puts events on
the task's queue; the SDK's *consumer* moves them to the task store and to
subscribers. `tasks/cancel` calls `cancel()` on the same executor object.
Discovery (the Agent Cards) is a separate path over the same registry and ACL.

| Part | State it keeps | Operations | Talks to |
| --- | --- | --- | --- |
| Executor, `server/executor.py` | `_cancel_tokens` by task; locals of each `execute()` (chunk index, deadline, apcore Context) | `execute` (single and streaming), `cancel` | apcore's executor (await), event queue (await), metrics callback, identity variable, error mapper |
| Task metrics, `server/factory.py` | five counters, a request counter | `on_state_transition` | called by the executor |
| Cards, `adapters/agent_card.py`, `adapters/card_visibility.py`, `server/factory.py` | the public card, the full card, the builder's cache | `create`, `register_module`, the extended-card modifier | apcore registry and ACL, read live or at start |
| Explorer, `explorer/__init__.py` | the card it was given | serve page, serve card with schemas | public card, live registry |
| Auth and scoping, `auth/`, `server/context.py` | `auth_identity_var`, one value per asyncio task | middleware call, `build_user`, the executor's read | SDK's owner-scoped task store |
| Error policy, `adapters/errors.py` | `disclose_refusal_reason`; two mapper objects | `to_jsonrpc_error`, `carries_caller_detail` | executor, apcore's formatter registry |
| Client, `client/client.py` | one async generator per stream | `stream_message`, unary calls | HTTP |
| Card fetcher, `client/card_fetcher.py` | `_cached`, `_cached_at` | `fetch` | HTTP |
| OpenAPI backend, `openapi_backend.py` | none of its own; writes a Registry | build from configuration | document fetch, toolkit scanner and writer |
| Conversion, `adapters/parts.py`, `adapters/schema.py`, `adapters/skill_mapper.py` | none | parts to input, output to parts, input modes of a skill | executor, cards |
| Start-up, `__main__.py`, `_serve.py`, `_config.py` | the registry it fills, the settings it resolves | command line, `serve`, `async_serve` | OpenAPI backend, Config, environment, `create()` |

What makes them correct, and what is hard about each:

- **Executor.** Every message is answered exactly once, in an order a subscriber
  can rely on, however the module ends: return, stream, error, timeout, cancel,
  asyncio cancellation at any await. A cancel reaches the run it was meant for
  and no other. Hard: `execute()` and `cancel()` interleave at every await and
  share a map keyed by task, not by run.
- **Metrics.** Counters agree with what was published. Hard: failures are counted
  before their event is enqueued, completions after, cancels by two actors.
- **Cards.** A card shows what its reader can really call. Hard: three surfaces
  of three ages (start, request, live) over a registry and an ACL that change.
- **Auth.** The principal a module runs as is the owner its task is stored under.
  Hard: two reads of a context variable, one of them in another asyncio task,
  long after.
- **Error policy.** A refusal is a refusal on every surface; fixed strings stay
  fixed. Hard: the same classification is written four times in three files.
- **Client.** Events in order, failures raised, an end to every stream. Hard: cuts, noise,
  a second terminal status, a consumer that resumes when it likes.
- **Card fetcher.** No card from the cache that is older than the TTL, and a current one
  otherwise. Hard: overlapping fetches.
- **OpenAPI backend.** All or nothing, nothing lost silently. Hard: seven ways to
  fail, some of them per module.
- **Conversion.** What the card advertises is accepted; what is wrong with an output
  is not blamed on the caller. Hard: two files read the same schema, one of them
  through a lookup that may fail.
- **Start-up.** A server that comes up is the one that was asked for. Hard: four
  tiers of settings, two entry points, and guards in one function that another
  relies on.

`PROJECT.json` lists every component with its status and every hazard at its
source line.

## 2. Modules

| Module | Models | Its state and actions in the code |
| --- | --- | --- |
| `ExecutionProtocol` | what a subscriber is promised about one execution | abstract: a turn announces, streams, seals, completes or stops |
| `A2AExecutor` | `execute()`, `cancel()`, the token map, the queue, the counters | below |
| `AgentCards` | discovery | `Create` = `create()`'s card part; `RegisterModule`, `HostReplace`, `SetAcl` = changes under the server; `Serve*` = the three surfaces; `GetCachedOrBuild` = the builder's cache |
| `AuthScope` | who a request acts for | `Arrive`, `ArriveExempt`, `Refuse401`, `Finish` = the middleware; `Route` = `build_user`; `Execute` = the executor's read; `NewTask`, `FollowUp`, `ReadTasks` = the SDK |
| `JsonRpcErrors` | the error tables and predicates of server and client | operators only |
| `ErrorSurface` | one error on its three ways out | `Report` = task status, `Format` = registered formatter, `Receive` = client exception |
| `Exchange` | a message through the server | extends `ErrorSurface`: `ParseParts`, `RefuseParts` = `parts_to_input`; `Returns`, `Unconvertible` = `output_to_parts`; `ComputeInputModes` = the card's side; `ModuleRaises` hands over to `ErrorSurface` |
| `StreamClient` | `stream_message()` | the generator's loop, one action per way through an iteration; server and network are the environment, with terminal states in the shape of A2A 1.0 (`TerminalStates`) and of 0.3 (`LegacyStates`), of which the client recognises the first |
| `Delivery` | a streamed message end to end | composes `ExecutionProtocol` (the turn), the task's queue and the SSE response (`Write`, `Close`) and `StreamClient` (the consumer), with cancels of other requests and aborts in between; `OnTheWire` = the A2A 0.3 shape our states leave in; `peer` is ours or any other server |
| `CardFetcher` | `fetch()` | `Hit`, `Miss`, `Store`, `Raise`; clock and server are the environment |
| `OpenAPIBackend` | `build_openapi_backend_from_config()`, `openapi_backend()` | one action per stage and per way it raises |
| `Startup` | how a server comes up | extends `OpenAPIBackend`: one action per step of `main`/`_run_serve`, `serve`/`async_serve` and the checks of `create()`, and one per way each of them ends the start |
| `MC*` | instances for TLC | values for constants, symmetry sets |
| `*Proofs` | theorems | section 4 |

How they compose: `A2AExecutor` implements `ExecutionProtocol`; `Delivery` runs that
protocol against `StreamClient` and implements both; `Startup` drives
`OpenAPIBackend` and implements it; `Exchange` puts the conversions in front of
`ErrorSurface`. So each abstract module is used twice: once as what a component
promises and once as what the next one may rely on.

Each module also holds *slips*: operators that change one definition the way a
plausible mistake would. They are unused by the specifications; each property is
checked to fail when a definition is replaced by its slip, so no property holds
by the shape of its model alone.

### The executor in detail

Code between two awaits is atomic on one event loop, so it is one action; every
await is a value of `pc` (for `execute`) or `cpc` (for `cancel`):

| `pc` | the await in `server/executor.py` |
| --- | --- |
| `announce` | 96, the initial task |
| `refusing` | 426-437 from the early returns, before the `try` |
| `call` | 350 `call_async`, or 287 `__anext__` |
| `chunk` | 294, a chunk's artifact event |
| `output` | 197 the whole artifact, or 305 the empty end-of-stream artifact |
| `completing` | 206 / 314, the completed status |
| `report` | 218-248 and 335, the status of a failure |

An `await enqueue_event(e)` has two steps. Other coroutines may run before `e` is
on the queue and again before the caller resumes: `pend` holds `e` until `Publish`
puts it there, and the caller goes on once `pend` is empty. `Guarded` are the
values of `pc` inside the `try`, where `finally` will run. `cancel()` has one await,
358: `put` is before its event is on the queue, `notify` after. asyncio may cut it
short at either (`AbortCancel`): the token has been called, and the event is `lost`,
or on the queue and never counted.

`streamKind` is what `inspect` says of the host's executor, chosen once: an async
generator function, a coroutine function (which passes the test for streaming and
then has no `__aiter__`), or neither. `bind` says how far `Context.create` got before an exception was swallowed (line
174): everything, the token only, or nothing. `aborted` remembers the runs asyncio
cut short. `store` is the SDK's view of the task. Chunks are data: what a
subscriber can tell apart is whether an artifact event replaces (`first`, `whole`)
or extends (`more`, `end`), so an endless stream has finitely many states. `heads`
counts the replacing ones of one execution, because the chunk index is a local of it;
the artifact id is that of the task (line 269).

`Rest` is the server waiting for requests. With it, TLC's deadlock check means
that no execution and no cancel is ever stuck half-way.

### Assumptions about what is not under `src/src`

- **asyncio**: code between awaits is atomic; a ready coroutine is eventually
  resumed; timers fire; a task may be cancelled at any await.
- **a2a-sdk**: at most one `execute()` per task at a time; no message and no
  cancel for a task its store knows as ended; owner-scoped stores; a follow-up
  turn may run in the first producer's context or in a new one (left open).
- **apcore**: `EXECUTION_CANCELLED` is only raised out of a Context whose token
  has been called; `registry.register` refuses a taken id; an approval handler is
  configured (otherwise gates do not engage, which the code warns about).
- **apcore-toolkit**: ids are unique within one scan; the writer reports per
  module and does not overwrite.
- **a2a-sdk's SSE response** (`Delivery`): the queue of a task is drained in order;
  nothing is written behind a terminal status; the response closes after a terminal or
  input-required status, or when the turn is over and the queue is empty. A request
  without an `A2A-Version`, such as that of `stream_message()`, is answered by the 0.3
  routes in the shape of 0.3 (`server/factory.py:507-513`, `client/client.py:257-262`,
  `tests/explorer/test_explorer_examples.py:369`).
- **apcore's Config** (`Startup`): with a config file it is in namespace mode, the
  environment overrides the file and a registered default comes last; without a file
  it returns nothing. `Registry(extensions_dir=...)` does not discover by itself.
- `enqueue_event` does not raise. The metrics callback is enabled.
- Handlers in `AuthScope` serve requests one after another; a context variable has
  one value per asyncio task, copied when a task is created.

## 3. Runs

The largest run takes little more than a minute on two workers. `CHECK_DEADLOCK`
is never switched off.

| Run | Bounds | Question |
| --- | --- | --- |
| `Executor` | 1 task, 2 runs, 1 cancel, every kind of executor, fair scheduling and timers | Does a cancel always reach the run in flight and only that one, does the map stay clean, does each run follow `ExecutionProtocol` and append only to output it has begun itself, do the counters match the queue, is every message answered however long the module hangs or streams? A second turn and a cancel that straddles both are the case a map keyed by task, an artifact named after the task and a counter moved by two actors could get wrong; and an answer must not be that of the turn before. More tasks share nothing but the counters, and a second cancel meets the first only there and in the store; the theorems (section 4) are for any number of both. |
| `Cards` | 2 modules, 1 management module, 1 caller, 3 ACLs or none, 2 changes | Are the surfaces honest and discreet, does the extended card match the ACL of now? Two changes are enough for a card to age twice: one change to the registry and one to the ACL. |
| `Scope` | 3 requests, 2 handlers, 2 tasks, 6 kinds of token | Do owner and principal agree; are answers from one's own bucket; is nothing left between requests? Three requests on two handlers force one handler to serve two. `RequireAuth` is TRUE, as `create()` has it; requests without an identity come in as exempt ones, and the theorems cover both settings. |
| `Exchange` | every form of message, 6 kinds of schema, every error class and kind of output, both policies | Is a message in an advertised mode accepted; is a faulty output ours; do status, JSON-RPC error and exception tell one story, and does disclosure widen one surface only where it should? The data are finite by their classes, so the run is exhaustive. |
| `Delivery` | our server: up to 5 events of a turn and its cancels; others: up to 4 frames of 16 kinds; fair consumer, turn and writer | Order and errors raised, under cuts at any point; one outcome, and an end at once, where a server frames its states as A2A 1.0 does; is a completion of ours whole; does a stream of ours only end quietly when its consumer has everything, and does it end (liveness)? Five events are an announcement, two chunks or cancels, the seal and the completion, so a cancel can fall between any two. |
| `CardFetcher` | 3 fetches, TTL 2, 3 ticks | How old may a card from the cache be, and is a card that was asked for one of its own time? Three overlapping fetches allow an old card over a newer one, and a third to read it. |
| `Startup` | every command line (an OpenAPI location or none, a prefix or an empty one, a base URL, an extensions directory), 11 kinds of section, 2 legal ids, 1 illegal, 4 kinds of operation, 2 builds of a host program | Backend: all or nothing, all accounted for, no silent write. Server: nothing fetched without a namespace, authentication never dropped, the timeout from the highest tier. The second build and the host's own modules give the collisions. |

The type invariants of `Exchange` and `Delivery` are in no run: the mistakes one would
plant to break them break other invariants of the same runs first, and they are
proved (section 4).

The remaining runs are the disagreements of section 5: each checks one claim and
TLC shows a behaviour of the code that breaks it.

**Fairness.** `A2AExecutor`: weak fairness of `Host(t)` (what the loop does by
itself) and of `Expire(t)` (the clock), per task: asyncio resumes what is ready
and `asyncio.wait_for` has a timer. Nothing is assumed of the module, of clients
or of asyncio cancellation, so the liveness result covers a module that hangs or
streams for ever. `Delivery`: weak fairness of the consumer (`Generator`: it keeps
iterating), of the turn (`Execute`: it ends, which `EveryMessageAnswered` says of
the executor) and of our server's writer (`Serve`: the loop drains the queue).
Nothing of the network, of a cancelling request or of another server, so
`TerminalEndsTheStream` holds even if that server never closes the connection.
`EveryStreamEnds`, about our own, needs the writer: no state of ours is terminal to the
client, so it is the close of the response that ends the stream. No run uses strong
fairness.

**Named bounds.** `MaxRuns`, `Cancels` (executor), `MaxChanges` (cards),
`MaxFrames` and `MaxForeign` (stream), `MaxTime` and at most one new card per tick
(fetcher), `MaxBuilds` (start-up). The theorems hold for every value of these.

## 4. Theorems

TLAPS checks every leaf; nothing is assumed but the named `ASSUME`s on constants,
which TLC evaluates in the runs. The proof modules are separate from the
specifications.

| Module | Theorem | Says, for every value of the constants |
| --- | --- | --- |
| `A2AExecutorProofs` | `TypeCorrect` | types; the gauge is never negative |
| | `EventOrderInvariant` | what is published and pending at each await |
| | `OutcomesAreCounted` | per task, no more terminal statuses than runs started plus cancels published |
| | `CanceledOnlyOnRequest` | `execute()` says "canceled" only if a `tasks/cancel` has called that run's token |
| | `AlwaysAnswered` | a run not cut short by asyncio ends with an outcome |
| | `NeverReplaced` | a run begins the artifact afresh at most once and extends only what it began |
| | `NoLeak`, `Reachable` | the token map holds exactly the live tokens not yet called |
| | `CancelPrecise` | a cancel signals the run in flight or none |
| | `Implementation` | the executor implements `ExecutionProtocol` |
| | `MetricsMatch` | at rest /metrics agrees with the queues, give or take one per run, or cancel past the queue, that asyncio cut short |
| | `GaugeStaysZero` | the gauge of active tasks never leaves zero |
| | `EveryMessageIsAnswered` | liveness: every message is answered, provided the host and the timers can act when it is their turn |
| `AgentCardsProofs` | `TypeCorrect`, `HonestCard`, `Discretion`, `ExtendedAgreement`, `CacheIsCurrent` | the properties of the `Cards` run of the same meaning |
| | `CardsNeverChange`, `OnlyTheFirstSkillsAreServed` | the cards of `create()` are final, and every answer is cut from them |
| `AuthScopeProofs` | `TypeCorrect`, `PrincipalsAgree`, `TasksStayPrivate`, `NothingIsLeft` | types, owner = principal, answers from one's own bucket, no residue |
| `ExchangeProofs` | `SurfacesTellOneStory` | errors one after another: refusals agree on all surfaces, fixed texts stay fixed, the texts of a refusal part exactly where there is something to disclose |
| | `OneStoryPerExchange`, `FixedTextsStayFixed` | the same in a whole exchange, whoever raised the error |
| | `ExchangeTypeCorrect`, `OutputsAreOurs`, `AdvertisedIsAccepted` | types; faulty outputs are never the caller's fault; advertised modes are accepted |
| `StreamClientProofs` | `TypeCorrect`, `EventsArriveInOrder`, `OneOutcomeOnly`, `ErrorsAreRaised` | a client of any server, for streams of any length |
| | `OutcomeIsReached`, `OutcomeDrawsNear` | a terminal status in the shape of 1.0 that was sent lies ahead of the generator until it is over, and nothing but its own steps changes how far |
| | `ReturnsClean` | a stream ends without an exception only at a terminal status or at the end of a closed response |
| `DeliveryProofs` | `ClientImplementation`, `TurnImplementation` | the composition implements `StreamClient` and `ExecutionProtocol` |
| | `DeliveryTypeCorrect`, `DeliveredOutcomes` | types; what holds of the client with any server (order, nothing behind a 1.0 outcome, errors raised) holds with ours |
| | `CompletedMeansWhole` | "completed" comes after all the output, in order |
| | `QuietEndsAreWhole` | a quiet end comes after a final event or after all that was queued |
| | `OurStreamsEndByTheClose` | on a stream of ours nothing the generator is given makes it return: it does so only at the end of a closed response |
| | `TurnNeverGoesBack`, `FinishedTurnsDrain` | the ranks of a turn and of what it leaves to be delivered only fall |
| | `NobodyWaitsForNobody` | a stream of ours that is not over has a party that can act |
| `StartupProofs` | `BackendImplementation` | a starting server implements `OpenAPIBackend` |
| | `RegistryAllOrNothing`, `NothingGoesMissing`, `WritesAreAnnounced` | the backend's promises, for any set of operations |
| | `StartTypeCorrect`, `FetchesAreNamespaced`, `AuthIsNeverDropped`, `TimeoutTiersInOrder` | the promises of the start |
| | `CliServesTheBackend` | a command line serves what the backend has registered, all of it and nothing else |
| | `DirectoryAloneNeverServes`, `AssertionFailsExactlyThere` | section 5, for every command line and section |
| `CardFetcherProofs` | `TypeCorrect`, `CardsAreFresh` | for any number of fetches, TTL and schedule |

The arguments:

- **Executor.** `AlwaysAnswered` is not inductive: an idle task says nothing about
  how it got there. `EventOrder` says for each await which event may be pending
  and which was last; it is inductive with `TypeOK` and carries
  `AlwaysAnswered`, `NeverReplaced` and `Implementation`. The refinement maps the last event of a run to the phase of
  the turn; only `Publish` and `Start` change it, so the proof is one lemma about
  `Publish` and a stutter for the rest. `NoLeak` is inductive with `TypeOK`;
  `Reachable` is too, because `signalled` only grows; `CancelPrecise` follows from
  `NoLeak`, since what is in the map is the run in flight.
- **Terminal statuses.** A queue can hold two, since `cancel()` and the `execute()` it
  races both write one; `OutcomesAreCounted` says that it gets no more than that. By
  itself that is not inductive: it has to know that an execution that is over, or whose
  last event is terminal, has spent its one (`Spent`), and that a cancel is counted at
  the step that publishes. `CanceledOnlyOnRequest` follows the word backwards: what is
  called "canceled" was signalled (`CanceledWasSignalled`), and what was signalled was
  asked for (`SignalsAreRequested`).
- **Metrics.** `MetricsMatchTheWire` only speaks of rest. In between, an execution
  or a cancel may have been counted and not published (`Early`) or published and not
  counted (`Late`, `Waiting`). `DriftIsBounded` adds those sets to both sides and is
  inductive: a step moves one task or one cancel in or out of one of them
  (`TaskStep`, `CancelDrift`), and an abort takes one element away and is counted
  itself (`AbortDrift`, `CutDrift`), because a run is aborted once (`RunsAbortOnce`). At rest the sets are
  empty. This needs the tasks and cancels to be finite (`FiniteAssumption`).
- **Gauge.** Every caller of `on_state_transition` names an active state as the old
  one, and a transition from an active state does not raise the gauge.
- **Answers (liveness).** `Left(t)` ranks the awaits of an execution from 12 (the
  announcement is pending) to 0 (idle). No step raises it (`LeftNeverGrows`), and no other
  execution of the task starts before it is 0. At rank 10 the module or the stream loop
  may go on for ever with the rank unchanged, and there the timer lowers it
  (`TimerDescends`); at every other rank each step of the host does (`HostDescends`).
  So no rank is for ever (`RankDrops`, one use of fairness each), and the twelve of
  them follow one another; at 0 `AlwaysAnswered` says what the answer is. What a prover
  without ENABLED cannot show is that those steps are enabled whenever the rank says it
  is their turn. That is `NeverStuck`, the hypothesis of the theorem
  (`FairSpec /\ []NeverStuck => EveryMessageAnswered`) and an invariant of the run
  `Executor`.
- **Exchange.** What an exchange shows is a function of the error and the policy:
  `SurfaceInv` says that status, frame and exception are each what the tables make of
  the error in hand, or not there yet. The properties then speak of the tables only and
  are proved class by class (`RefusalsAgreeOn`, `FixedStaysFixedOn`, `SurfacesPartOn`).
  `ExchangeInv` adds where in an exchange the error can come from, what the input is
  given message and schema, and that a completed status has an artifact.
- **Cards.** `HonestCard` is inductive because `register_module()` never touches a
  taken id; anything that does sets `drifted`. `Discretion` adds that the public
  card itself holds no management module. `CacheIsCurrent` is inductive with the
  types: adding a module and clearing the cache are one step. `OnlyTheFirstSkillsAreServed`
  needs no more than that nothing is answered before `create()`, because the cards never
  change after it.
- **Auth.** The link is the variable itself: while a handler serves a request it
  holds exactly that request's identity (`VarIsCred`), no request has two
  handlers, and what is copied from the variable stays that of a sender.
- **Stream.** The flag `terminal` says what the generator is suspended in; while
  reading it has yielded nothing terminal and read no error frame. The order is stated
  by counting: the event in frame `i` is yielded in the place it has among the events,
  `EventsUpTo(sent, i)`. That is inductive (`OrderInductive`): a frame appended to the
  stream leaves the counts below it alone (`EventsUpToAppend`), and a frame that is read
  adds one to the count or none (`EventPlace`).
- **Ends of a stream (the safety half of the liveness properties).** For each terminal
  frame `n` that was sent, `StepsTo(n)` counts the steps the generator is away from it:
  at most `2 * n + 2`, raised by nobody, lowered by each of its own steps, and it stands
  where it needs neither server nor network to go on (`OutcomeAhead`), because it stops
  at the first terminal frame (`PassedNoOutcome`). That is for servers that frame their
  states as A2A 1.0 does; in a stream of ours no frame is terminal to the client
  (`OurStreamsEndByTheClose`). In `Delivery` the same is said of the
  turn (`TurnAhead`, at most three) and, once it is over, of everything that is left
  (`Remaining`: to write, to read, to close, which each step of anybody lowers). And no
  state of such a stream is without a party that can act (`SomebodyIsReady`), in terms
  of the guards in the code instead of ENABLED. What these theorems leave out is only
  the step from "it falls under fairness" to "it reaches zero".
- **Delivery.** What is sent is a prefix of what was queued (`SentIsQueued`), what
  is yielded a prefix of what was sent (`YieldedIsRead`), and in the queue
  "completed" comes after the seal (`SealedBeforeCompleted`). The refinements map
  every step to one of the client or the turn or to a stutter; with the first of
  them the client's theorems carry over by temporal logic alone. A quiet end is whole
  because on our streams the client returns only at the end of a closed response
  (`OurStreamsEndByTheClose`, from `ReturnIsClean`), and the response is closed only behind a final event or with the
  queue drained after the turn (`ClosedInOrder`).
- **Start-up.** Every step of a start is one of the backend's or leaves it alone
  (`StepIsBackendStep`). The backend's invariant says that nothing is on the registry
  before writing begins, and that from then on every scanned operation is in
  one of the sets of written, pending, skipped and failed ones. Authentication and
  timeout are carried by two invariants, per stage, about what has been asked so far.
  For a command line `CliInv` says, stage by stage, that what gets past a guard has been
  configured and that every module on the registry is a proxy of the backend's, so that
  a directory alone leaves it empty for ever.
- **Fetcher.** The stamp is taken before the GET is sent, so a card in a response
  or in the cache was still served at its stamp (`StampIsHonest`,
  `ResponseIsCurrent`).

Only model-checked:

- `TerminalEndsTheStream` and `EveryStreamEnds` (`Delivery`). Their safety halves are
  proved: the ranks, that nobody raises them, and that somebody can lower them. But the
  ranks start at a height no constant bounds, so reaching zero needs induction
  over a temporal formula, which the installed provers do not do. (The executor's rank
  starts at 12 whatever the constants are.)
- `NeverStuck`: it is about ENABLED.
- The five claims of section 5, which the code breaks: there TLC's counterexample is
  the result. How far each goes is proved, as said there.

## 5. Where the code and its documentation disagree

Each has a run that shows it; the quotations are in `PROJECT.json`.

1. `NewSkillsClaim`: `register_module()` clears a cache "so card_modifier picks up
   new skills", but no served card is built from that cache. For any modules, ACLs and
   callers no skill that `create()` did not find is ever served
   (`OnlyTheFirstSkillsAreServed`).
2. `DisclosureClaim`: the formatter registered with apcore is the mapper of
   `__init__`, not the one `create()` makes, so `disclose_refusal_reason` reaches
   the task status only, where the comment promises both surfaces. The two part for a
   refusal with a reason to disclose and nowhere else (`SurfacesTellOneStory`).
3. `CliLaunchClaim`: `--extensions-dir` opens a registry on the directory and never
   calls `discover()`, which every other way to give a directory does; a directory of
   modules ends in "no modules". No command line without an OpenAPI configuration ever
   serves or exits with success (`DirectoryAloneNeverServes`).
4. `RegistryAssertionClaim`: `assert registry is not None  # guarded above` is not
   guarded: with `--from-openapi` and a section such as `openapi: false` the usage
   check passes on the flag and the build is skipped on the section. It fails in no
   other way (`AssertionFailsExactlyThere`).
5. `TerminalStopClaim`: the changelog says that `stream_message` stops on a terminal
   task state instead of waiting for the connection to close. It recognises the frames
   of A2A 1.0, but asks with the unversioned `message/stream`, which our own server
   answers in the shape of 0.3. So on our streams it never stops at a state, and always
   at the close (`OurStreamsEndByTheClose`), which does come (`EveryStreamEnds`).

What the models allow, met while writing them, without a run of its own:

- The documentation lists *working* in the task lifecycle (`README.md:27`,
  `examples/README.md:89`); `execute()` only notifies it to the metrics callback, and
  no subscriber ever sees it.
- `active_tasks` (`server/factory.py:79`) only goes up on a transition from an
  inactive state, which nobody reports, so it stays at zero (`GaugeStaysZero`).
- `--execution-timeout` defaults to 300 and is always passed on, so for the command
  line neither configuration nor environment can set the timeout.
- An empty flag hides the section's value instead of falling through to it, and an
  empty key file does not fall through to `APCORE_JWT_SECRET`.
- The merge of flags and section is computed again where `main()` resolved nothing,
  although a comment says it is resolved once.
- Four of the registered defaults (`cors_origins`, `explorer`, `metrics`,
  `push_notifications`) are read by nobody.
- A section of the wrong shape that is falsy, without flags, ends in a usage error
  that does not mention it.
- `parts_to_input` promises a string or a dict and returns whatever the JSON is.
- A skill that advertises `application/json` answers a list or a number as a text part.
- A cooperative cancel is counted in `canceled_tasks` twice, by `cancel()` and by
  the `execute()` it stopped, and its task has two terminal statuses on its queue.
- A cancel that arrives before the token is registered (`server/executor.py:151`)
  does not stop the module.
- With disclosure on, a refusal whose message sanitizes to nothing gets the fixed
  string with guidance appended (`adapters/errors.py:272` looks at the flag only).
- A refusal that is no stream (a 401, a plain JSON-RPC error) ends
  `stream_message()` normally, while the unary path raises for it.
- The artifact id is that of the task, so the first chunk of a later turn (after
  *input_required*) replaces what the earlier turn streamed; within a turn output is
  only extended (`NeverReplaced`).
- A cancel cut short by asyncio has stopped the module all the same; its event may be
  lost, or published and not counted.
- `openapi_backend()` called with a string for `acknowledge_unapproved_writes` takes it
  for an acknowledgement; `_as_bool` guards the way through the configuration only.
- An overlapping fetch may put an older card over a newer one, within the TTL.
- A token whose id is an empty string names the owner unauthenticated callers share.
- `register_module()` before `create()` registers nothing.

## 6. Not modelled

- `convert_input_schema`, `convert_output_schema` and the resolution of references in
  `adapters/schema.py`: nothing under `src/src` calls them outside their own module.
  `detect_root_type` and the input modes are in `Exchange`.
- Skill names, tags, examples, descriptions and other texts; the explorer page;
  logging. `_warn_on_unprotected_control_surface` only logs.
- The composition of routes and middleware in `create()`: a declaration, evaluated
  once by Starlette. (`AuthMiddleware` wraps CORS, so a preflight without credentials
  is answered 401.)
- `total_requests`, uptime, `/health`, `/metrics`: one increment and read-only views.
- The unary calls of the client: one POST each, no state. Their error mapping is in
  `JsonRpcErrors`.
- `resolve_spec_location` beyond whether a text names a location: it reads files.
- `enqueue_event` raising on a closed queue; two executions of one task (the SDK
  rules it out); a `data:` line whose JSON is no object.
- Storage and push notifications are the SDK's, re-exported or instantiated; re-exports
  and examples have no behaviour of their own.
- Crash and restart: nothing is persisted by this code, so a restart is `Init`.

## 7. Plan

Done, in this order: executor with protocol and proofs; cards; auth; errors; client
stream; card fetcher; OpenAPI backend; start-up; conversions; end-to-end delivery;
the proofs of the backend, the start-up, the delivery, the metrics, the exchange and
the order of a stream; liveness of the executor; the safety half of the liveness of a
stream; how far the disagreements of section 5 go.

Left, by importance:

1. A finer `Delivery` with `A2AExecutor` itself in the place of its protocol, so that
   two turns of one task share the queue and a cancel's token and its status are seen
   together by the consumer.
2. `enqueue_event` on a closed queue, once it is settled what the SDK version in use
   does there.
3. `RequestCount` and health as part of a composed server model, if the composition
   gives them something to get wrong.

## 8. Running

    tlc -workers 2 -config Executor.cfg A2AExecutor.tla
    tlapm A2AExecutorProofs.tla

Module and configuration of every run are in `PROJECT.json`.
