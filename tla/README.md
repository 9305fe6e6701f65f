# A TLA+ model of the Rabit backend

Rabit is a trading assistant: a FastAPI application in one Python process that
serves chat turns of language-model agents, follows market prices and news,
raises price alerts, and charges the cost of a chat to the user's Solana wallet.

This directory models its stateful core. Each module is translated from the
code under `src/`; `PROJECT.json` maps every definition to its lines.

## How the system runs

*One event loop.* Every route is `async def`, and nothing of the core runs in
another thread. Two operations interleave only where one of them awaits. An
action of a module is therefore the code between two awaits; an operation
without an await is one action.

*JSON stores.* Nearly every component keeps a dictionary and saves all of it to
one file on each change: `open(path, "w")`, then `json.dump`. Three things
follow, and every module with a store has them:

- the dictionary is changed before the save, so a save that raises leaves
  memory ahead of the file;
- `open` truncates first, so a failure or a crash in the middle leaves a broken
  file, for the records of everybody;
- a broken file loads as an empty store, silently.

*External services.* The Solana RPC node and program, OpenRouter, Phantom's
market API, CoinGecko and the news sources are outside the repository. They are
modelled by what the code can see of them: an answer, a refusal, a lost answer.

## Inventory

| Component | State | Operations | Hard behaviour | What makes it correct |
|---|---|---|---|---|
| AI usage settlement (`api/routes.py`, `agents/contract_execution.py`, `agents/ai_usage_settlement.py`) | settlement store and file; usage sequence of each wallet on the chain | settle, prepare and submit directly, list, reconcile | check and record apart by two awaits; lost answers; crash between send and record; transactions that never land | a scope is charged once; what was acknowledged stands; only the owner pays; records find their transaction |
| Monitoring ledger (`agents/service_costs/monitoring.py`) | per scope: alerts, symbol windows, counters; file | alert started, triggered, removed; summary | shared windows of several alerts; failed saves; restart in an open window | windows agree with alerts; charged time is watched time; no trigger without a setup |
| Price monitor and tools (`ws/price/monitor.py`, `agents/tools/market/price_monitor_tools.py`) | alerts, running flag, loops, subscriber queues | add, remove, start, stop, poll, broadcast, subscribe | two loops after stop and start; ledger failure inside a round; alerts lost in a restart | ledger and monitor agree; nobody is told twice; reached alerts trigger; triggered alerts are told |
| Market feed (`ws/handlers`, `ws/phantom`, price WebSockets) | latest prices per symbol and exchange, candles, listeners, connections | poll, update, notify, broadcast, connect, disconnect | connections come and go during a broadcast; listeners never removed; three handler instances | each connection gets each update; the latest price is the newest |
| Conversation store (`agents/memory`) | per scope: messages and metadata, in a file; a copy per agent | load, add message, clear, rename, delete | concurrent turns on private copies of a scope; delete or rename during a turn | no acknowledged message is lost; deleted stays deleted |
| Agent turn (`agents/core/base.py`, `agents/compression`, `agents/nodes`, `agents/tools`) | route, plan, node statuses, observations, trace; the one chart of TradingView | prepare, compress, route, plan, run nodes, call model and tools, store, fall back | failure or cancellation at each await; nodes run again; two turns on one chart | a turn uses the tools it may, draws where and once, tells what failed, and ends |
| Chat stream (`api/routes.py`) | event queue, agent task | emit, heartbeat, done, disconnect | error while the done event is built; client leaves | every stream ends with one done event |
| Pipeline and graph executor (`agents/pipeline`, `agents/core/graph_executor.py`) | plan, node statuses, observations | route, build plan, preflight, run and repeat a node | a node fails, is skipped or needs what failed | a node runs after what it needs; what failed reaches the answer |
| News monitor (`ws/news`, news WebSocket) | keywords, seen URLs, histories, subscribers | poll, store, broadcast, trim, start, stop, ensure symbols | two loops; trimming an unordered set; two events at one wake-up | an article is told once; no message is dropped; what clients want is searched for |
| Session cost (`agents/openrouter/session_costs.py`) | cost and events per scope; file | record usage, summary | swallowed save failures | cost equals the sum of its events |
| Wallet authentication (`agents/auth`) | nonces with lifetime and use mark; file | create, get, mark used, verify | lifetime, single use, restart | a challenge is accepted once, within its lifetime |
| Uploads (`agents/uploads`) | files, index, file of the index | save, resolve, delete, expire | writes in steps; a clean-up that stops half way | no file is left that nothing can delete |
| Exchange connections (`agents/exchange_connections`) | encrypted credentials, active flag; file | create, update, delete, read active | two saves per change | at most one active connection per exchange (nothing calls it yet) |
| Model catalogue (`agents/openrouter`) | list in memory, database and file, enabled flags; TTL snapshot of the chain | fetch, refresh, toggle, clear, snapshot | both are filled across an await; failures fall back or are cached | usage is priced as listed; a snapshot is not older than its TTL |
| Coin information (`ws/services`, `ws/coingecko`) | coin records, last request time | get, initialise in rounds | shared rate limit; unbounded retry | initialisation ends when every symbol can be found |
| OHLC store (`ws/database`) | candles per symbol, exchange, interval | merge, cap, throttled save | throttle and crash | sorted, unique, capped, bounded loss |
| User profiles, pipeline artifacts | one dictionary or file each | create, update, read | as every JSON store | — |

The agent turn calls the tools, which call the price monitor, which calls the
ledger. The turn also records its cost, which settlement later charges. The
market service feeds the handler that the monitor, the routes and the
WebSockets read. `PROJECT.json` lists every component with its status and every
hazard with its line.

## Modules

| Module | What it is |
|---|---|
| `Settlement` | both ways of charging a scope, the store, the chain, crashes |
| `SettlementProof` | its type invariant and four safety properties, for every instance |
| `MonitoringMeter` | the abstract promise of the ledger: each tick is charged once to each watched symbol |
| `MonitoringLedger` | the ledger with windows, closed totals, counters and its file |
| `MonitoringLedgerProof` | its types, its windows, and that it implements the meter |
| `PriceMonitor` | alerts, loops, subscribers and tools, over an instance of `MonitoringLedger` |
| `PriceMonitorProof` | that ledger and monitor agree, and whom events reach |
| `Conversation` | chat turns, the copies their agents keep, and the session store |
| `ConversationProof` | what stays in a conversation, and in which order |
| `AgentPlan` | routing, plan and tools of a turn, as operators: what the router makes of an answer, which nodes run, which tools are withheld |
| `AgentTurn` | turns step by step: nodes, chart, model and tools, fallbacks and trace, over `AgentPlan` |
| `AgentTurnProof` | what a plan holds, what tools a turn is offered, and what a turn leaves on the chart and in its trace |
| `MarketFeed` | the poll loop of the market service, the handler, its listeners and the price WebSockets |
| `MarketFeedProof` | that every update reaches every connection, and that the latest price is the newest |
| `NewsMonitor` | loops, keywords, seen set, histories, subscribers and the news WebSocket |
| `CoinInfo` | coin records: initialisation in rounds, asset routes, rate limit, file |
| `ModelCatalogue` | OpenRouter's models in memory, database and file, and the prices usage is recorded at |
| `RegistrySnapshot` | the cached snapshot of the on-chain model registry |
| `WalletAuth` | sign-in nonces, in memory and file |
| `Uploads` | attachments: files, index, file of the index |
| `Selection` | the list comprehension that filters a sequence, as a recursive function |
| `SelectionProof` | what it returns, for every sequence; induction over natural numbers as a fact about sets |
| `DataServices` | feed, news monitor and coin information, each by itself |
| `Services` | these and the four stores, each by itself |
| `ServicesProof` | their types and safety properties |
| `MCSettlement`, `MCPriceMonitor`, `MCConversation`, `MCAgentTurn`, `MCServices` | instances for TLC |

Definitions named `Mut...` are not part of the specifications. Each is a
plausible bug in the definition that follows it, and shows which property would
notice.

### Settlement

A request `r` is made once, with a kind (settle or direct), a scope and the
authenticated wallet. `pc[r]` is the await its handler is suspended at:

    idle -> readiness -> profile -> sending -> sent -> done      settle
    idle -> readiness -> profile -> signing -> done              direct

`Commit` is the store check, the preview and the fixing of the amount
(`routes.py:1420-1430`); `ReadProfile` the usage sequence after the next await;
`Accept`, `SendFails` and `AnswerLost` the outcomes of the RPC node;
`RecordSettlement` and `SaveFails` the upsert. `fate[r]` is the transaction's
life on the chain, which moves on its own (`Land`, `Drop`): the program takes a
transaction only at the wallet's current usage sequence, as the record's address
is derived from it. `RecordUsage` adds cost and a model to a scope at any time.
`Crash` restarts from the file, `CrashInSave` from a truncated one.

The direct route never looks at the store, and neither does the submission of
the signed transaction, which may also skip the preflight.

The variable `disturbed` is history only: no guard reads it. It collects the
scopes hit by one of four events, each marked where it happens:

1. a second settle request passed the check while another was past it and not
   yet recorded (`Commit`);
2. the node accepted and the answer was lost (`AnswerLost`);
3. the process died with a transaction sent and not recorded, or with a record
   that is not in the file (`RestartFrom`);
4. a direct transaction was submitted (`SubmitSigned`).

`CleanScopeChargedAtMostOnce` says that this list is complete: a scope outside it
is charged once at most. `ScopeChargedAtMostOnce`, the claim without the
exemption, is what the comments of the code promise, and the run that checks it
fails.

### MonitoringLedger and MonitoringMeter

The ledger never looks at a clock between calls. It stamps the start of a window
when the first alert on a symbol becomes active, and adds the length of the
window to a closed total when the last one ends. `MonitoringMeter` is what that
has to amount to: a meter per scope and symbol that counts one at every tick
while somebody watches. The refinement maps a window to the set of its alerts
and to its closed total plus the length of the open window, in memory (`live`)
and in the file (`saved`).

The timestamps of the start and end of a window are both naive local times; the
model takes them from one clock that does not go back.

### PriceMonitor

The operations of the monitor and its tools have no await inside that gives up
control in between, so each is one action: `AddAlert`, `RemoveAlert`, `Start`,
`Stop`, `Subscribe`, `Unsubscribe`, and one turn of a loop, `Poll`. (The awaits in
`_fetch_prices` and `_broadcast_alerts` run code that never suspends: a
dictionary lookup and puts on unbounded queues.) `PollFails`, `AddAlertUnsaved`
and `RemoveAlertUnsaved` are the same calls when the ledger's save raises;
`PollFails` triggers part of the alerts, in any order, and broadcasts nothing.

`Start` adds a loop and `Stop` only clears the flag, so a stop and a start before
the sleeping loop wakes leave two loops; the model allows as many as `Loops`.
`Wired` says whether the handler the monitor reads is the one the market feeds.
In the tests it is passed in; in the running program it is not.

Left out: the statistics, `price_cache`, the per-exchange prices (one price per
symbol), and `alert_callback`, which nothing in the repository sets. The only
callers of `subscribe` are tests; it is modelled as the interface it is.

### Conversation

A turn `r` is one chat request, streamed or not. `Begin` is the making of its
agent, which copies the messages of its session from the store
(`conversation.py:34-46`); `turn[r].copy` is that copy. From there to `Finish` the
turn waits for models and tools, in whatever order, and the module has one
place for it, `pc[r] = "waiting"`: nothing the turn does there touches the store.
`Finish` is everything from the first message stored to the last event sent,
between which there is no await: the question, the reply (or the safe error
text) and the metadata are three saves of the store. A failed stream skips the
third, so that its session, if new, has no owner and is never listed.
`PrepareFails` is an exception before the guarded part, `Leave` a stream whose
client disconnects; both store nothing.

The store's save catches its own errors, so after each save the file is new, old
or broken; `Save` and `CrashInFinish` give every such file. `Rename` changes no
message but saves. Titles are left out, and so is everything but the owner in
the metadata. All requests come from one user.

Whether the scope has an open monitoring window when a turn ends is an input:
the windows are the subject of `MonitoringLedger`.

`excused`, `deleted` and `straddled` are history only. `excused` collects the
turns that ended while another turn of the session was waiting, whose session
was deleted, or whose reply was not in the file at a restart.
`EndedTurnsAreKept` says that no other turn is ever lost. `straddled` holds the
turns that waited while their session was deleted; `DeletedTurnsStayDeleted`
says that only they bring deleted messages back.

### AgentPlan and AgentTurn

`AgentPlan` has no state. `Routed` is the normalisation of what the router's model
answers (`intent_router.py`); `NodesOf` and its parts are `build_pipeline_nodes`;
`BlockList` and `BlockedByPreferences` the tools a turn is not offered.

`AgentTurn` follows a turn through `pc[t]`: prepared, routed, `nodes` one after
the other (`SkipNode`, `Gather`, `Review`), the chart node with its commands one
by one (`StartChart`, `Command`, `Persist`, `ChartReturns`), the model with its
tools (`StartModel`, `CallTool`, `CallToolStream`), and the end (`End`,
`EndStream`). Every command to TradingView is an await, at which other turns run,
and all turns drive the one chart: `chart` is its symbol and its lines, each with
the turn, the node's attempt and the level it is for. `faults` bounds the commands
that the chart does not carry out or whose answer cannot be read.

What the router and the models say is an input, so that words outside every
vocabulary, the empty group of execution, and an answer that is no JSON are among
them. `crossed`, `raised` and `repeatable` are history: turns whose chart was moved
by another, nodes whose last attempt had a failing tool call, and turns whose
chart node may run again.

Left out: texts, the chart's timeframe (treated as its symbol is), indicators'
values, and the vision fallback.

### MarketFeed

A round of the Phantom service fetches spot, then futures prices, and hands each to
the handler, which calls its listeners one by one; each listener is a WebSocket's,
and sends to all open connections one by one. All of these are awaits. `service`
and `batch` are where the round is, `current`, `listener` and `position` where the
walk of one update is; `Connect` and `Disconnect` change the two lists while they
are walked by position. A departure moves the connections behind it up, so that the
broadcast skips one. It gets the update nevertheless, because a listener is never
removed: there are as many walks as clients there ever were. The same leak makes
`n` connections get each update `n` times; removing a client's listener with it
(`MutDisconnect`) would lose updates. `stayed` and `reached` are history.

### NewsMonitor

`loops` counts the loops that run, `Poll` is a round of one of them: what is found
for the keywords, less what was seen, is stored, broadcast, and the seen set is
trimmed to an arbitrary part. `EndLoop` is a loop that sees the flag cleared. A
client's WebSocket (`Connect`, `Say`, `Sent`, `Deliver`, `Answer`, `Leave`) waits for a news
message or a message of its client, whichever is first; when both are there, the
code handles one and loses the other.

### CoinInfo

Tasks (`init`, and the asset routes) ask CoinGecko for ids, prices and details,
each after the rate limit's sleep (`Send`, `Returned`); `db` is the record a symbol
has, `file` the saved records, `age` the time since the last request, `own` since the
task's own. `Listed` and `Renamed` are which coins CoinGecko has, and has under
another symbol.

### The stores

`ModelCatalogue` has the list the routes show (`memory`) and the database usage is
priced from (`data`), with OpenRouter's offer changing under both: a call that asks
OpenRouter waits twice, for the answer to be made and to arrive. `RegistrySnapshot`
is one cache with a clock. In `WalletAuth` and `Uploads` each handler is one step
(but the reading of an upload's contents), made of several writes of which each
may fail and end it.

## Runs

All numbers are of the configurations in this directory.

| Run | States | Shows |
|---|---|---|
| `settlement` | 381,606 | the properties below hold with two requests, two scopes, two wallets, two models, cost up to 2 |
| `settlement_double_charge` | violated | the idempotency store does not prevent a double charge |
| `settlement_dropped` | violated | "already settled on-chain" is answered for what never landed |
| `settlement_reconciliation` | violated | a dropped settlement is matched with another transaction's record |
| `monitoring_ledger` | 148,140 | windows, triggers and the refinement, with two alerts, two symbols, three ticks, three setups |
| `price_monitor` | 417,312 | ledger and monitor agree, events are told once, alerts trigger |
| `price_monitor_production` | violated | with the singleton handler no alert triggers |
| `conversation` | 857,772 | which turns stay in the store, which can be lost, and what a deletion leaves |
| `stream_failure` | violated | a failed stream of a scope with an open window has no done event |
| `price_alert_answer` | violated | an armed alert is answered with a failure |
| `agent_turn` | 172,877 | tools, nodes, chart, answer and trace of one turn of eight kinds, or of two turns on one chart |
| `services` | 604,925 | each of the three data services and the four stores by itself: broadcasts, spacing, initialisation, and what stores hold after failures and restarts |

*Bounds.* A double charge needs two transactions, and each is a request: two
requests, either of the same or of different scopes, kinds and callers, reach
every pair of handlers in every order of their awaits. Two scopes show that
disturbing one leaves the other alone, and that the wallet's sequence is shared.
Cost up to 2 lets the cost change between two previews, and two models make a
scope unpreviewable. The ledger needs two alerts on one symbol to keep a window
open past the first end, two symbols to tell them apart, three setups so that an
alert id is used again, and three ticks so that a window has a length, closes and
opens again. The monitor needs two alerts for a round that fails half-way, two
loops for the overlap, one queue, three prices for below, between and beyond the
levels; and a long of a chat scope next to a short outside any. In a session,
three turns are one stored before, one that waits with a copy of it, and one
that ends or is deleted meanwhile; they differ only in their names, so the run
uses their symmetry (it checks invariants only). Sessions share nothing but the
file, and one is enough.

A turn alone meets every kind of request and eight answers of the router, with two
faults, enough for a failure, its repetition and another failure; two turns meet on
the chart only, so that the pairs are those that write on it or move it. Three
WebSockets are one that stays, one that leaves and one that joins in the same
broadcast; three updates of two exchanges in rounds of up to two are an
update during another's broadcast. Two articles, a seen set of one and two rounds
make the news monitor forget one and find it again. Four coins are one known, one
found, one renamed and one that does not exist. Two calls of the model routes, one
change of the offer and one failure let the older answer end last, or fail into an
older database. The snapshot's clock goes past twice its time to live. A nonce
needs three failing saves and two restarts for every step of its life to fail once
and be read back; three uploads make a clean-up stop in its middle.
`services` explores the sum of its parts and not their product, as nothing is
shared between them.

*Fairness.* `Settlement` assumes weak fairness of each handler: the event loop
resumes a coroutine whose await is over, and every await is an RPC call that ends
with an answer or with the client's timeout. Nothing is assumed of the user, of
the chain or of crashes. `PriceMonitor` assumes weak fairness of each loop:
`asyncio.sleep` ends. Nothing is assumed of the tools, the market or the clock.
`AgentTurn` assumes weak fairness of each turn: every call it waits for, to a model,
to the router, to the chart or to a tool, has a timeout. `NewsMonitor` assumes it
of the end of a loop and of the monitor's task, which sleep and never wait for
anybody; `CoinInfo` of the clock and of each task, whose requests have timeouts
and whose failures are bounded.

*Properties.* `RecordNamesItsTransaction`, `CleanScopeChargedAtMostOnce`,
`AcknowledgedSettlementStands`, `OnlyTheOwnerIsCharged` and `RequestsEnd` for the
settlement; `WindowsMatchAlerts`, `TriggersAreSetUp` and the refinement
`MeterSpec` for the ledger; `LedgerFollowsMonitor`, `EventsAreNotRepeated`,
`FiredAlertsAreBroadcast` and `ReachedAlertsFire` for the monitor; `EndedTurnsAreKept`,
`RepliesFollowQuestions` and `DeletedTurnsStayDeleted` for the conversation;
`AnalysisTurnsDoNotDraw`, `DisabledToolsAreWithheld`, `FailuresReachThePosture`,
`DrawingsAreNotRepeated`, `DrawingsAreOnTheirSymbol`, `TraceTellsTheTurn` and `TurnsEnd`
for the turn; `UpdatesReachClients` and `LatestIsNewest` for the feed; `NewsReachesClients`,
`NewsIsNotRepeated`, `SymbolsAreSearched` and `StoppedMonitorRests` for the news;
`OwnRequestsAreSpaced` and `CoinsAreInitialized` for the coins; `ListedPricesAreCharged`,
`SnapshotsAreRecent`, `NoncesSignInOnce` and `UploadsAreNotStranded` for the stores. Each
is stated in words above its definition. Deadlock is checked where the process
can always restart, and not in `agent_turn` and `services`, whose turns and bounded
inputs end.

## Where the code differs from what it says

1. *Double charge.* `contract_execution.py:34` calls the settlement store an
   idempotency store. It is checked before two awaits and written after them, so
   two concurrent requests, a retry after a lost answer, a crash before the
   write, or a direct transaction charge a scope twice.
2. *Settled but not on-chain.* The store is written when the RPC node accepts the
   transaction. If it never lands, the scope counts as "already settled on-chain"
   (`contract_execution.py:30`) for ever.
3. *Wrong match.* The reconciliation (`routes.py:1514`) finds the on-chain record
   by the wallet's usage sequence. If the settlement was dropped, the sequence
   belongs to another transaction, whose record is reported.
4. *Unfed handler.* `get_price_monitor()` reads a handler that nothing feeds;
   alerts never trigger (`ws/price/monitor.py:193`, `main.py:28`).
5. *Failing answer.* `add_price_alert` asks for the cost summary while the window
   it just opened is open; subtracting a naive from an aware time raises, so the
   tool reports a failure for an alert that is armed and charged.
6. *Stream without done.* For the same reason the summary in the done event of a
   stream raises while a window of its scope is open; the error path builds the
   same summary, so that its task dies and the client never sees done
   (`routes.py:3318`; the plan of the agent pipeline promises a safe done state).

Each of these is a run that TLC finds violated. Modelling showed more, which are
the behaviour of the models but no run of their own:

- *Market and research nodes are always skipped.* The registry awaits every tool
  (`agents/tools/core/registry.py`), and the news and web tools are plain functions:
  they run, and then raise `TypeError`. The price comes from a handler that nothing
  feeds (`register_tools.py:40-45`). So `docs/plans/2026-04-19-market-snapshot-pipeline-node.md:5`
  ("enriches market-facing requests with live price and per-asset news headlines")
  does not happen, and the composer and the risk review that depend on these
  nodes are skipped with them. The tools that start and stop the news monitor
  take effect and report a failure, for the same reason.
- *A degraded execution is reported as completed*: the stage is overwritten at the end
  of the turn; `docs/plans/2026-04-19-agent-pipeline-refactor.md:90` expects it to stay.
- *The chart node reports drawings that the chart refused*; indicators it added for a
  look are never removed; a request whose asset is locked out draws on the asset
  that is shown.
- *Memory that is switched off is still recalled* into the system prompt.
- *News.* `start_news_monitoring` replaces the keywords and uncovers connected clients'
  assets; every article of a keyword is tagged with all of its symbols; a message
  of the client and a broadcast at the same moment lose one (`routes.py:2714`).
- *Prices.* A failing spot request leaves out the futures of the round; `/assets`
  without an exchange mixes both in the middle of one.
- *Coins.* Requests of different tasks go to CoinGecko together, whatever the rate limit
  (`client.py:32`); coins it renames are fetched again each time, and those it does
  not list for ever.
- *Model catalogue.* Clearing the database says "will be refetched on next request"
  (`routes.py:3703`), but the list in memory keeps it from that: until a forced
  refresh or a restart every usage is recorded at price 0. At a first start usage
  is free until somebody asks for the models. A toggle is not saved, and a refresh
  enables every model. `/models/{model_id:path}` shadows the three routes of `/models/`
  declared after it.
- *Uploads.* The route that deletes one declares the response of a session's deletion,
  which needs a `scope_id`: the file is deleted and the answer is an error. A file
  whose expired record cannot be unlinked fails every later upload.

## Proofs

Proved for every value of the constants, from the named assumptions of the
modules only: scopes have an owner among the wallets, bounds are natural
numbers, there is a symbol, and the null values differ from what they stand
beside.

*Settlement* (`SettlementProof`). The invariant is

    Typed /\ Lifecycle /\ Clean /\ RecordNamesItsTransaction

`Typed` is `TypeOK`. `Lifecycle` ties a request's place to the rest: what
is in flight belongs to the owner, only a request that was sent has a fate, only
a finished one an answer. `Clean` is the core, for scopes outside `disturbed`:
at most one settle request is between the check and the record; while one is
there, nothing is recorded or charged for the scope; and every charge is the
transaction of the one record in the store, which is in the file too. None of
the safety properties is inductive alone: that a second request is refused needs
the record of the first, which needs that no undisturbed scope loses its record
to a crash. `OnlyTheOwnerIsCharged`, `RecordNamesItsTransaction`,
`CleanScopeChargedAtMostOnce` and `AcknowledgedSettlementStands` follow. There is
one lemma per action.

*Ledger* (`MonitoringLedgerProof`). `WindowsMatchAlerts` is inductive once it is
stated of one record at a time and shown to survive `Watched`, `Unwatched`,
`Started` and `Ended`, a later clock, and a replaced file. The refinement then
shows that a tick of the clock is a tick of the meter (which needs that an open
window did not start in the future), that starting and ending an alert is a
switch at which no time passes (closing a window moves its length into the closed
total), and that a restart is a restart. `TriggersAreSetUp` needs `Paid`: triggers and
the active alerts together are no more than the setups, of memory and file each;
it counts a finite set, one alert more or less at a time.

*Price monitor* (`PriceMonitorProof`). A round records all alerts it fires with one
formula; `RoundIsItsCalls` shows that this closed form is what the calls do one
after another, by giving it for no call and for one call more. The invariant is
`Typed /\ Events /\ Accords`. `Events`: an alert that is pending was put on no queue,
and one that fired on each queue once at most, so that a second loop finds
nothing to fire. `Accords`, which is `LedgerFollowsMonitor` and what it needs of
the file: as long as no save failed and no restart lost an alert, every scope has
the same record in memory and in the file, and its counters and the status of each
alert in it are those of the monitor. `Typed` adds to the types that finitely many
alerts were ever added, so that they can be counted. `FiredAlertsAreBroadcast` is read off a round.

*Conversation* (`ConversationProof`). The invariant is
`Typed /\ Lists /\ CopiesKeep /\ Marks`. `Lists`: in the dictionary, the file and
the copy of every waiting turn, a reply directly follows its question, nothing is
there twice, and of the turns that ended only those of this session are there.
`CopiesKeep`: a waiting turn's copy lacks no reply that its session has stored, but of
excused turns, so that its save loses none. `Marks`: a deleted reply is only in a
list that also has a turn that straddled the deletion; a waiting turn has such a copy
only if it straddled itself, or if the copy shows another that did. Each is shown of
`Asked`, `Replied` and `WithMessages` once, and every action is made of them.

*Agent turn* (`AgentTurnProof`). First the operators of `AgentPlan`, for every context
and request: `PlanIsItsNodes` says that a plan holds exactly the planned nodes and ends
with its only composer; `UnrestrictedTurns` that the one way to an unrestricted tool
list is the empty group of execution; `RoutedIsContext` that whatever the router
writes becomes a context with a group. `WellFormed` is then the part of the invariant
that the rest stands on: the types, that a turn is at a node of its plan, and that a
script draws only for a turn that may write. It is inductive by itself, with one
lemma per action. What is left of `Inv` has a part for each property:

- `Drawn`: a line belongs to a turn that has begun and that is not to read the chart
  only. `AnalysisTurnsDoNotDraw` needs it for the tools of the model, too.
- `Attempted`: a second attempt at the chart, and a note of an error, are of turns with a
  failing call, and a line knows its attempt; the lines of the model have none.
- `Aligned`: from the alignment on, the chart is on the asset of every turn that is
  `Free` (not locked out, not crossed). It is not a matter of one turn: another's step
  that moves the chart is what makes the free turn a crossed one.
- `Failures`: a node whose last attempt failed is observed as degraded or skipped, or is
  the one the turn is at, and the composer is observed last. A composer that runs has
  seen no skipped node, so that it finds a degraded one; and its turn is sure, as a turn
  that gathers anything is, so that no earlier branch of the posture is taken.
- `Traced`: until the model runs the trace is the planned one, then that of the nodes.

`StepFrame` is what a step leaves of the other turns, `NewLines` which lines a step
can add, and the parts that speak of one turn at a time need no more of the others.
In the two assumptions of the module, a workload gives each turn a request or none,
and the bound on faults is a natural number; requests and the router's words
are otherwise free, and so is the number of turns.

*Price feed* (`MarketFeedProof`). `UpdatesReachClients` rests on a count: whenever a
connection that stayed has not been sent the update yet, the listeners that are
left, and what is left of this one's walk, are at least as many as the connections
(`WalkOK`). Each departure takes one connection and no listener; each finished walk
takes one listener and serves the first connection that waits. For that, `ListsOK`
says that no client is connected twice and that each has a listener. The lemma
`Removed` is what removing a position does to a sequence. `LatestIsNewest` needs that
updates are numbered in order and that the two tables agree on the newest.

The types are those of `FullInv`, which adds what is left of `TypeOK`.

*Selection* (`SelectionProof`). The provers cannot instantiate an induction theorem's
predicate, but a predicate on natural numbers is a set of them: `SetInduction` says
that such a set with 0 and all successors is `Nat`, from there being no infinite
descent. With it, `SelectedType` shows that the recursive function exists, and that
what it selects is a sequence over the elements selected.

*Services* (`ServicesProof`). No service or store reads another's variables, so that
each has an invariant of its own, and the steps of the others are stutters of it;
`ServicesRunTheFeed` says it of the feed as a refinement, which carries the
theorems of `MarketFeedProof` over.

- `NewsInv` has four parts. `NewsReached` is stated of one client by the operator
  `Reached`: the broadcasts since it joined are those it was sent, waits for or lost,
  its queue is in order and behind what it was sent; a broadcast, a delivery, a loss
  and a departure each keep `Reached`. `NewsMarked`: what was published is in the seen
  set or forgotten, no url that is not forgotten was published twice, and a history or
  a snapshot has only what was published, a snapshot what was published before its
  client joined. `NewsIsNotRepeated` follows as what a client is sent was
  published after it joined. `NewsSearched`: what a connected client wants is tracked, and
  a keyword's unless the keywords were replaced since. `NewsTyped`: the types.
- `CoinsInv`: `Spaced` is why the rate limit holds for one task although all share its
  clock. The last request of all is no older than a task's own, and a task that
  sleeps has left to sleep at least what its own last request asks for. The other
  parts are types, and that a task in a request has a symbol it is for.
- `CatalogueInv`: everything that is listed is in the database with the listed price,
  unless the database was cleared.
- `SnapshotInv`: what is cached was read after its fetch began, and expires its time to
  live after that.
- `NonceInv`: a nonce with a token is used, or absent, in memory and in the file.
- `UploadInv`: a file that is not in the index is one whose write, or the write of
  the index, failed.

*Assumptions.* Besides bounds being natural numbers: alerts, their levels and prices,
and the null values are what their comments say (`PriceMonitor`); `ParametersAssumption`
and `StoreParametersAssumption` give the constants of the services their types, as
`Parameters` of each module lists them, among them that the settings' assets are
symbols, that each client takes one article at least, and that the seen set is
trimmed to no more than its limit. No assumption bounds a number of
clients, articles, tasks, models, readers, nonces or files.

*Only model-checked.* `RequestsEnd`, `ReachedAlertsFire`, `TurnsEnd`,
`StoppedMonitorRests` and `CoinsAreInitialized` are liveness, out of reach of the
provers. What `Caution` adds up is a fold over a set: that it is a level is proved, and
used; which level it is, no theorem says.

## Plan

1. Modelled, checked, and every safety property of the runs proved: `Settlement`,
   `MonitoringMeter`, `MonitoringLedger`, `PriceMonitor`, `Conversation`, `AgentPlan`,
   `AgentTurn`, `MarketFeed`, `NewsMonitor`, `CoinInfo`, `ModelCatalogue`,
   `RegistrySnapshot`, `WalletAuth`, `Uploads`.
2. Not begun: the events in the middle of a stream; candles; the arithmetic of preview
   and readiness as operators checked against a definition.

## Not modelled

*Texts*: prompts, the wording of answers, the content that nodes build, the text of
compression. What the router and the models answer is an input.

*Conversions around external services*: the contract SDK and its codecs, the clients
of OpenRouter, TradingView, Mem0 and the search, response models. The cost
arithmetic (USD, basis points, token units) is not modelled: the ledger counts
setups, triggers and ticks, and settlement takes the summary's cost in units.

*Code nothing calls*: exchange connections (only tests do), the writing of the OHLC
store (`on_ohlc_update`, `save_candles`), `clear_*` of the conversation memory.

*Stores without decisions*: user profiles and pipeline artifacts are saved like every
other store, and nothing is decided from what they hold.

Configuration, scripts and the search container have no behaviour.
