# StockVision in TLA+

StockVision lets a user write trading rules, evaluates them once a minute on
the user's own computer and places the resulting orders with a Korean broker
(KIS or Kiwoom). A cloud server keeps the accounts and the rules and relays
commands from the user's other devices. This directory models the parts whose
correctness depends on order, interleaving, failure and restart, and the
language the rules are written in; it checks them with TLC on small instances
and proves the most important results with TLAPS for every value of the
constants.

    tlc -workers 2 -config engine_orders.cfg MCTradingEngine.tla
    tlapm TradingEngineProofs.tla

`PROJECT.json` lists the runs, the mutants that show each property can fail,
the source lines each definition models, the findings and the hazards.

## The system

| Part | State | Operations | Interacts with | What makes it hard | Modules |
|---|---|---|---|---|---|
| Strategy engine (`local_server/engine/engine.py`, `scheduler.py`) | `_running`, the rules copied at start, the running cycle | `start`, `stop`, `evaluate_all` once a minute | everything below, on one asyncio loop | a cycle has a dozen awaits; stop cancels it at any of them | `TradingEngine` |
| Order pipeline (`executor.py`, `signal_manager.py`, `limit_checker.py`, `safeguard.py`, `price_verifier.py`) | signal states, executed amount, kill level, loss lock, speed window | `execute` and the checks it makes | broker, log database | checked values go stale; exceptions after the order was taken | `TradingEngine`, `OrderSlots` |
| Portfolio filter (`system_trader.py`) | none | `process_cycle` | called by the engine | counts what it has itself selected | `SystemTrader`, `Selection` |
| Position state (`position_state.py`) | quantity and entry price of each stock | record buy or sell, synchronise with the balance | engine, broker | Decimal and float, positions changed outside | `Positions` |
| Engine lifecycle (`routers/trading.py`, `routers/broker.py`, `_command_handler.py`) | `app.state.engine`, `app.state.broker` | start, stop, reconnect, kill, arm | engine, broker | two requests at a time; a step of several fails | `EngineLifecycle` |
| Log database (`storage/log_db.py`) | rows of orders and fills | write (worker thread), sums over "today" | limit checker, loss lock | UTC days against local days | `TradingEngine` |
| KIS connection (`broker/kis/{adapter,state_machine,reconnect,ws}.py`) | connection state, sockets, the reconnect task, subscriptions | connect, disconnect, subscribe, reconnect | engine, KIS | callbacks between awaits; a drop while reconnecting | `KisConnection` |
| Kiwoom connection (`broker/kiwoom/{adapter,ws}.py`) | the same, and the polling of prices | the same | engine, Kiwoom | two sources of quotes; dropped adapters | `KiwoomConnection` |
| Orders (`kis/order.py`, `idempotency.py`, `reconciler.py`) | results by id, statuses by number | place, cancel, reconcile | adapter, broker | answers lost, late, or older than what they are compared with | `OrderBook` |
| Requests (`kis/rate_limiter.py`, `auth.py`, `error_classifier.py`) | recent calls, the access token | acquire, renew, invalidate | every call | coroutines that wake together; a token revoked outside | `BrokerCalls` |
| Mock broker (`broker/mock/adapter.py`) | cash, shares, average prices | buy, sell, set a price | engine in mock mode | averages over partial sales | `MockBroker` |
| Quotes and minute bars (`kis/ws.py`, `kiwoom/{ws,quote}.py`, `bar_builder.py`, `storage/minute_bar.py`) | the bar being built, the stored bars | on_quote, save, aggregate | both connections, engine | late and lost messages; builders of stopped engines go on | `MinuteBars` |
| Alerts, watchdog (`alert_monitor.py`, `health_watchdog.py`) | cool-downs, time of the last evaluation | check each cycle or period | engine, broker | cool-down and repetition | `Alerts` |
| Updater (`local_server/updater/*`) | version information, package, marker, install script | check, download, install, roll back | heartbeat, engine | crashes while no server runs | `Updater` |
| Cloud relay (`relay_manager.py`, `api/ws_relay.py`, `ws_relay_client.py`) | local sockets, pending commands | register, relay, queue, flush | local server, devices | a replaced connection's handler ends late; a queue flushed while new commands pass | `RemoteControl` |
| Device sessions (`session_manager.py`) | sessions, ping tasks, expiries | register, ping, broadcast, end | devices | tables by device, sockets that overlap | `DeviceSessions` |
| Rules (`rule_service.py`, `heartbeat.py`, `rules_cache.py`) | the cloud's table, versions seen, the local copy | edit, heartbeat, fetch | front end, relay | updates of worker threads that interleave; a version recorded although the fetch failed | `RuleSync` |
| Tokens (`api/auth.py`, `token_utils.py`, `heartbeat.py`, front end) | refresh tokens, keyring, the browser's storage | rotate, restore, register | both servers, browser | the old token is gone before the answer arrives | `TokenRotation` |
| Accounts (`api/auth.py`, `oauth_service.py`) | user, mail and reset links, rows of refresh tokens | register, verify, log in, reset | browser, mail | transactions of worker threads | `Accounts` |
| Rule language (`sv_core/parsing`) | history of conditions | lex, parse, evaluate | engine, cloud, backtest | missing data, two versions of the language | `RuleLexer`, `RuleSyntax`, `RuleMemory`, `RuleEvaluation`, `StatefulCalls` |
| Backtest (`backtest_runner.py`) | cash, position, equity curve | simulate, report | rule language | accounting | `Backtest` |
| Market data, AI, administration, front end, storage of settings | databases, files | CRUD, external calls | everything | I/O | not modelled |

For each part the properties that make it correct, and the place in the code
where something can go wrong that a test would hardly reach, are in
`PROJECT.json` under `hazards`.

How the parts meet. A heartbeat or a relayed message brings rules and commands
to the local server; its HTTP handlers start one engine; the engine's cycle
asks the broker's adapter for the balance, evaluates the rules on quotes, bars
and its own positions, lets `SystemTrader` choose, and sends what is chosen
through the pipeline to the adapter again. `TradingEngine` is the composition
of the cycle, `SystemTrader`, the pipeline, the handlers, the log and the
broker. The other modules share no variables with it or with each other: what
each needs of its neighbours is in it as a nondeterministic environment
(commands that arrive, orders that are accepted, signals a rule gives), which
is weaker than the neighbour and therefore sound for the safety properties.
`MCCloudLink`, `MCLocalServer`, `MCMarket` and `MCKisConnection` check several of
them side by side: a variable `part` chooses one, and the others stand still.

## Modules

Everything runs on asyncio loops, one in the local server and one in the
cloud, so code is atomic between two awaits and anything may happen at an
await. In every module an action is the code between two awaits, and a
variable such as `pc`, `step`, `at` or `cycle` names the await a coroutine is
suspended at. Variables called history or ghost in their comments are read by
no guard. Definitions whose names end in `Mutant` are faulty variants of the
definition that follows them; no specification uses one.

### SystemTrader, Selection, RuleLexer, RuleSyntax, RuleMemory, RuleEvaluation, StatefulCalls

The pure algorithms on the way from a rule's text to an order.

`SystemTrader!ProcessCycle` is `process_cycle`: `Considered` folded over the
candidates in descending, stable priority order. `ByPriority` is the one
permutation of the list that sorts it. `CheckBuy` answers with the first objection
as `_check_buy` does; a selected BUY counts against positions, symbols and
budget for the rest of the pass, a SELL never. `Selection` is one call of it with
any list of candidates, portfolio and limit: `asked` is what the engine hands
over, `decided` the batch it gets, and `Acceptable` says without a fold when a
candidate may be taken.

`RuleLexer!Tokenize` is the regular expression of `lexer.py` as a longest
match over an alphabet with one character for each class the expression
tells apart. `RuleSyntax` is the recursive-descent parser with its static
checks: `ParseV1` and `ParseV2` return a tree or an error. `RuleEvaluation`
is both evaluators of `evaluator.py`; a missing value is `Null`, which spreads as
`_NULL` does. The names of indicators, which differ only in the number they
return, are one field and one function of each kind.

`RuleMemory` is what one cycle leaves for the next: a dictionary each for the
previous values of crossings, the histories of `count`, the runs of `streak` and
the bars of `divergence`. `Crossed`, `Counted`, `Ran` and `Diverged` are the four
handlers that read and write it, with the code's slices (`LastOf`: `s[-n:]` is all
of `s` for 0 and drops from the front for a negative `n`). `RuleEvaluation` calls
them from the evaluators, and `StatefulCalls` is the memory's own state machine: a
script of any calls, each under its own key, evaluated in any order and any number
of times on any values. `evaluations` keeps what each call saw and said, and
`ConditionsInv` says from that alone what it should have said. The period of a
`count` and the lookback of a divergence stay what they are while a script runs,
as they do when they are numbers in the script.

Three things follow from the definitions and are as in the code. The memory is per
key, so two `count` or two `streak` of the same condition text, and two uses of one
pattern, share one memory and count evaluations where a reader might count cycles.
A count keeps an evaluation with a missing condition as one in which it did not hold,
while a crossing waits over it for the next pair. A lookback from one to four never
reports a divergence.

`MCDecisions` feeds the lexer, the parser and the evaluators every small input and
compares the answers with declarative accounts of the same thing.

### TradingEngine

`pc` names the await the evaluation cycle is suspended at:

| `pc` | suspended in | left by |
|---|---|---|
| `idle` | no cycle | `CycleTick` |
| `balance` | `broker.get_balance` | `CycleBalance` |
| `loss` | `get_open_orders` and the alert checks | `CycleLossCheck` |
| `cancel_list`, `cancel` | `_cancel_open_orders`, the alert after it | `CycleCancelList`, `CycleCancelOrder`, `CycleCancelDone` |
| `collect` | log writes of the candidate phase | `CycleCollect` |
| `check` | between two candidates | `ExecReject`, `ExecAdmit` |
| `verify` | `PriceVerifier`, the PROPOSED row | `ExecPriceGap`, `ExecSubmit` |
| `placing` | `place_order`, the request on its way | `BrokerAccepts`, `BrokerRefuses`, `PlaceRaises` |
| `answer` | `place_order`, the answer on its way | `PlaceReturns`, `PlaceRaises` |
| `log_order`, `log_fill` | the two log writes after it | `LogOrder`, `LogFill`, `LogRaises` |

`CycleAborts` is an exception outside the executor's `try` block. `Stop` is
`scheduler.shutdown(wait=False)`: the cycle is cancelled at whatever await it
is in, and `Abandon` says what its outside effects become. The handlers of
`routers/trading.py` and `_command_handler.py` are `Start`, `Stop`,
`LocalKill` (with `KillList` and `KillCancelOrder`), `RemoteKill`, `RemoteArm`,
`Unlock` and the manual order; `Crash` is the death of the process.

`orders` is the broker's book; each entry also remembers which rule, day and
engine life (`epoch`) it stems from and how the pipeline reported it
(`outcome`). `leaked` counts engine orders the broker took since the kill
switch left OFF. These are history.

Abstractions, each of which keeps the behaviours the properties talk about:

- A request the cycle abandons reaches the broker by the time `stop` returns
  or never; orders do not expire at the end of the day.
- The speed window is the code's fixed window: a reset happens at any check.
- `price * qty` is one constant per rule; `cash * budget_ratio` is any member
  of `Limits`. The loss threshold in won is any member of `LossLimits`, since
  it is a percentage of an account value that changes from cycle to cycle; a
  member out of reach stands for the code's exemption of an empty account.
- Any set of rules may fire; what is executed is what `ProcessCycle` selects.
- The server runs on Korean time, so its midnight is nine hours before UTC's,
  and cycles run only when both have reached the same day.
- Rows of manual orders carry no price and add nothing to the sums.
- `Start` is one step; its awaits are in `EngineLifecycle`.

`OrderSlots` is the abstract account of what the pipeline owes each rule, and
`TradingEngine` implements it (`ImplementsOrderSlots`).

### EngineLifecycle

`engine` and `broker` are `app.state`; `running`, `ticking`, `stopping` and
`bound` say of each `StrategyEngine` object whether `_running` is set, whether
its scheduler calls it, whether its kill switch is set and which adapter it
was made with. A request stands at one of the awaits of the start route
(`connecting`, `starting`, `syncing`) or of the reconnect route
(`disconnecting`, `reconnecting`), and works on the object in `mine`, whatever
`app.state` holds by then. `overlapped` remembers whether a request was
handled while another one was under way; the invariants are about behaviours in
which none was. Two overlapping starts do leave two engines with a scheduler
each, and nothing in the repository promises otherwise.

### Positions

One stock. `ps` is the `PositionState` (does it exist, quantity, type of the
entry price), `account` and `orders` are the broker's truth, `cycle` is where
`evaluate_all` stands. The engine counts an accepted order as filled; it is
filled later, ends unfilled, or somebody else trades. `loose` remembers that
the two quantities may differ for one of those reasons. `used` is what the
`SignalManager` remembers to have traded. It is empty after `Midnight`
(`_check_daily_reset`) and in the new engine of `EngineRestart`, at whatever
point of a cycle that comes; `epoch` numbers these memories and each order
carries the one it stems from. `opening` is what the engine may have believed to
hold when the present one began.

### KisConnection

One adapter from the moment `start_strategy`, the lifespan or the reconnect
request creates it. Three coroutines use it, and `at[p]` says which request
each of them awaits:

- `caller`, the `connect` of whoever created the adapter: `Connect`, then
  `TokenArrives`, `SocketOpens` or `ConnectFails`;
- `task`, the reconnect task the state machine's callback starts: `WakeUp`
  after the back-off, the same steps, and `KeyArrives` or `KeyFails` while it
  subscribes again what is `wanted`;
- `engine`, a call of `subscribe_quotes` (`SubscribeQuotes`, `KeyArrives`,
  `KeyFails`).

`state`, `enabled` and `retries` are the state machine and the reconnect
manager. `ws`, `connected` and `subscribed` are the fields of `KisWS`;
`fate[s]` and `subs[s]` are the truth about a socket: whether it is open, and
which symbols KIS has been asked for over it. `notice` is the transition that
`_on_ws_disconnect` schedules, carried out by `HandleNotice`. `owner` says
what the adapter's owner has done with it: connecting, using it, closing it
(`Disconnect`, `Disconnected`), or dropping it without closing it (`Replace`,
`ConnectTimesOut`, or a `connect` that raised).

Abstractions:

- A transition never waits: the state machine's lock is held over no await.
  Sending over a socket does not wait either.
- An attempt always awaits the token request, although the token may still
  be cached; the approval key is cached until an order's authentication error
  discards it (`InvalidateKey`), so that subscribing may or may not wait.
- A socket that a failed attempt opened is never closed by the code and keeps
  its receive loop: `SocketLost(s)` may be any open socket, and clears
  `connected` whichever it is.
- Two transitions scheduled at once act as one: the second finds the state
  ERROR, where it is ignored.
- `disconnect` is called while no `subscribe_quotes` is under way, since the
  engine is stopped first; `unsubscribe_quotes` and `enable` have no caller.
- The caller of `connect` subscribes nothing: `OwnerInv` shows that nothing
  is wanted yet.

### KiwoomConnection

The default broker's adapter uses the same state machine and reconnect
manager, but `_do_connect` treats a failing web socket as no failure (polling
takes over), and nothing tells the state machine of a lost socket. `at["owner"]`
and `at["task"]` are the awaits of the two possible callers of `_do_connect`;
`available`, `wsConnected`, `listed`, `polled`, `poll` and `todo` are the
adapter's fields, `socket` and `sent` the truth about the network, `holder`
what the owner has done with the adapter.

### OrderBook

`place_order`, `cancel_order` and `get_open_orders` of both adapters over one
broker: `records` is the idempotency guard, `local` the reconciler's book,
`book` the broker's. An answer may be lost (`PlaceFails` after `Accept`), KIS
may refuse inside an HTTP 200 answer (`PlaceRefused`), orders are filled at any
time, and the reconciler compares with a `query` that may be old. A query may be
refused inside an HTTP 200 answer as well (`SnapshotRefused`): both adapters read
the missing list as an empty one, and the reconciler takes every order it knows
to be submitted for filled, until a later query puts it right. `denied` remembers
that the answer under way is such a one.

### BrokerCalls

One REST call is a coroutine that waits for its endpoint's limiter, for the
access token (a renewal holds the lock), and for the answer. Time is a tick;
`callTimes` is what the limiter remembers, `granted` what it has really let
through in the last second. Only calls that ask the limiter are counted: the
reconciler's own query (`reconciler.py:143`) does not, so that the broker may see
one call more. `Revoke` is another program that takes a token for
the same key. A request is under way for less than the renewal margin, since
its time-out is 5 or 10 seconds and the margin 10 minutes.

### MinuteBars, MockBroker, Backtest

`MinuteBars` follows the trades of one stock from the exchange over the message
or the poll to the `BarBuilder` of every engine started in the process, to the
store and its aggregation. `Trade` happens at the exchange and puts a message on
the `wire` of a subscribed socket; `Arrive` hands it to the callbacks, in
whatever minute that is, since the adapters read the clock and not the message
(`kiwoom/ws.py:205`). `PollAnswered` is the answer to a poll, the last price and
the volume of the whole day, in quiet minutes too. A socket that drops may take
messages on their way with it, and the stock is not subscribed again, because `_subscribed`
goes on listing the stock (`KisConnection!QuotesResume` is the same thing seen
from the connection); a restart of the process ends both. `arrived` and `volumes`
are what was handed to the callbacks in each minute, and bars are compared with
these: a trade that arrives after its minute belongs to the next one, and the
polled volumes of a minute are added up though each is that of the day. A
behaviour has one source of quotes. Every trade has volume one; what a layout of
a message is comes from the two documents in `ws.py`. `MockBroker` is the accounting of
`MockAdapter` with exact fractions; its balance is a sum over the stocks, `SumOver`
of the module `Sums`, which `Positions` uses for its open orders. `Backtest` is the loop of
`BacktestRunner` and its report; rates are parts of `Scale` and money parts of
`Scale * Scale`, so that only the number of shares is rounded, as in the code.
The request brings the cash and the rates and nobody looks at them
(`api/backtest.py:33`): `config` holds any integers. `Bar` raises where the price
with its slippage is nothing, `ReportFails` where the highest worth so far is
nothing or the final worth, below nothing, has no root; the route makes an HTTP
500 of either. `Ordinary` is what the default rates satisfy, `Solvent` an account
that was never worth less than nothing; each part of `BacktestInv` that needs one
of them says so, and the others hold of every request.

### Alerts

One alert key, chosen at the start, is followed: keys do not influence each
other. Time advances by minutes; in each the engine's evaluation and the
watchdog's check run in either order. `told` is the last alert that was really
written, `fired` what the monitor believes.

### Updater

Releases are numbers; `installed` is what the directory holds, 0 when an
installer failed half-way. `script` is the position in the batch file that
installs, probes `/health` and rolls back while no server runs, `marker` the
status in `pending_rollback.json`, which is all that a restarted server knows.

### RemoteControl, DeviceSessions, RuleSync, TokenRotation, Accounts

The exchanges with the cloud, for one user. `RemoteControl`: connections with
the handler of each on the server, the table of pending commands with its
flush, the reconnecting client; `lost` is what a failure took, `unread` the rows
that the last registration's flush could not read (its exception is logged and
the handler goes on), `overlapped` whether one connection replaced or removed the
registration of another.

`DeviceSessions`: two sockets of a device may overlap while all tables are
keyed by device.

`RuleSync`: a rule is its version, script, the parser's verdict and the active
flag; the heartbeat carries the maximum of the versions. `update_rule` runs in a
worker thread: `BeginUpdate` is its read and all it decides from it, `CommitUpdate`
writes later the fields that differ from what it had read (`Written`), on a row
that may have become another. `raced` marks a row on which that happened: of two
updates at the same time one can bring a broken script and the other switch the
rule on, each in good faith, and the row ends active with a script that does not
parse. They also give the row one version for two changes, so that a local copy
fetched between them stays behind. `wsToken` is the access token of the web
socket's start, which nobody replaces (`update_token` has no caller): once it has
run out the web socket does not come back, and heartbeats over HTTP carry no
version. Snapshots of scripts are left out: only `restore_version` would read
them, and it calls `_extract_parameters`, which does not exist.

`TokenRotation`: pairs of tokens are numbered; the heartbeat and `/restore` share
a lock, the browser does not; the expiry of access tokens follows the order of
their issue.

`Accounts`: routes run in worker threads, one transaction each; a login, a
rotation and a reset read first (`BeginLogin`, `BeginRotation`, `BeginReset`) and
commit later, and `handling[w]` is what worker `w` has read. A login that has
verified the old password inserts its session after a reset has committed, and a
rotation the successor of a session the reset has deleted: `raced` names the
sessions that came about so.

## Runs

| Run | Instance | Shows |
|---|---|---|
| `engine_orders` | two rules on two symbols, two order numbers, one engine life, one day; remote STOP_NEW, local OFF, a manual BUY | `OneOrderPerLife`, `TriggeredOnlyInFlight`, `SpeedLimit`, `KillLeakBound` |
| `engine_limits` | one rule, two days, two engine lives, two order numbers; losses, local CANCEL_OPEN, remote arm | `LossLockStopsOrders`, `LoggedBuysWithinBudget`, `EngineInv` |
| `engine_progress` | two rules, one life | `CycleEnds`, `ImplementsOrderSlots` under fairness |
| `kis_connection` | connection: two symbols, three sockets, two retries; orders: one id, two callers, two numbers | `OneAttempt`, `KisInv`, `BookInv`; `ReconnectEnds`, `BooksConverge` under fairness |
| `cloud_link` | relay: two connections, two commands, two faults; sessions: two devices with two sockets each, one allowed; rules: one, two workers, three edits, one failure; tokens: three pairs, one loss; accounts: two workers, two rows, two passwords | `RelayInv`, `SessionInv`, `SyncInv`, `TokenInv`, `AccountInv`; `CommandArrives`, `BrokenSessionsEnd`, `VersionSeen` under fairness |
| `local_server` | lifecycle: two requests, two engines, two brokers, one fault; alerts: thresholds of one and two minutes; updates: three releases, the second one bad, one mishap; calls: two coroutines, one call a second, tokens of three ticks; Kiwoom: two symbols, two retries | `LifecycleInv`, `AlertsInv`, `UpdaterInv`, `CallsInv`, `KiwoomInv`, `AutoInstallSparesTrading`; `HangIsReported`, `ServerComesBack`, `TokenRecovers`, `EveryoneIsPolled` under fairness |
| `market` | texts of up to five characters, trees of depth two, scripts over four cycles, up to three candidates; conditions: a call or two of different functions, three evaluations between them, or a divergence over six bars, three levels, periods 0 and 2, lookback 5; bars: three sources, two engines, three minutes, three trades, two polls a minute; two rules for a stock, two memories of their signals, two open orders; two mock stocks; backtests of five bars with cash from -10 to 10, slippage from -200 to 10 percent and commissions up to 50 percent | `DecisionsInv`, `ConditionsInv`, `SelectionInv`, `BarsInv`, `AggregateIsExact`, `PositionsInv`, `MockInv`, `BacktestInv` |
| `engine_twice_a_day` | finding | `AtMostOncePerDay` fails |
| `engine_refused_success` | finding | `SuccessWasAccepted` fails |
| `positions_stuck` | finding | `SyncsComplete` fails |
| `backtest_no_trades` | finding | `SignalsAreTraded` fails |
| `kis_trades_lost` | finding | `TradesReachBuilders` fails |

What the invariants of the four composite runs say, beyond their types:

| Invariant | Says |
|---|---|
| `RelayInv` | a command waits in the table only while no working connection is registered, while a flush is on it, after a failed commit, or after the registration's flush failed to read it; it runs twice only after connections overlapped or a commit failed |
| `SessionInv` | every session has exactly one ping task, on its socket, and no task outlives its session; the limit of devices holds |
| `SyncInv` | no active rule, in the cloud or in the cache, has a script that does not parse, unless an update was committed on top of one that it had not seen; what an update is about to write is as sound as what it has read |
| `TokenInv` | as long as only the two refreshers touch the keyring its token is good or its successor is on the way; a request is under way only in the lock |
| `AccountInv` | every refresh token was issued under the present password, unless a reset overlapped its login or rotation, or that of an ancestor; so was what a worker is about to insert; none before the address is verified |
| `LifecycleInv` | if requests do not overlap, an engine that trades is the one in `app.state` and trades through the broker there, and what is reported as running trades |
| `AlertsInv` | what the monitor saw was told within the cool-down, at two thirds of its value at least, unless the write failed |
| `UpdaterInv` | without a marker and a script the files on disk are a release that has come up before |
| `CallsInv` | no second sees more calls to an endpoint than the limit; no call carries a token that expires on its way; one renewal at a time |
| `KiwoomInv` | the reconnect task works for dropped adapters only; quotes come from one source; what is listed as subscribed was sent over the present socket |
| `BookInv` | an id has one order at the broker unless its answer was lost, two calls with it overlapped or a day passed; what is on record for an id is an order of that id, or a refusal KIS gave |
| `BarsInv` | from every source a stored bar is the bar of the prices and volume handed to the callbacks in its minute unless a builder saw the minute in part, and what a builder holds is the bar of what came so far; nothing is stored before its minute is over; over a socket each trade is handed on once, is on its way, or was not sent, lost or not understood |
| `AggregateIsExact` | aggregated bars of any width come in the order of time, one for each bucket of which something is stored, and such a bar is the bar, volume included, of all that was handed to the callbacks in the bucket if the bars it was made from are whole |
| `PositionsInv` | the tracked quantity is the account's plus what open orders, and an order about to be recorded, will make of it; nothing held, no entry price; from one memory of the signals, so in one engine's day, a rule has one open order on a side and is counted as bought once |
| `MockInv` | trading makes and loses no money; the average price lies between the prices paid |
| `BacktestInv` | of any request: cash is explained by the closed trades and the open position, the curve is flat before there are indicators, the report adds up; of ordinary rates: no debt and no exception; of an account never worth less than nothing: the drawdown is the worst of all pairs of bars |
| `DecisionsInv` | every token is the longest lexeme at its place and nothing is skipped but blanks and comments; parsing what a tree prints gives the tree back, exactly when it is well typed; v1 scripts decide in the v2 evaluator what they decide in their own; a missing value makes what depends on it missing; conditions that look back agree with the whole history of a script |
| `ConditionsInv` | what a crossing, count, streak or divergence says is right of all that its own call has ever seen, though the rule keeps only the end of it, and whatever the other calls of the script see |
| `SelectionInv` | the selection is the greedy one in priority order, fits the portfolio, and decides on each candidate once |

Bounds. Two order numbers suffice for the engine because every property
relates at most two orders. `engine_orders` needs two rules so that a kill or a
speed limit of one order can hit between two candidates, and so that one rule's
signal can be confused with another's; `MaxPerMinute` is 1 so that the limit is
met by the first order. `engine_limits` needs two days and two lives so that
the amount of an earlier life, and of an earlier day, can be restored under
each of the two midnights; the budget is one order, so a forgotten amount
shows at once. `kis_connection` needs two symbols so that a subscription can be
half listed, three sockets for the first connection, one left behind by a
failed attempt and the one that replaces it, and two retries so that a task can
fail and still go on. When the sockets are used up an attempt can only fail.
The overlaps the other runs are about are of two: two connections of a user,
two sockets of a device, two requests, two coroutines, two builders, two updates
of a rule, two transactions of an account; a third actor adds no case a property
distinguishes. With one rule the version of the table goes down when it is
deleted; that the heartbeat carries the maximum over several rules no run
exercises (`SyncInvariant` is proved for any number).
Three evaluations let a missing value lie between two pairs and a period of 2 cut a
history; six bars let a lookback of 5, the shortest that can report, cut one.
One fault (two in the relay, for a lost connection and a read that fails) suffices where a property says what happens after a failure, since it
may come at any step. Three tokens let a pair be rotated while another is on
its way; three edits let a version rise and fall again. `Lifetime = 3` and
`Margin = 2` are the shortest times for which a token can be fresh, due and
late. Three releases allow a bad one between two good ones. Two memories of
signals are a restart or a midnight; two orders that may be open at the same
time, one of each. Two polls in a minute make a bar grow. The rates of the
backtests are so large that a few bars lose all the money: a commission of a tenth is ordinary
with nine tenths of the cash invested, one of a half leads into debt, and a
slippage of minus one hundred percent makes the price vanish. Three candidates
are the fewest for which a dropped one stands between two selected ones; in
lists of candidates the first symbol is fixed, as symbols are only compared.
`MCInit` fixes the initial state of the parts a behaviour is not about.

Order numbers and symbols are only compared with one another, so the symmetry
used in the engine runs is sound; runs that check liveness use none.

Deadlock is checked in the engine runs (`Crash` is always possible, so what it
shows there is little; `CycleEnds` is the real progress property). The other
runs turn the check off: a decision, a report or a used-up bound is an end.

Fairness, always of the code's own steps and of time, never of the user, the
market or the broker's decisions:

- `TradingEngine`: `WF_vars(CycleStep)`: each await of a cycle ends, because
  the broker calls have a five-second time-out and the log writes run on a
  worker thread. The next cycle need not start and no order need be filled.
- `KisConnection`: `WF_vars(TaskStep)`: the back-off sleeps at most a minute,
  and the requests of an attempt time out after ten seconds.
- `RemoteControl`, `DeviceSessions`, `RuleSync` (in `MCCloudLink`): coroutines
  that can run do run; the client's loop connects again. The web socket comes
  back in the end (`WF(Online)`) as long as its token is good; the token may run
  out at any time, and then `VersionSeen` promises nothing while it is away.
- `Alerts`: the scheduler ticks, the watchdog's loop survives every exception.
- `Updater`: `WF(ScriptStep)`: the script is a process of its own that waits a
  fixed time at each step.
- `BrokerCalls`: every request ends; the engine asks for the balance in every
  cycle; not every request for a token fails (`SF(FetchToken)`).
- `KiwoomConnection`: requests time out, sleeps end.
- `OrderBook`: the reconciler asks every thirty seconds and its query ends. That
  the broker does not lose or refuse every answer (`SF(CompareExactly)`) is
  assumed of the broker; nothing in the code makes it so.
- `Positions`: cycles follow each other.

### What the findings show

- A rule can trade twice a day (`strategy-engine/spec.md` promises once): an
  exception after the broker took the order re-arms the rule, and a restart
  forgets the signals. `OneOrderPerLife` is what the code does guarantee.
- An order KIS refuses inside an HTTP 200 answer counts as executed.
- After a purchase of its own the engine's synchronisation with the account
  raises, in this cycle and in every later one: a float is subtracted from a
  Decimal. Nothing is evaluated any more.
- A backtest never trades: its scripts are parsed as v2 and evaluated as v1,
  and the exception skips the bar. (The test named in the finding asserts only
  that the number of trades is not negative, and passes.)
- No message of the KIS web socket becomes a quote: two tests of one field
  contradict each other.

### Stated, refuted, and without a run

The modules also state what comments and documents say where the code does
something else; TLC refutes each of these with the constants of the run the
module belongs to. They are kept as a record of how far the invariants above go.

| Statement | Why it fails |
|---|---|
| `TradingEngine!CancelOpenStartsSweep` (`safeguard.py:24`) | a remote `stop_all` sets the level that is documented to cancel open orders and cancels none; only the local handler does |
| `TradingEngine!BudgetCountsToday` (`limit_checker.py:78`) | an engine started between 00:00 and 09:00 KST counts the previous UTC day's amount against the new day's budget |
| `KisConnection!QuotesResume` (`stability/spec.md:97`) | after a reconnect `KisWS.subscribe` skips the symbols it still lists from the socket before, so nothing is sent over the new one |
| `KisConnection!LossReconnects` (`stability/spec.md:98`) | when KIS closes the socket properly the receive loop ends without an exception, and only the exception's handler reports a loss |
| `KiwoomConnection!LossNoticed` (same) | nothing tells the state machine of a lost socket; engine starts raise until somebody reconnects by hand |
| `DeviceSessions!ServedSocketsHaveSessions` | the handler of a replaced socket removes the session of its successor, which is served on without one |
| `TokenRotation!LoginSurvives` (`token_utils.py:3`) | a page that is loaded again posts its old pair over the local server's newer one |
| `EngineLifecycle!KillAckHolds` (`_command_handler.py`) | a kill without an engine is acknowledged and forgotten; the next engine trades |
| `Alerts!AlarmMeansStalled` (`realtime-alerts/spec.md:34`) | the time of the last evaluation is written only after a cycle with candidates, so quiet rules raise the alarm |
| `Updater!VerifiedMeansTarget` (`auto-update-improvement/spec.md:459`) | `/health` names the latest known release as well, so the probe may find its text while the old one runs |
| `BrokerCalls!RefusedTokenDropped` (`auth.py` of KIS) | only a refused order drops the token; balances and quotes go on with it |
| `OrderBook!NoDuplicates`, `CancelledIsOver` | a lost answer leaves no record; a refused cancellation counts as done |

## Proofs

`TradingEngineProofs` proves, for any number of rules, symbols, order numbers,
days and engine lives, the theorems `PROJECT.json` lists. Assumptions:
`EngineAssumption` (types of the constants; amounts are naturals, limits lie
in `0..MaxBudget`, the speed limit is positive), `NoneAssumption` (the
absent value is not a number or record of the model) and
`MaxPositionsAssumption`.

None of the promises is inductive alone, and `EngineInv` is what makes them
so:

- `CycleInv`: a cycle belongs to a running engine, to one local day and the
  same UTC day, and `cur` and `oid` are set exactly where they are used. Every
  other part relies on it; it is proved together with `TypeOK`
  (`TypeCorrect`).
- `SignalInv`: the signal of the current candidate is IDLE, TRIGGERED or
  FILLED according to the pipeline's position, which turns a statement about
  `signal` into one about `pc`.
- `OrderInv`: an order reported as successful in this life and on this day
  has left its signal FILLED; the one pending order is `oid`; a lost one
  belongs to an earlier life. With `CanTrigger` it gives `OneOrderPerLife`:
  the pipeline only places an order for an IDLE signal.
- `BudgetInv`: the counter of a running engine is at least what the database
  has logged for the day, plus the order whose row is not written yet, and an
  order in flight fits the limit it was checked against. That gives
  `LoggedBuysWithinBudget` across restarts, since a new counter starts from
  what is logged.
- `SpeedInv`, `KillInv`: the check made at the head of the pipeline still
  holds when the order is counted, because only one candidate is in it.

The step lemmas of `TradingEngineProofs` take each part through every action
of `Next`; parts an action does not touch follow from shared frame lemmas
(`OrderFrame`, `StateKept`, `ConcludeKept`).

`KisConnectionProofs` proves, for any number of symbols, sockets and retries,
that `KisInv` is an invariant (`KisInvariant`), and from it the safety
properties of the connection. It assumes `KisAssumption` only: at least one
retry, and an absent value that is not a socket. `KisInv` joins `OneAttempt`,
`SleepsInError`, `OnlyListedSymbolsHideALoss` and `ClosedStaysClosed`, which
have theorems of their own, to two parts that make them inductive:

- `OwnerInv` ties each coroutine to what the owner has done. Until `connect`
  has succeeded there is no socket, hence no loss and no scheduled
  transition; that is why the caller's attempt never meets a reconnect task
  (`OneAttempt`).
- `TaskInv`: a task belongs to an enabled manager with retries left, and it
  waits for the approval key only if it has something to subscribe.

`SleepsInError` and `OnlyListedSymbolsHideALoss` then depend on which state an
attempt leaves behind: a failing one ERROR, a successful one SUBSCRIBED,
unless the loss was handled while it waited for the key. In that case it goes
on to send over a socket that is gone, which raises, unless every symbol is
already listed. `LossFollowedUp` states this last, silent way to remain in
ERROR exactly; it is a hazard of the code the properties name, not one they
rule out.

The same module proves `BookInvariant` of the adapter's orders, from
`BookAssumption`, for any number of ids, callers and orders. That an id has one
order is a statement about a cardinality; `OneAtATime` says without one that an
id is nowhere, or with one caller, or on record. It fails exactly for the ids in
`excused`, which shows that a lost answer, an overlap and the end of a day are
all the ways to a second order.

`OrderSlotsSafety` is the safety half of `TradingEngine => OrderSlots`: initial
states map to initial states, and by `EngineInv` every step is one of the
abstract one or a stutter. With `SignalInv` the state of a slot can be read from
the signal alone while no order is under way.

`RemoteControlProofs` proves `RelayInv` (`RelayCorrect`), for any number of
commands and connections. What is promised, `QueuedOnlyOffline` and
`TwiceOnlyAfterOverlap`, needs to know where a command can be:

- `RelayLinks`: as long as no two connections overlapped, only the registered
  one has a server side past its authentication, only a flush holds rows, and a
  connection that is gone carries nothing.
- `RelayRows`: rows and messages stem from accepted commands, and no command
  has two rows.
- `OneCopy`: without an overlap and a failed commit a command was executed, or
  is on one wire, once, and then no flush has it to send any more.

`handled[m] <= 1` is the first part of `OneCopy`, and the second is what a
receiving step needs.

`CloudLinkProofs` and `LocalServerProofs` prove the invariants of four parts each
of the two composite runs, from the named assumptions of the parts' modules and
for any number of the objects they speak of:

- `SessionInvariant`. Every action registers one device, unregisters one, or
  leaves the tables alone; `UnregisterKeeps` works because the stored ping task
  is the only one.
- `TokenInvariant`. `RefreshesTheKeyring` is added: the pair being refreshed is
  the keyring's, since it is read in the lock, so the successor that is stored
  replaces exactly the one that was spent.
- `SyncInvariant`. `BrokenRulesInactive` speaks of the table and of the cache, so a
  fetch carries it from one to the other; `UpdatesSound` says of an update under
  way that what it will write is as sound as what it has read, and a commit on an
  unchanged row writes just that.
  `CountersBounded` gives the versions their range, which the type of what a
  heartbeat has told (a maximum over the table) rests on.
- `AccountInvariant`. `RequestsUnderPassword` is the half that makes
  `SessionsUnderPassword` inductive: what a worker will insert is under the current
  password as long as no reset committed since its read, and a reset marks all that
  is under way. `SessionsAreVerified` has to speak of both as well.
- `LifecycleInvariant`. What is seen from outside, `TradesWhatStateShows` and
  `ReportIsTrue`, follows from `StillSo`: what a request found before its await
  still holds after it, as long as requests do not overlap. `WorksOn` holds even
  when they do, and gives the types.
- `AlertsInvariant`. `FiredWasTold` is added: what the monitor remembers is what
  was written last, so the 1.5-fold of what it remembers bounds what it keeps
  silent about. The three clocks age together.
- `UpdaterInvariant` and `AutoInstallAlone`. `OneServer` says at which of the
  script's steps a server can be up, and that what runs is what is installed;
  `MarkerTellsScript` that a marker is there as long as the script is, so that a
  server that boots beside it finds one.
- `CallsInvariant`. `LimiterRemembers` is the heart of it: the limiter's memory
  without what is a window old *is* the list of the calls granted in the window,
  although it prunes only when asked. That ageing and filtering commute
  (`AgedRecent`) is proved by induction over the length of the memory.
  `TokenOutlivesCall` bounds how old a token on its way can be: the margin of a
  renewal is longer than the timeout of a request.

`KiwoomConnectionProofs` (`KiwoomInvariant`) adds `StagesOfLife`: nothing is
subscribed before `connect` has succeeded and nothing polls before the owner has
the adapter, which is why the two callers of `_do_connect` cannot both be under
way; and a task ends before it runs out of retries.

`MarketProofs` proves the invariants of six parts of the composite run `market`,
from the named assumptions of their modules:

- `BacktestInvariant`. It assumes nothing of the request: cash and rates are any
  integers. `CurveEnds` ties the last point of the curve to the cash and the open
  position. Under `Ordinary` purchases stay affordable because the share of the
  cash that is invested, with its commission, is at most the cash, and nothing is
  ever worth less than nothing, so neither exception is possible. The drawdown is
  computed by a recursive function over the curve; where the account is `Solvent`
  it is the worst of all pairs, by a least index at which it would not be, and
  fractions are compared by multiplication.
- `MockInvariant`. The balance is a sum over the stocks (`Sums`), and a trade
  changes one summand of it; sums over sets are reasoned about by a set of least
  cardinality for which the claim would fail. An average of prices stays between
  the prices paid when a purchase is averaged in and its fraction reduced.
- `PositionsInvariant`. `QuantityTracked` holds in the middle of a cycle too, with
  what was accepted and is yet to be recorded. `OncePerRule` says that a rule has at
  most one open order on a side from each memory of its signals, and that an open
  order of the present one is remembered; so one fill changes the sum of the open
  orders by one order. `BoughtOnce` bounds the tracked quantity by what it may have
  been when the memory began and by the number of rules that bought since, and `BatchSound` says that there is a candidate to execute.
- `BarsInvariant`. What is stored was held by a builder, so `StoredIsTrue` needs
  `BuildersAreTrue`; `BarsAreTimely` keeps a minute closed once it is over. The bar
  of a sequence with one price more is the grown bar (`BarOf` of an `Append`).
  `TradesAreCounted` follows each trade from the wire to the minute it arrives in.
- `AggregateExact`. The loop of `aggregate_bars` is the recursive function `Scan`;
  `ScanSound` is its loop invariant over the prefixes of the minutes: what was
  closed lies before the bucket being filled (`ScanInOrder`), closed bars and that
  bucket are the buckets of which something is stored (`ScanComplete`), and each
  is the bar of what came in its bucket so far if what is stored of it is whole
  (`ScanExact`). The four cases of a minute are `ScanQuiet`, `ScanOpens`,
  `ScanJoins` and `ScanCloses`; `MergeMore` and `BarOfJoined` say that merging one
  more bar is concatenating one more minute's prices and adding its volume, `SameBucket` that a minute
  is in one bucket only, whatever the width.
- `SelectionInvariant`. What the filter sorts by is chosen, so a sorting permutation
  has to exist: it is built by insertion (`InsertOrdered`). The fold is the last of a
  sequence of pass states (`PassStates`), and each of them is `PassSound`: what it has
  counted agrees with what it has selected, its portfolio is within the limits, and
  the selection is greedy as far as it goes. A later candidate disturbs none of it,
  because it never comes before an earlier one.
- `MemorySuffices`. The invariant `ConditionsInv` speaks of all evaluations, the code
  has only its memory, so the inductive invariant `MemoryInvariant` says what the
  memory is of them: the pair of the last evaluation without a missing value
  (`PairKept`), the last `Reach` conditions or bars (`HistoryKept`, `BarsKept`), the
  length of the unbroken run (`RunKept`). `LastOfRecent` is why cutting at every
  evaluation loses nothing: the last of the last with one more is the last of all.
  `CountOf`, `StreakOf`, `CrossingOf` and `DivergenceOf` take one evaluation, and
  `CallKeeps` says that it touches no other call's memory (`GetPut`). That a
  divergence looks at the last two turns is a matter of an order on a finite set of
  places, without an induction.

`SequenceLemmas` holds what these proofs need of sequences: what `Append`, `Tail`
and removal do to the elements, to injectivity and to the number of copies, and
what `Without` of `Filters` keeps. The induction theorems of the library take an
operator as a parameter, which no installed prover can instantiate; the lemmas
use a least counterexample instead (`LeastOf`: a non-empty set of naturals has a
least element), which is enough for a recursive *function* such as `Without`.

Model-checked only:

- everything under fairness: `CycleEnds`, `ImplementsOrderSlots` with its
  liveness, `ReconnectEnds` and the liveness properties of the composite runs;
- what `RECURSIVE` operators compute: the rule language (`RuleSyntax` and
  `RuleEvaluation` are used by no module with a theorem), hence `DecisionsInv`.

## Not modelled, and the plan

Not modelled, because nothing in it depends on the order of steps or on
failures in between: the cloud's collection of market data (scheduled jobs that
fetch and upsert), AI, administration and other queries, the front end's views,
the arithmetic of the indicators, settings and their files, synchronisation of
bars, mail and encryption. Left out of modelled components: the order of
process start and shutdown (the engine is not stopped at shutdown), the offline
queue (nothing is ever put into it), highs, ages and execution counts of
positions, the layouts of messages beyond what decides about a quote, Korean
names of the rule language (each stands for one token), code nobody calls.

What is left to do, most important first:

1. The composition of `RemoteControl`'s delivery with the kill switch of
   `TradingEngine`: how many orders can reach the broker between a command that
   is sent and the engine that obeys it, with `RemoteKill` and `RemoteArm` of
   the engine as the handlers.
