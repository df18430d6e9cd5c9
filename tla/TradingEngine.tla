--------------------------- MODULE TradingEngine ----------------------------
(***************************************************************************)
(* The trading core of the local server: the evaluation cycle of           *)
(* StrategyEngine, the order pipeline of OrderExecutor with the guards it  *)
(* consults (SignalManager, LimitChecker, Safeguard, PriceVerifier), the   *)
(* HTTP handlers that start, stop, kill, unlock and order by hand, the     *)
(* remote kill/arm commands, the log database the limits are restored      *)
(* from, and the broker at the other end of place_order.                   *)
(*                                                                         *)
(* All of it runs on one asyncio event loop: a handler is atomic between   *)
(* two awaits and everything else may run at an await.  pc names the await *)
(* the evaluation cycle is suspended at, and each action below is the code *)
(* from one such await to the next.  The scheduler runs at most one cycle  *)
(* at a time (APScheduler's max_instances = 1).                            *)
(***************************************************************************)
EXTENDS SystemTrader

CONSTANTS
    NRules,        \* rules are numbered by rank: rule 1 has the top priority
    Symbols,       \* stock codes
    SymbolOf,      \* SymbolOf[r]: the symbol rule r trades
    AmountOf,      \* AmountOf[r]: price * qty of an order of rule r
    Limits,        \* values cash * budget_ratio takes from cycle to cycle
    MaxBudget,     \* an upper bound of Limits
    MaxPerMinute,  \* Safeguard._max_orders_per_min
    LossLimits,    \* losses the threshold percentage amounts to from cycle to cycle
    PnlSteps,      \* realized profit or loss a SELL may log
    ManualOrders,  \* <<symbol, side>> pairs the user may order by hand
    KillModes,     \* <<channel, level>> pairs used to operate the kill switch
    OrderIds,      \* order numbers the broker can hand out (bounds the run)
    MaxDay,        \* bound: number of trading days
    MaxStarts,     \* bound: number of times the engine is started
    None           \* "no order", "no candidate"

Rules == 1..NRules

Candidate(r, s) == [rule |-> r, symbol |-> SymbolOf[r], side |-> s,
                    amount |-> AmountOf[r], priority |-> 0 - r]

Signals == {Candidate(r, s) : r \in Rules, s \in Sides}

KillLevels == {"OFF", "STOP_NEW", "CANCEL_OPEN"}

ASSUME EngineAssumption ==
    /\ NRules \in Nat
    /\ SymbolOf \in [Rules -> Symbols]
    /\ AmountOf \in [Rules -> Nat]
    /\ MaxBudget \in Nat /\ Limits \subseteq 0..MaxBudget
    /\ MaxPerMinute \in Nat \ {0}
    /\ LossLimits \subseteq Nat
    /\ PnlSteps \subseteq Int
    /\ ManualOrders \subseteq Symbols \X Sides
    /\ KillModes \subseteq {"local", "remote"} \X KillLevels
    /\ MaxDay \in Nat /\ MaxStarts \in Nat

VARIABLES
    engine,        \* "none" or "running": app.state.engine
    epoch,         \* how many engines have been created
    today,         \* the calendar day of date.today()
    dbDay,         \* the UTC day LogDB's "today" queries cover
    kill,          \* Safeguard: kill switch level
    lossLock,      \* Safeguard: loss lock
    minuteOrders,  \* Safeguard: orders_this_minute
    signal,        \* SignalManager: state of <<rule, side>>
    signalDay,     \* SignalManager: _last_reset
    executed,      \* LimitChecker: _today_executed
    limitDay,      \* LimitChecker: _last_date
    loggedAmount,  \* log database: sum of price * qty over dbDay's ORDER rows
    loggedBuy,     \* the part of loggedAmount that stems from BUY orders
    pnl,           \* log database: sum of realized_pnl over dbDay's FILL rows
    pc,            \* where the evaluation cycle is suspended
    snapHeld,      \* the cycle's BalanceResult: symbols held
    snapLimit,     \* the cycle's BalanceResult: cash * budget_ratio
    queue,         \* selected candidates not executed yet
    cur,           \* the candidate in the order pipeline
    oid,           \* the broker's number for its order
    sweepTodo,     \* open orders the loss-lock sweep has still to cancel
    killer,        \* the kill handler: "idle", "list" or "cancel"
    killTodo,      \* open orders the kill handler has still to cancel
    manual,        \* the manual order on its way to the broker
    orders,        \* broker: what became of each order number
    held,          \* broker: symbols the account holds
    leaked         \* engine orders accepted since the kill switch left OFF

safeVars   == <<kill, lossLock, minuteOrders, leaked>>
signalVars == <<signal, signalDay>>
limitVars  == <<executed, limitDay>>
logVars    == <<dbDay, loggedAmount, loggedBuy, pnl>>
cycleVars  == <<pc, snapHeld, snapLimit, queue, cur, oid, sweepTodo>>
handlerVars == <<killer, killTodo, manual>>
brokerVars == <<orders, held>>
lifeVars   == <<engine, epoch, today>>

vars == <<lifeVars, safeVars, signalVars, limitVars, logVars, cycleVars,
          handlerVars, brokerVars>>

OrderStates   == {"open", "filled", "cancelled", "refused"}
OrderOutcomes == {"pending", "success", "failed", "lost", "manual"}

Order == [rule : 0..NRules, symbol : Symbols, side : Sides, day : Nat,
          epoch : Nat, state : OrderStates, outcome : OrderOutcomes]

ASSUME NoneAssumption == /\ None \notin OrderIds /\ None \notin Signals
                         /\ None \notin Order

Phases == {"idle", "balance", "loss", "cancel_list", "cancel", "collect",
           "check", "verify", "placing", "answer", "log_order", "log_fill"}
-----------------------------------------------------------------------------
(* The guards the pipeline consults.  A definition whose name ends in      *)
(* "Mutant" is a faulty variant of the one that follows it: put in its     *)
(* place it makes a property fail, which shows that the property can.      *)

\* The loss lock is forgotten, or the kill switch.
UnlockedMutant == kill = "OFF"
ArmedMutant == ~lossLock

\* Safeguard.is_trading_enabled
TradingEnabled == kill = "OFF" /\ ~lossLock

\* SignalManager._check_daily_reset, which every can_trigger runs first
SignalsToday == IF today > signalDay THEN [x \in Rules \X Sides |-> "IDLE"]
                                     ELSE signal

DailyReset == /\ signal' = SignalsToday
              /\ signalDay' = IF today > signalDay THEN today ELSE signalDay

\* Only an attempt under way counts.
CanTriggerMutant(c) == SignalsToday[<<c.rule, c.side>>] # "TRIGGERED"

\* SignalManager.can_trigger
CanTrigger(c) == SignalsToday[<<c.rule, c.side>>] = "IDLE"

\* mark_failed leaves the state as it is.
MarkNothingMutant(c, state) ==
    IF state = "IDLE" THEN UNCHANGED signalVars
    ELSE /\ signal' = [signal EXCEPT ![<<c.rule, c.side>>] = state]
         /\ UNCHANGED signalDay

\* SignalManager.mark_triggered, mark_filled and mark_failed
Mark(c, state) == /\ signal' = [signal EXCEPT ![<<c.rule, c.side>>] = state]
                  /\ UNCHANGED signalDay

\* LimitChecker.check_budget and check_max_positions, asked for BUY only
WithinLimits(c) ==
    c.side = "BUY" => /\ executed + c.amount <= snapLimit
                      /\ Cardinality(snapHeld) < MaxPositions

\* the sell protection at the head of OrderExecutor.execute
HoldingOk(c) == c.side = "SELL" => c.symbol \in snapHeld

\* Off by one.
WithinSpeedMutant == minuteOrders <= MaxPerMinute

\* Safeguard.check_order_speed within one window
WithinSpeed == minuteOrders < MaxPerMinute

\* A new engine counts from nothing.
RestoredMutant == 0

\* LimitChecker.restore_from_db with LogDB.today_executed_amount
Restored == loggedAmount

\* Every cycle starts counting from nothing.
DateBoundaryMutant == executed' = 0 /\ limitDay' = today

\* LimitChecker.check_date_boundary
DateBoundary == /\ executed' = IF limitDay # today THEN 0 ELSE executed
                /\ limitDay' = today

OpenOrders == {o \in OrderIds : orders[o] # None /\ orders[o].state = "open"}

\* Candidates are executed in priority order, BUY before SELL of one rule.
Precedes(c, d) == \/ c.rule < d.rule
                  \/ c.rule = d.rule /\ c.side = "BUY" /\ d.side = "SELL"

First(c) == c \in queue /\ \A d \in queue \ {c} : Precedes(c, d)

\* The candidates in the order _collect_candidates yields them, and the ones
\* SystemTrader lets through.
Listed(C) == SetToSortSeq(C, Precedes)

Selected(C) ==
    ToSet(ProcessCycle(Listed(C), snapHeld, snapLimit, executed).selected)
-----------------------------------------------------------------------------
(* The evaluation cycle: StrategyEngine.evaluate_all.                      *)

\* The coroutine returns or ends in its "except Exception".
EndCycle == /\ pc' = "idle" /\ queue' = {} /\ cur' = None /\ oid' = None
            /\ snapHeld' = {} /\ snapLimit' = 0 /\ sweepTodo' = {}

\* The rules are evaluated anew after each candidate.
ContinueMutant(rest) ==
    IF rest = {}
    THEN EndCycle
    ELSE /\ pc' = IF pc = "collect" THEN "check" ELSE "collect"
         /\ queue' = rest /\ cur' = None /\ oid' = None
         /\ UNCHANGED <<snapHeld, snapLimit, sweepTodo>>

Continue(rest) ==
    IF rest = {}
    THEN EndCycle
    ELSE /\ pc' = "check" /\ queue' = rest /\ cur' = None /\ oid' = None
         /\ UNCHANGED <<snapHeld, snapLimit, sweepTodo>>

\* A result was produced for the current candidate.  Failures also write an
\* ERROR row first; if that write raises too, the whole cycle ends.
NextCandidate(rest) == Continue(rest) \/ EndCycle

\* The cron tick, up to the balance query.  Ticks come from 09:00 KST on, when
\* UTC has reached the same day.  During 09:00-09:02, after 15:30 or without
\* active rules the cycle returns at once.
CycleTick ==
    /\ engine = "running" /\ pc = "idle" /\ dbDay = today
    /\ DateBoundary
    /\ pc' \in {"idle", "balance"}
    /\ UNCHANGED <<lifeVars, safeVars, signalVars, logVars, snapHeld,
                   snapLimit, queue, cur, oid, sweepTodo, handlerVars,
                   brokerVars>>

\* The balance arrives; open orders and alerts are awaited next.
CycleBalance ==
    /\ pc = "balance"
    /\ snapHeld' = held
    /\ \E l \in Limits : snapLimit' = l
    /\ pc' = "loss"
    /\ UNCHANGED <<lifeVars, safeVars, signalVars, limitVars, logVars, queue,
                   cur, oid, sweepTodo, handlerVars, brokerVars>>

\* check_max_loss and the trading gate.  The percentage is one of cash plus
\* holdings; an account worth nothing is never locked (a limit out of reach).
CycleLossCheck ==
    /\ pc = "loss"
    /\ \/ /\ TradingEnabled /\ \E l \in LossLimits : pnl < 0 - l
          /\ lossLock' = TRUE
          /\ pc' = "cancel_list"
          /\ UNCHANGED <<snapHeld, snapLimit, queue, cur, oid, sweepTodo>>
       \/ /\ TradingEnabled /\ \E l \in LossLimits : pnl >= 0 - l
          /\ pc' = "collect"
          /\ UNCHANGED <<lossLock, snapHeld, snapLimit, queue, cur, oid,
                         sweepTodo>>
       \/ /\ ~TradingEnabled
          /\ EndCycle
          /\ UNCHANGED lossLock
    /\ UNCHANGED <<lifeVars, kill, minuteOrders, leaked, signalVars,
                   limitVars, logVars, handlerVars, brokerVars>>

\* _cancel_open_orders: the query, which may fail
CycleCancelList ==
    /\ pc = "cancel_list"
    /\ sweepTodo' \in {OpenOrders, {}}
    /\ pc' = "cancel"
    /\ UNCHANGED <<lifeVars, safeVars, signalVars, limitVars, logVars,
                   snapHeld, snapLimit, queue, cur, oid, handlerVars,
                   brokerVars>>

\* A cancellation takes effect only on an order that is still open, and the
\* request may fail.
CancelAtBroker(o) ==
    \/ /\ o \in OpenOrders
       /\ orders' = [orders EXCEPT ![o].state = "cancelled"]
    \/ UNCHANGED orders

CycleCancelOrder ==
    /\ pc = "cancel"
    /\ \E o \in sweepTodo : /\ CancelAtBroker(o)
                            /\ sweepTodo' = sweepTodo \ {o}
    /\ UNCHANGED <<lifeVars, safeVars, signalVars, limitVars, logVars, pc,
                   snapHeld, snapLimit, queue, cur, oid, handlerVars, held>>

\* After the alert, the gate is read again: an unlock or arm that arrived
\* during the sweep lets the cycle go on.
CycleCancelDone ==
    /\ pc = "cancel" /\ sweepTodo = {}
    /\ IF TradingEnabled
       THEN /\ pc' = "collect"
            /\ UNCHANGED <<snapHeld, snapLimit, queue, cur, oid, sweepTodo>>
       ELSE EndCycle
    /\ UNCHANGED <<lifeVars, safeVars, signalVars, limitVars, logVars,
                   handlerVars, brokerVars>>

\* Any set of rules may fire; SystemTrader decides what is executed.
CycleCollect ==
    /\ pc = "collect"
    /\ \E C \in SUBSET Signals : \E S \in SUBSET Signals :
          /\ S = Selected(C)
          /\ Continue(S)
    /\ UNCHANGED <<lifeVars, safeVars, signalVars, limitVars, logVars,
                   handlerVars, brokerVars>>

\* A broker query or a log write outside the executor's try block raises:
\* balance, open orders, alerts, BLOCKED and PROPOSED rows, the ORDER row
\* written before the order is placed.
CycleAborts ==
    /\ pc \in {"balance", "loss", "collect", "check", "verify"}
    /\ EndCycle
    /\ UNCHANGED <<lifeVars, safeVars, signalVars, limitVars, logVars,
                   handlerVars, brokerVars>>
-----------------------------------------------------------------------------
(* The order pipeline: OrderExecutor.execute.                              *)

\* The synchronous checks refuse the candidate.
ExecReject ==
    /\ pc = "check"
    /\ \E c \in queue :
          /\ First(c)
          /\ \/ ~HoldingOk(c)
             \/ ~CanTrigger(c)
             \/ ~WithinLimits(c)
             \/ ~TradingEnabled
             \/ ~WithinSpeed
          /\ IF HoldingOk(c) THEN DailyReset ELSE UNCHANGED signalVars
          /\ NextCandidate(queue \ {c})
    /\ UNCHANGED <<lifeVars, safeVars, limitVars, logVars, handlerVars,
                   brokerVars>>

\* All of them pass.  check_order_speed starts a new window when more than
\* a minute has gone by since the last one started.
ExecAdmit ==
    /\ pc = "check"
    /\ \E c \in queue :
          /\ First(c)
          /\ HoldingOk(c) /\ CanTrigger(c) /\ WithinLimits(c) /\ TradingEnabled
          /\ \/ WithinSpeed /\ UNCHANGED minuteOrders
             \/ minuteOrders' = 0
          /\ cur' = c
          /\ queue' = queue \ {c}
    /\ DailyReset
    /\ pc' = "verify"
    /\ UNCHANGED <<lifeVars, kill, lossLock, leaked, limitVars, logVars,
                   snapHeld, snapLimit, oid, sweepTodo, handlerVars,
                   brokerVars>>

\* PriceVerifier: no quote, or it differs by more than one percent.
ExecPriceGap ==
    /\ pc = "verify"
    /\ NextCandidate(queue)
    /\ UNCHANGED <<lifeVars, safeVars, signalVars, limitVars, logVars,
                   handlerVars, brokerVars>>

\* The price is confirmed and the first ORDER row written: mark_triggered,
\* and place_order is called.
ExecSubmit ==
    /\ pc = "verify"
    /\ Mark(cur, "TRIGGERED")
    /\ pc' = "placing"
    /\ UNCHANGED <<lifeVars, safeVars, limitVars, logVars, snapHeld,
                   snapLimit, queue, cur, oid, sweepTodo, handlerVars,
                   brokerVars>>

EngineOrder(state, outcome) ==
    [rule |-> cur.rule, symbol |-> cur.symbol, side |-> cur.side,
     day |-> today, epoch |-> epoch, state |-> state, outcome |-> outcome]

Accept(o, outcome) ==
    /\ orders[o] = None
    /\ orders' = [orders EXCEPT ![o] = EngineOrder("open", outcome)]
    /\ leaked' = IF kill # "OFF" THEN leaked + 1 ELSE leaked

\* The broker takes the order; its answer is on the way.
BrokerAccepts ==
    /\ pc = "placing"
    /\ \E o \in OrderIds : /\ Accept(o, "pending")
                           /\ oid' = o
    /\ pc' = "answer"
    /\ UNCHANGED <<lifeVars, kill, lossLock, minuteOrders, signalVars,
                   limitVars, logVars, snapHeld, snapLimit, queue, cur,
                   sweepTodo, handlerVars, held>>

\* The broker refuses the order in the body of an HTTP 200 answer.
\* KisOrder.place_order does not look at the body's result code; the order
\* number it hands back then stands for no order.
BrokerRefuses ==
    /\ pc = "placing"
    /\ \E o \in OrderIds :
          /\ orders[o] = None
          /\ orders' = [orders EXCEPT ![o] = EngineOrder("refused", "pending")]
          /\ oid' = o
    /\ pc' = "answer"
    /\ UNCHANGED <<lifeVars, safeVars, signalVars, limitVars, logVars,
                   snapHeld, snapLimit, queue, cur, sweepTodo, handlerVars,
                   held>>

Conclude(outcome) ==
    orders' = IF oid = None THEN orders
              ELSE [orders EXCEPT ![oid].outcome = outcome]

\* place_order raises: not connected, HTTP error, or a time-out that may
\* strike after the broker has taken the order.
PlaceRaises ==
    /\ pc \in {"placing", "answer"}
    /\ Mark(cur, "IDLE")
    /\ Conclude("failed")
    /\ NextCandidate(queue)
    /\ UNCHANGED <<lifeVars, safeVars, limitVars, logVars, handlerVars, held>>

\* place_order returns: increment_order_count, mark_filled, record_execution
PlaceReturns ==
    /\ pc = "answer"
    /\ minuteOrders' = minuteOrders + 1
    /\ Mark(cur, "FILLED")
    /\ executed' = executed + cur.amount
    /\ pc' = "log_order"
    /\ UNCHANGED <<lifeVars, kill, lossLock, leaked, limitDay, logVars,
                   snapHeld, snapLimit, queue, cur, oid, sweepTodo,
                   handlerVars, brokerVars>>

OrderRow ==
    /\ loggedAmount' = loggedAmount + cur.amount
    /\ loggedBuy' = loggedBuy + (IF cur.side = "BUY" THEN cur.amount ELSE 0)

\* The ORDER row with price and quantity
LogOrder ==
    /\ pc = "log_order"
    /\ OrderRow
    /\ pc' = "log_fill"
    /\ UNCHANGED <<lifeVars, safeVars, signalVars, limitVars, dbDay, pnl, snapHeld,
                   snapLimit, queue, cur, oid, sweepTodo, handlerVars,
                   brokerVars>>

FillRow == IF cur.side = "SELL" THEN \E p \in PnlSteps : pnl' = pnl + p
                                ELSE UNCHANGED pnl

\* The FILL row with the realized profit of a SELL; execute returns SUCCESS.
LogFill ==
    /\ pc = "log_fill"
    /\ FillRow
    /\ Conclude("success")
    /\ Continue(queue)
    /\ UNCHANGED <<lifeVars, safeVars, signalVars, limitVars, dbDay,
                   loggedAmount, loggedBuy, handlerVars, held>>

\* Either write raises inside the try block that also covers place_order.
LogRaises ==
    /\ pc \in {"log_order", "log_fill"}
    /\ Mark(cur, "IDLE")
    /\ Conclude("failed")
    /\ NextCandidate(queue)
    /\ UNCHANGED <<lifeVars, safeVars, limitVars, logVars, handlerVars, held>>
-----------------------------------------------------------------------------
(* The handlers of routers/trading.py and cloud/_command_handler.py.       *)

\* start_strategy: a new StrategyEngine, LimitChecker.restore_from_db
Start ==
    /\ engine = "none" /\ epoch < MaxStarts
    /\ engine' = "running"
    /\ epoch' = epoch + 1
    /\ kill' = "OFF" /\ lossLock' = FALSE /\ minuteOrders' = 0 /\ leaked' = 0
    /\ signal' = [x \in Rules \X Sides |-> "IDLE"] /\ signalDay' = today
    /\ executed' = Restored /\ limitDay' = today
    /\ UNCHANGED <<today, logVars, cycleVars, handlerVars, brokerVars>>

\* What becomes of the pipeline's outside effects when the coroutine is
\* cancelled: a request on the wire may still be taken, a row handed to the
\* writer thread may still be written.
Abandon ==
    \/ /\ pc = "placing"
       /\ \E o \in OrderIds : Accept(o, "lost")
       /\ UNCHANGED logVars
    \/ /\ pc = "log_order"
       /\ OrderRow
       /\ Conclude("lost")
       /\ UNCHANGED <<dbDay, pnl, leaked>>
    \/ /\ pc = "log_fill"
       /\ FillRow
       /\ Conclude("lost")
       /\ UNCHANGED <<dbDay, loggedAmount, loggedBuy, leaked>>
    \/ /\ Conclude("lost")
       /\ UNCHANGED <<logVars, leaked>>

\* stop_strategy: the scheduler shuts down and cancels the running cycle.
Stop ==
    /\ engine = "running"
    /\ engine' = "none"
    /\ Abandon
    /\ EndCycle
    /\ UNCHANGED <<epoch, today, kill, lossLock, minuteOrders, signalVars,
                   limitVars, handlerVars, held>>

\* The process dies and comes back without an engine.
Crash ==
    /\ engine' = "none"
    /\ Abandon
    /\ EndCycle
    /\ killer' = "idle" /\ killTodo' = {} /\ manual' = None
    /\ UNCHANGED <<epoch, today, kill, lossLock, minuteOrders, signalVars,
                   limitVars, held>>

SetKillSwitch(level) ==
    /\ kill' = level
    /\ leaked' = IF kill = "OFF" THEN 0 ELSE leaked

\* kill_strategy: set the switch if there is an engine, write a row (which
\* may raise), and for CANCEL_OPEN go on to cancel the open orders.
LocalKill(level) ==
    /\ killer = "idle" /\ <<"local", level>> \in KillModes
    /\ IF engine = "running" THEN SetKillSwitch(level)
                             ELSE UNCHANGED <<kill, leaked>>
    /\ killer' \in (IF level = "CANCEL_OPEN" THEN {"idle", "list"} ELSE {"idle"})
    /\ UNCHANGED <<lifeVars, lossLock, minuteOrders, signalVars, limitVars,
                   logVars, cycleVars, killTodo, manual, brokerVars>>

KillList ==
    /\ killer = "list"
    /\ killTodo' \in {OpenOrders, {}}
    /\ killer' = IF killTodo' = {} THEN "idle" ELSE "cancel"
    /\ UNCHANGED <<lifeVars, safeVars, signalVars, limitVars, logVars,
                   cycleVars, manual, brokerVars>>

KillCancelOrder ==
    /\ killer = "cancel"
    /\ \E o \in killTodo : /\ CancelAtBroker(o)
                           /\ killTodo' = killTodo \ {o}
    /\ killer' = IF killTodo' = {} THEN "idle" ELSE "cancel"
    /\ UNCHANGED <<lifeVars, safeVars, signalVars, limitVars, logVars,
                   cycleVars, manual, held>>

\* _handle_kill: "stop_all" sets CANCEL_OPEN, anything else STOP_NEW.
RemoteKill(level) ==
    /\ level # "OFF" /\ <<"remote", level>> \in KillModes
    /\ engine = "running"
    /\ SetKillSwitch(level)
    /\ UNCHANGED <<lifeVars, lossLock, minuteOrders, signalVars, limitVars,
                   logVars, cycleVars, handlerVars, brokerVars>>

\* _handle_arm
RemoteArm ==
    /\ <<"remote", "OFF">> \in KillModes
    /\ engine = "running"
    /\ SetKillSwitch("OFF")
    /\ lossLock' = FALSE
    /\ UNCHANGED <<lifeVars, minuteOrders, signalVars, limitVars, logVars,
                   cycleVars, handlerVars, brokerVars>>

\* unlock_strategy
Unlock ==
    /\ engine = "running" /\ lossLock
    /\ lossLock' = FALSE
    /\ UNCHANGED <<lifeVars, kill, minuteOrders, leaked, signalVars,
                   limitVars, logVars, cycleVars, handlerVars, brokerVars>>

\* place_order of routers/trading.py: the gate, then the request
ManualRequest ==
    /\ manual = None
    /\ engine = "running" => TradingEnabled
    /\ manual' \in ManualOrders
    /\ UNCHANGED <<lifeVars, safeVars, signalVars, limitVars, logVars,
                   cycleVars, killer, killTodo, brokerVars>>

\* ... the broker takes it; the row written afterwards carries no price ...
ManualAccepted ==
    /\ manual # None
    /\ \E o \in OrderIds :
          /\ orders[o] = None
          /\ orders' = [orders EXCEPT ![o] =
                 [rule |-> 0, symbol |-> manual[1], side |-> manual[2],
                  day |-> today, epoch |-> epoch, state |-> "open",
                  outcome |-> "manual"]]
    /\ manual' = None
    /\ UNCHANGED <<lifeVars, safeVars, signalVars, limitVars, logVars,
                   cycleVars, killer, killTodo, held>>

\* ... or the call fails (HTTP 502).
ManualFails ==
    /\ manual # None
    /\ manual' = None
    /\ UNCHANGED <<lifeVars, safeVars, signalVars, limitVars, logVars,
                   cycleVars, killer, killTodo, brokerVars>>
-----------------------------------------------------------------------------
(* The market.                                                             *)

\* An open order is executed; a SELL may leave part of the holding.
Fill ==
    /\ \E o \in OpenOrders :
          /\ orders' = [orders EXCEPT ![o].state = "filled"]
          /\ IF orders[o].side = "BUY"
             THEN held' = held \cup {orders[o].symbol}
             ELSE held' \in {held, held \ {orders[o].symbol}}
    /\ UNCHANGED <<lifeVars, safeVars, signalVars, limitVars, logVars,
                   cycleVars, handlerVars>>

\* Midnight where the server runs, nine hours ahead of midnight UTC.  Cycles
\* run between 09:00 and 15:30 only, and no request takes hours.
Midnight ==
    /\ today < MaxDay /\ dbDay = today
    /\ pc = "idle" /\ killer = "idle" /\ manual = None
    /\ today' = today + 1
    /\ UNCHANGED <<engine, epoch, safeVars, signalVars, limitVars, logVars,
                   cycleVars, handlerVars, brokerVars>>

\* Midnight UTC: the sums over today's rows start again from nothing.
UtcMidnight ==
    /\ dbDay < today
    /\ dbDay' = today
    /\ loggedAmount' = 0 /\ loggedBuy' = 0 /\ pnl' = 0
    /\ UNCHANGED <<lifeVars, safeVars, signalVars, limitVars, cycleVars,
                   handlerVars, brokerVars>>
-----------------------------------------------------------------------------
Init ==
    /\ engine = "none" /\ epoch = 0 /\ today = 1 /\ dbDay = 1
    /\ kill = "OFF" /\ lossLock = FALSE /\ minuteOrders = 0 /\ leaked = 0
    /\ signal = [x \in Rules \X Sides |-> "IDLE"] /\ signalDay = 1
    /\ executed = 0 /\ limitDay = 1
    /\ loggedAmount = 0 /\ loggedBuy = 0 /\ pnl = 0
    /\ pc = "idle" /\ snapHeld = {} /\ snapLimit = 0 /\ queue = {}
    /\ cur = None /\ oid = None /\ sweepTodo = {}
    /\ killer = "idle" /\ killTodo = {} /\ manual = None
    /\ orders = [o \in OrderIds |-> None] /\ held \in SUBSET Symbols

\* What a cycle does once the scheduler has started it
CycleStep ==
    \/ CycleBalance \/ CycleLossCheck \/ CycleCancelList \/ CycleCancelOrder
    \/ CycleCancelDone \/ CycleCollect \/ CycleAborts
    \/ ExecReject \/ ExecAdmit \/ ExecPriceGap \/ ExecSubmit
    \/ BrokerAccepts \/ BrokerRefuses \/ PlaceRaises \/ PlaceReturns
    \/ LogOrder \/ LogFill \/ LogRaises

Handler ==
    \/ Start \/ Stop \/ Crash
    \/ \E level \in KillLevels : LocalKill(level) \/ RemoteKill(level)
    \/ KillList \/ KillCancelOrder \/ RemoteArm \/ Unlock
    \/ ManualRequest \/ ManualAccepted \/ ManualFails

Next == CycleTick \/ CycleStep \/ Handler \/ Fill
        \/ Midnight \/ UtcMidnight

\* Every await of a cycle ends: the broker calls have a five-second time-out
\* and the log writes run on a worker thread.  The scheduler, the handlers
\* and the market owe nothing.
Spec == Init /\ [][Next]_vars /\ WF_vars(CycleStep)
-----------------------------------------------------------------------------
(* What the core promises.                                                 *)

\* Types of all variables.
TypeOK ==
    /\ engine \in {"none", "running"} /\ epoch \in Nat /\ today \in Nat
    /\ kill \in KillLevels /\ lossLock \in BOOLEAN
    /\ minuteOrders \in Nat /\ leaked \in Nat
    /\ signal \in [Rules \X Sides -> {"IDLE", "TRIGGERED", "FILLED"}]
    /\ signalDay \in Nat
    /\ executed \in Nat /\ limitDay \in Nat
    /\ dbDay \in Nat /\ loggedAmount \in Nat /\ loggedBuy \in Nat /\ pnl \in Int
    /\ pc \in Phases /\ snapHeld \in SUBSET Symbols /\ snapLimit \in Nat
    /\ queue \in SUBSET Signals /\ cur \in Signals \cup {None}
    /\ oid \in OrderIds \cup {None} /\ sweepTodo \in SUBSET OrderIds
    /\ killer \in {"idle", "list", "cancel"} /\ killTodo \in SUBSET OrderIds
    /\ manual \in ManualOrders \cup {None}
    /\ orders \in [OrderIds -> Order \cup {None}]
    /\ held \in SUBSET Symbols

EngineOrders == {o \in OrderIds : orders[o] # None /\ orders[o].rule # 0}

SameTrigger(o, p) == /\ orders[o].rule = orders[p].rule
                     /\ orders[o].side = orders[p].side
                     /\ orders[o].day = orders[p].day

\* Within one life of the engine a rule gives the broker at most one order a
\* day and side whose attempt was not reported as failed: SignalManager and
\* the await points of OrderExecutor.execute never let a second attempt start
\* while the first is under way or after it succeeded.
OneOrderPerLife ==
    \A o, p \in EngineOrders :
        /\ SameTrigger(o, p) /\ orders[o].epoch = orders[p].epoch
        /\ orders[o].outcome # "failed" /\ orders[p].outcome # "failed"
        => o = p

\* A signal of a running engine is TRIGGERED only while its order is on its
\* way: no path through execute leaves a rule stuck for the rest of the day.
TriggeredOnlyInFlight ==
    engine = "running" =>
        \A x \in Rules \X Sides :
            signal[x] = "TRIGGERED" =>
                /\ pc \in {"placing", "answer"}
                /\ x = <<cur.rule, cur.side>>

\* Once the kill switch has left OFF the broker takes at most one more order
\* from the engine, the one already past the gate, until it is OFF again;
\* however many candidates the cycle still holds.
KillLeakBound == leaked <= 1

OrderPhases == {"collect", "check", "verify", "placing", "answer",
                "log_order", "log_fill"}

\* The cycle that trips the loss lock, and every later one until an unlock,
\* ends without reaching the order pipeline.
LossLockStopsOrders == lossLock => pc \notin OrderPhases

\* The BUY amounts logged for one day, by all lives of the engine together,
\* stay within the largest daily budget any of its cycles computed: restoring
\* the day's amount from the log makes up for the counter a stop loses.
LoggedBuysWithinBudget == loggedBuy <= MaxBudget

\* The orders counted in one speed window never exceed the limit, although
\* the count is checked before the price check and raised after place_order.
SpeedLimit == minuteOrders <= MaxPerMinute

\* Every cycle ends.  The scheduler skips ticks while one is running, so a
\* cycle that never ends would stop all trading without a sign.
CycleEnds == pc # "idle" ~> pc = "idle"

(* What documents and comments say and the code does not do.               *)

\* "The same rule is not executed twice in one day" (strategy-engine 6.3):
\* the broker never takes two orders of a rule for one side on one day.
AtMostOncePerDay ==
    \A o, p \in EngineOrders :
        /\ SameTrigger(o, p)
        /\ orders[o].state # "refused" /\ orders[p].state # "refused"
        => o = p

\* "CANCEL_OPEN = 2: block new orders and cancel the open ones" (comment in
\* safeguard.py): raising the switch to CANCEL_OPEN starts a cancellation.
CancelOpenStartsSweep ==
    [][kill # "CANCEL_OPEN" /\ kill' = "CANCEL_OPEN" => killer' = "list"]_vars

\* "KIS answers with rt_cd other than 0 are errors even under HTTP 200"
\* (error_classifier.py): an order reported as executed was not refused.
SuccessWasAccepted ==
    \A o \in EngineOrders : orders[o].outcome = "success" =>
                            orders[o].state # "refused"

\* "Restores the amount executed on the current day" (restore_from_db): on a
\* day without engine orders a cycle counts nothing against the budget.
BudgetCountsToday ==
    (pc # "idle" /\ \A o \in EngineOrders : orders[o].day # today)
        => executed = 0
-----------------------------------------------------------------------------
(* The inductive invariant: what holds between any two steps and why the   *)
(* promises above hold.                                                    *)

InPipeline == {"verify", "placing", "answer", "log_order", "log_fill"}

\* A cycle belongs to a running engine and to one day, for the database too;
\* the pipeline's local variables are set exactly while they are used.
CycleInv ==
    /\ pc # "idle" => engine = "running" /\ limitDay = today /\ dbDay = today
    /\ cur # None <=> pc \in InPipeline
    /\ oid # None <=> pc \in {"answer", "log_order", "log_fill"}
    /\ oid # None => orders[oid] # None
    /\ dbDay <= today /\ limitDay <= today /\ signalDay <= today

\* The signal of the current candidate mirrors the pipeline's position.
SignalInv ==
    /\ pc \in InPipeline =>
          /\ signalDay = today
          /\ signal[<<cur.rule, cur.side>>] =
                IF pc = "verify" THEN "IDLE"
                ELSE IF pc \in {"placing", "answer"} THEN "TRIGGERED"
                ELSE "FILLED"
    /\ TriggeredOnlyInFlight

\* What the order of an attempt says about the engine that made it.
AttemptInv(o) ==
    /\ orders[o].epoch <= epoch
    /\ orders[o].outcome # "manual"
    /\ orders[o].outcome = "pending" <=> o = oid
    /\ orders[o].epoch = epoch /\ engine = "running" =>
          /\ orders[o].outcome # "lost"
          /\ orders[o].outcome = "success" /\ orders[o].day = today =>
                /\ signalDay = today
                /\ signal[<<orders[o].rule, orders[o].side>>] = "FILLED"

\* The broker's book agrees with the engine's view of its own attempts.
OrderInv ==
    /\ oid # None =>
          /\ orders[oid].rule = cur.rule /\ orders[oid].side = cur.side
          /\ orders[oid].day = today /\ orders[oid].epoch = epoch
    /\ \A o \in EngineOrders : orders[o].day <= today /\ AttemptInv(o)

\* The counter of a running engine covers what the database has logged for
\* the day, and an order in flight fits the limit it was checked against.
BudgetInv ==
    /\ loggedBuy <= loggedAmount /\ loggedBuy <= MaxBudget
    /\ snapLimit <= MaxBudget
    /\ engine = "running" =>
          IF limitDay = today
          THEN loggedAmount + (IF pc = "log_order" THEN cur.amount ELSE 0)
                  <= executed
          ELSE dbDay = today => loggedAmount = 0
    /\ pc \in {"verify", "placing", "answer"} /\ cur.side = "BUY" =>
          executed + cur.amount <= snapLimit
    /\ pc = "log_order" /\ cur.side = "BUY" => executed <= snapLimit

SpeedInv == /\ minuteOrders <= MaxPerMinute
            /\ pc \in {"verify", "placing", "answer"} =>
                  minuteOrders < MaxPerMinute

KillInv == /\ leaked <= 1
           /\ kill # "OFF" /\ pc \in {"verify", "placing"} => leaked = 0

\* The inductive invariant of the core.
EngineInv == /\ TypeOK /\ CycleInv /\ SignalInv /\ OrderInv
             /\ OneOrderPerLife /\ BudgetInv /\ SpeedInv /\ KillInv
             /\ LossLockStopsOrders
-----------------------------------------------------------------------------
(* The core implements OrderSlots.                                         *)

SlotOf(x) ==
    IF pc \in InPipeline \ {"verify"} /\ x = <<cur.rule, cur.side>>
    THEN "working"
    ELSE IF engine = "running" /\ signalDay = today /\ signal[x] = "FILLED"
    THEN "done"
    ELSE "free"

Slots == INSTANCE OrderSlots WITH Keys <- Rules \X Sides,
                                  slot <- [x \in Rules \X Sides |-> SlotOf(x)]

\* Each attempt to trade takes a free slot, alone, and is concluded; a rule
\* that has traded stays closed until the day or the engine changes.
ImplementsOrderSlots == Slots!Spec
=============================================================================
