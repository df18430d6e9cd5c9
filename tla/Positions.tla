------------------------------ MODULE Positions ------------------------------
(***************************************************************************)
(* What the engine believes to hold of one stock: the PositionState that   *)
(* the rules with a script are evaluated with, written by the engine's own *)
(* fills and, once a minute, by _sync_positions from the broker's balance  *)
(* (engine/position_state.py, engine/engine.py).                           *)
(*                                                                         *)
(* Of prices only the type of entry_price is kept, a float after a fill    *)
(* and a Decimal after a synchronisation: Python does not subtract one     *)
(* from the other.  Highs, ages and execution counts are left out.  A      *)
(* cycle is cut at its awaits; an order that the broker accepts counts as  *)
(* filled in the engine and is filled later.                               *)
(* Names ending in "Mutant" are faulty variants of the definition that     *)
(* follows them.                                                           *)
(***************************************************************************)
EXTENDS Naturals, Sequences, FiniteSetsExt, SequencesExt, Filters, Sums

CONSTANTS
    Rules,       \* the rules for this stock, by priority: 1 .. n
    RuleQty,     \* execution.qty_value of each
    MaxHeld,     \* bound: shares in the account
    MaxOpen,     \* bound: orders that are open at the same time
    MaxEpochs    \* bound: memories of signals, a new one for each day and each engine

ASSUME PositionsAssumption ==
    /\ IsFiniteSet(Rules) /\ Rules = 1 .. Cardinality(Rules)
    /\ RuleQty \in Nat \ {0}
    /\ MaxHeld \in Nat \ {0}
    /\ MaxOpen \in Nat /\ MaxEpochs \in Nat \ {0}

BuyOrSell == {"BUY", "SELL"}

VARIABLES
    ps,          \* the PositionState: does it exist, its quantity, the type of entry_price
    account,     \* shares in the account
    orders,      \* orders the broker has accepted and not yet filled
    cycle,       \* where evaluate_all is suspended
    due,         \* is the last synchronisation a minute ago?
    held,        \* holding_symbols has the stock
    batch,       \* the selected candidates that are still to be executed
    used,        \* rules that the SignalManager remembers to have traded on a side
    epoch,       \* ghost: the how manieth memory this is
    opening,     \* ghost: the most the engine may have believed to hold when it began
    loose        \* ghost: may the two quantities differ, and not by open orders?

posVars == <<ps, account, orders, cycle, due, held, batch, used, epoch, opening, loose>>

Empty == [known |-> FALSE, qty |-> 0, entry |-> "zero"]
OrdersTo(sides) == [rule : Rules, side : sides, qty : Nat \ {0}]
RuleOrders == OrdersTo(BuyOrSell)
SentOrders == [rule : Rules, side : BuyOrSell, qty : Nat \ {0}, epoch : 1 .. MaxEpochs]

PositionsTypeOK ==
    /\ ps \in [known : BOOLEAN, qty : Nat, entry : {"zero", "float", "decimal"}]
    /\ account \in 0 .. MaxHeld
    /\ orders \subseteq SentOrders /\ IsFiniteSet(orders)
    /\ cycle \in {"idle", "syncing", "asking", "collecting", "executing", "accepted"}
    /\ due \in BOOLEAN /\ held \in BOOLEAN /\ loose \in BOOLEAN
    /\ batch \in Seq(RuleOrders)
    /\ used \subseteq Rules \X BuyOrSell
    /\ epoch \in 1 .. MaxEpochs
    /\ opening \in Nat /\ opening >= MaxHeld

PositionsInit ==
    /\ ps = Empty
    /\ account \in 0 .. 1
    /\ orders = {}
    /\ cycle = "idle"
    /\ due = TRUE
    /\ held = FALSE
    /\ batch = <<>>
    /\ used = {}
    /\ epoch = 1
    /\ opening = MaxHeld
    /\ loose = (account > 0)

----------------------------------------------------------------------------
(* PositionState                                                           *)

Holding(p) == p.qty > 0

\* reset.
Cleared(p) == [Empty EXCEPT !.known = p.known]

\* record_buy
Bought(p, q) == [p EXCEPT !.qty = @ + q, !.entry = "float"]

\* The quantity may become zero without a reset.
SoldMutant(p, q) == [p EXCEPT !.qty = IF q > @ THEN 0 ELSE @ - q]

\* record_sell
Sold(p, q) == IF q >= p.qty THEN Cleared(p) ELSE [p EXCEPT !.qty = @ - q]

\* update_cycle computes the profit of what is held in floats.
UpdateRaises(p) == Holding(p) /\ p.entry = "decimal"

----------------------------------------------------------------------------
(* evaluate_all                                                            *)

StartCycle ==
    /\ cycle = "idle"
    /\ cycle' = IF due THEN "syncing" ELSE "asking"
    /\ UNCHANGED <<ps, account, orders, due, held, batch, used, epoch, opening, loose>>

\* "bp.qty != ps.total_qty or abs(bp.avg_price - ps.entry_price) > 0.01": the second
\* operand is only looked at when the quantities agree.
SyncRaises == ps.known /\ account > 0 /\ account = ps.qty /\ ps.entry # "decimal"

Synced(p) ==
    IF ~p.known THEN p
    ELSE IF account = 0 THEN (IF Holding(p) THEN Cleared(p) ELSE p)
    ELSE [p EXCEPT !.qty = account, !.entry = "decimal"]

\* _sync_positions: without a balance it is skipped; a TypeError passes it and ends the
\* cycle before _last_sync_ts is set.
Sync ==
    /\ cycle = "syncing"
    /\ \/ /\ cycle' = "asking" /\ due' = FALSE
          /\ UNCHANGED <<ps, loose>>
       \/ /\ SyncRaises
          /\ cycle' = "idle"
          /\ UNCHANGED <<ps, due, loose>>
       \/ /\ ~SyncRaises
          /\ ps' = Synced(ps)
          /\ cycle' = "asking" /\ due' = FALSE
          /\ loose' = (IF ps.known THEN orders # {} ELSE loose)
    /\ UNCHANGED <<account, orders, held, batch, used, epoch, opening>>

\* get_balance and the other questions of the cycle; a failure ends it, and so does a
\* lock on trading.
AskBalance ==
    /\ cycle = "asking"
    /\ held' = (account > 0)
    /\ cycle' \in {"collecting", "idle"}
    /\ UNCHANGED <<ps, account, orders, due, batch, used, epoch, opening, loose>>

\* _calc_v2_qty.  A percentage to buy becomes one share.
ToSell(p, percent) ==
    IF p.qty = 0 THEN 0 ELSE Max({1, (p.qty * percent) \div 100})

RuleAmounts(p, side) == IF side = "BUY" THEN {1, RuleQty} ELSE {ToSell(p, 50), p.qty}

\* _collect_candidates_v2: what a rule may ask for, if anything.  After an exception its
\* script is read as v1, without the position.
Asked(side) ==
    (IF UpdateRaises(ps) THEN {RuleQty} ELSE RuleAmounts(ps, side)) \ {0}

Signals(r) ==
    {<<>>} \union UNION {{<<[rule |-> r, side |-> side, qty |-> q]>> : q \in Asked(side)} :
                            side \in BuyOrSell}

\* process_cycle: one BUY of what is not held, any SELL of what is.
Selected(cands) ==
    IF held THEN Without(cands, OrdersTo({"BUY"}))
    ELSE LET buys == Without(cands, OrdersTo({"SELL"}))
         IN  IF buys = <<>> THEN <<>> ELSE <<Head(buys)>>

\* Every rule is evaluated, once a quote has arrived.
Collect ==
    /\ cycle = "collecting"
    /\ \E signal \in [Rules -> UNION {Signals(r) : r \in Rules}] :
          /\ \A r \in Rules : signal[r] \in Signals(r)
          /\ batch' = Selected(FlattenSeq([r \in Rules |-> signal[r]]))
    /\ ps' \in {ps, [ps EXCEPT !.known = TRUE]}
    /\ ps'.known \/ batch' = <<>>
    /\ cycle' = IF batch' = <<>> THEN "idle" ELSE "executing"
    /\ UNCHANGED <<account, orders, due, held, used, epoch, opening, loose>>

Candidate == Head(batch)

Continue == batch' = Tail(batch) /\ cycle' = IF Tail(batch) = <<>> THEN "idle" ELSE "executing"

\* execute: the order goes out once for a rule and a side, as far as the SignalManager
\* remembers.
ExecuteOrder ==
    /\ cycle = "executing"
    /\ <<Candidate.rule, Candidate.side>> \notin used
    /\ Cardinality(orders) < MaxOpen
    /\ used' = used \union {<<Candidate.rule, Candidate.side>>}
    /\ orders' = orders \union {[rule |-> Candidate.rule, side |-> Candidate.side,
                                 qty |-> Candidate.qty, epoch |-> epoch]}
    /\ cycle' = "accepted"
    /\ UNCHANGED <<ps, account, due, held, batch, epoch, opening, loose>>

\* Its status is not SUCCESS.
ExecuteFails ==
    /\ cycle = "executing"
    /\ Continue
    /\ UNCHANGED <<ps, account, orders, due, held, used, epoch, opening, loose>>

\* _update_position_state_on_fill.  Two rules may sell the same shares.
RecordFill ==
    /\ cycle = "accepted"
    /\ LET q == Candidate.qty
       IN  /\ ps' = IF Candidate.side = "BUY" THEN Bought(ps, q) ELSE Sold(ps, q)
           /\ loose' = (loose \/ (Candidate.side = "SELL" /\ q > ps.qty))
    /\ Continue
    /\ UNCHANGED <<account, orders, due, held, used, epoch, opening>>

----------------------------------------------------------------------------
(* The rest of the world                                                   *)

Fill(o) ==
    /\ o \in orders
    /\ orders' = orders \ {o}
    /\ IF o.side = "BUY" THEN account + o.qty <= MaxHeld /\ account' = account + o.qty
       ELSE account >= o.qty /\ account' = account - o.qty
    /\ UNCHANGED <<ps, cycle, due, held, batch, used, epoch, opening, loose>>

\* Cancelled, expired, or more than there is to sell.
OrderEnds(o) ==
    /\ o \in orders
    /\ orders' = orders \ {o}
    /\ loose' = TRUE
    /\ UNCHANGED <<ps, account, cycle, due, held, batch, used, epoch, opening>>

\* An order the engine does not know of.
OtherTrade ==
    /\ account' \in {account + 1, account - 1} \intersect 0 .. MaxHeld
    /\ loose' = TRUE
    /\ UNCHANGED <<ps, orders, cycle, due, held, batch, used, epoch, opening>>

MinutePasses ==
    /\ due' = TRUE
    /\ UNCHANGED <<ps, account, orders, cycle, held, batch, used, epoch, opening, loose>>

\* A memory of signals is empty when it begins.
NewEpoch ==
    /\ epoch < MaxEpochs
    /\ epoch' = epoch + 1
    /\ used' = {}

\* What the broker has accepted and the engine is about to record.
Accepted(side) == IF cycle = "accepted" /\ Candidate.side = side THEN Candidate.qty ELSE 0

\* _check_daily_reset forgets the signals of yesterday.
Midnight ==
    /\ NewEpoch
    /\ opening' = Max({MaxHeld, ps.qty + Accepted("BUY")})
    /\ UNCHANGED <<ps, account, orders, cycle, due, held, batch, loose>>

\* A new engine, in the same process or after a crash at any point of a cycle: it knows
\* nothing of what is held, and its SignalManager nothing of what was ordered today.
EngineRestart ==
    /\ NewEpoch
    /\ opening' = MaxHeld
    /\ ps' = Empty
    /\ cycle' = "idle" /\ batch' = <<>> /\ held' = FALSE
    /\ due' = TRUE
    /\ loose' = (account > 0 \/ orders # {})
    /\ UNCHANGED <<account, orders>>

----------------------------------------------------------------------------
EngineCycle == StartCycle \/ Sync \/ AskBalance \/ Collect \/ ExecuteOrder \/ ExecuteFails \/ RecordFill

PositionsNext ==
    \/ EngineCycle
    \/ \E o \in orders : Fill(o) \/ OrderEnds(o)
    \/ OtherTrade \/ MinutePasses \/ Midnight \/ EngineRestart

\* The scheduler runs cycle after cycle, and every await ends.
PositionsFairness == WF_posVars(EngineCycle)

PositionsSpec == PositionsInit /\ [][PositionsNext]_posVars /\ PositionsFairness

----------------------------------------------------------------------------
Open(side) == LET sent == {o \in orders : o.side = side} IN SumOver([o \in sent |-> o.qty], sent)

\* The engine holds what the account holds and what its open orders will make of it, but
\* for the order it is about to record, unless an order ended unfilled, somebody else
\* traded, two rules sold the same shares, or a synchronisation looked between an order
\* and its fill.
QuantityTracked ==
    ~loose => ps.qty + Accepted("BUY") + Open("SELL") = account + Open("BUY") + Accepted("SELL")

\* What is not held has no entry price, so nothing is compared with an old one.
NothingLeftBehind == ps.entry = "zero" <=> ps.qty = 0

\* A rule has one order at most on a side from one memory of its signals: what is open of
\* the present one it remembers.  A new engine forgets, so that of one day a rule may
\* have as many as there were engines.
OncePerRule ==
    /\ \A o \in orders : o.epoch <= epoch /\ (o.epoch = epoch => <<o.rule, o.side>> \in used)
    /\ \A o, p \in orders :
          o.rule = p.rule /\ o.side = p.side /\ o.epoch = p.epoch => o = p

\* The engine never believes to hold more than it did when its memory began, or than the
\* account can, and one purchase of each rule that it remembers.
BoughtOnce ==
    LET buyers == {r \in Rules : <<r, "BUY">> \in used}
    IN  ps.qty + Accepted("BUY") <= opening + RuleQty * Cardinality(buyers)

\* There is a candidate to execute, and none buys more than its rule says.
BatchSound ==
    /\ cycle \in {"executing", "accepted"} <=> batch # <<>>
    /\ \A c \in ToSet(batch) : c.side = "BUY" => c.qty <= RuleQty

PositionsInv ==
    PositionsTypeOK /\ QuantityTracked /\ NothingLeftBehind /\ OncePerRule /\ BoughtOnce /\ BatchSound

\* "Synchronises the engine's PositionState with the broker's balance periodically"
\* (v1-polish specification): the engine gets past its synchronisation again and again.
SyncsComplete == []<>(cycle = "asking")
=============================================================================
