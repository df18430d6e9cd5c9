------------------------- MODULE TradingEngineProofs -------------------------
(***************************************************************************)
(* Theorems about TradingEngine for every number of rules, symbols, order  *)
(* numbers, days and engine starts.                                        *)
(***************************************************************************)
EXTENDS TradingEngine, TLAPS, FiniteSetTheorems

\* What a candidate of any rule is made of.
LEMMA SignalFields ==
    ASSUME NEW c \in Signals
    PROVE  /\ c.rule \in Rules /\ c.symbol \in Symbols /\ c.side \in Sides
           /\ c.amount \in Nat
           /\ <<c.rule, c.side>> \in Rules \X Sides
           /\ c # None
PROOF
<1>1. PICK r \in Rules, s \in Sides : c = Candidate(r, s)  BY DEF Signals
<1>2. SymbolOf[r] \in Symbols /\ AmountOf[r] \in Nat  BY EngineAssumption
<1>3. c # None  BY NoneAssumption
<1> QED  BY <1>1, <1>2, <1>3 DEF Candidate

\* An order of the current candidate is a well-formed order.
LEMMA EngineOrderType ==
    ASSUME TypeOK, cur # None,
           NEW state \in OrderStates, NEW outcome \in OrderOutcomes
    PROVE  EngineOrder(state, outcome) \in Order
PROOF
<1>1. cur \in Signals  BY DEF TypeOK
<1>2. cur.rule \in 0..NRules
  <2>1. cur.rule \in Rules  BY <1>1, SignalFields
  <2> QED  BY <2>1 DEF Rules
<1>3. /\ cur.symbol \in Symbols /\ cur.side \in Sides
      /\ today \in Nat /\ epoch \in Nat
      BY <1>1, SignalFields DEF TypeOK
<1> QED  BY <1>2, <1>3 DEF EngineOrder, Order
-----------------------------------------------------------------------------
(* What the helpers of the actions do to the types.                        *)

LEMMA EndCycleType ==
    ASSUME TypeOK, EndCycle
    PROVE  /\ pc' \in Phases /\ snapHeld' \in SUBSET Symbols /\ snapLimit' \in Nat
           /\ queue' \in SUBSET Signals /\ cur' \in Signals \cup {None}
           /\ oid' \in OrderIds \cup {None} /\ sweepTodo' \in SUBSET OrderIds
BY DEF TypeOK, EndCycle, Phases

LEMMA ContinueType ==
    ASSUME TypeOK, NEW rest \in SUBSET Signals, Continue(rest)
    PROVE  /\ pc' \in Phases /\ snapHeld' \in SUBSET Symbols /\ snapLimit' \in Nat
           /\ queue' \in SUBSET Signals /\ cur' \in Signals \cup {None}
           /\ oid' \in OrderIds \cup {None} /\ sweepTodo' \in SUBSET OrderIds
PROOF
<1>1. CASE rest = {}  BY <1>1, EndCycleType DEF Continue
<1>2. CASE rest # {}  BY <1>2 DEF TypeOK, Continue, Phases
<1> QED  BY <1>1, <1>2

LEMMA NextCandidateType ==
    ASSUME TypeOK, NEW rest \in SUBSET Signals, NextCandidate(rest)
    PROVE  /\ pc' \in Phases /\ snapHeld' \in SUBSET Symbols /\ snapLimit' \in Nat
           /\ queue' \in SUBSET Signals /\ cur' \in Signals \cup {None}
           /\ oid' \in OrderIds \cup {None} /\ sweepTodo' \in SUBSET OrderIds
BY ContinueType, EndCycleType DEF NextCandidate

LEMMA DailyResetType ==
    ASSUME TypeOK, DailyReset
    PROVE  /\ signal' \in [Rules \X Sides -> {"IDLE", "TRIGGERED", "FILLED"}]
           /\ signalDay' \in Nat
BY DEF TypeOK, DailyReset, SignalsToday

LEMMA MarkType ==
    ASSUME TypeOK, NEW c \in Signals,
           NEW state \in {"IDLE", "TRIGGERED", "FILLED"}, Mark(c, state)
    PROVE  /\ signal' \in [Rules \X Sides -> {"IDLE", "TRIGGERED", "FILLED"}]
           /\ signalDay' \in Nat
PROOF
<1>1. <<c.rule, c.side>> \in Rules \X Sides  BY SignalFields
<1> QED  BY <1>1 DEF TypeOK, Mark

\* A field of an order that is there may change; the rest of the book stays.
LEMMA SetState ==
    ASSUME TypeOK, NEW o \in OrderIds, orders[o] # None, NEW s \in OrderStates
    PROVE  [orders EXCEPT ![o].state = s] \in [OrderIds -> Order \cup {None}]
PROOF
<1>1. orders[o] \in Order  BY DEF TypeOK
<1>2. [orders[o] EXCEPT !.state = s] \in Order  BY <1>1 DEF Order
<1> QED  BY <1>2 DEF TypeOK

LEMMA ConcludeType ==
    ASSUME TypeOK, oid # None => orders[oid] # None,
           NEW outcome \in OrderOutcomes, Conclude(outcome)
    PROVE  orders' \in [OrderIds -> Order \cup {None}]
PROOF
<1>1. CASE oid = None  BY <1>1 DEF TypeOK, Conclude
<1>2. CASE oid # None
  <2>1. oid \in OrderIds /\ orders[oid] \in Order  BY <1>2 DEF TypeOK
  <2>2. [orders[oid] EXCEPT !.outcome = outcome] \in Order  BY <2>1 DEF Order
  <2> QED  BY <1>2, <2>1, <2>2 DEF TypeOK, Conclude
<1> QED  BY <1>1, <1>2

LEMMA AcceptType ==
    ASSUME TypeOK, cur # None, NEW o \in OrderIds, NEW outcome \in OrderOutcomes,
           Accept(o, outcome)
    PROVE  orders' \in [OrderIds -> Order \cup {None}] /\ leaked' \in Nat
PROOF
<1>1. EngineOrder("open", outcome) \in Order  BY EngineOrderType DEF OrderStates
<1> QED  BY <1>1 DEF TypeOK, Accept

LEMMA CancelType ==
    ASSUME TypeOK, NEW o, CancelAtBroker(o)
    PROVE  orders' \in [OrderIds -> Order \cup {None}]
PROOF
<1>1. CASE o \in OpenOrders /\ orders' = [orders EXCEPT ![o].state = "cancelled"]
  <2>1. o \in OrderIds /\ orders[o] # None  BY <1>1 DEF OpenOrders
  <2> QED  BY <1>1, <2>1, SetState DEF OrderStates
<1>2. CASE UNCHANGED orders  BY <1>2 DEF TypeOK
<1> QED  BY <1>1, <1>2 DEF CancelAtBroker

\* Orders keep all but their state, and no new one is the engine's: fills,
\* cancellations and manual orders leave alone who placed which order when,
\* and what became of the attempt.
SameTermsFor(p) ==
    /\ orders[p] # None =>
          /\ orders'[p] # None
          /\ orders'[p].rule = orders[p].rule
          /\ orders'[p].side = orders[p].side
          /\ orders'[p].day = orders[p].day
          /\ orders'[p].epoch = orders[p].epoch
          /\ orders'[p].outcome = orders[p].outcome
    /\ orders[p] = None /\ orders'[p] # None => orders'[p].rule = 0

SameTerms == \A p \in OrderIds : SameTermsFor(p)

LEMMA StateKept ==
    ASSUME TypeOK, NEW o \in OrderIds, orders[o] # None, NEW s \in OrderStates,
           orders' = [orders EXCEPT ![o].state = s]
    PROVE  SameTerms
PROOF
<1>1. orders[o] \in Order  BY DEF TypeOK
<1>2. [orders[o] EXCEPT !.state = s] \in Order  BY <1>1 DEF Order
<1>3. SUFFICES ASSUME NEW p \in OrderIds PROVE SameTermsFor(p)
      BY DEF SameTerms
<1>4. CASE p = o
  <2>1. orders'[o] = [orders[o] EXCEPT !.state = s]  BY DEF TypeOK
  <2>2. orders'[o] # None  BY <2>1, <1>2, NoneAssumption
  <2> QED  BY <1>1, <1>4, <2>1, <2>2 DEF Order, SameTermsFor
<1>5. CASE p # o  BY <1>5 DEF TypeOK, SameTermsFor
<1> QED  BY <1>4, <1>5

LEMMA CancelKept ==
    ASSUME TypeOK, NEW o, CancelAtBroker(o)
    PROVE  SameTerms
PROOF
<1>1. CASE o \in OpenOrders /\ orders' = [orders EXCEPT ![o].state = "cancelled"]
  <2>1. o \in OrderIds /\ orders[o] # None  BY <1>1 DEF OpenOrders
  <2> QED  BY <1>1, <2>1, StateKept DEF OrderStates
<1>2. CASE UNCHANGED orders  BY <1>2 DEF SameTerms, SameTermsFor
<1> QED  BY <1>1, <1>2 DEF CancelAtBroker

LEMMA FillKept ==
    ASSUME TypeOK, Fill
    PROVE  SameTerms
PROOF
<1>1. PICK o \in OpenOrders : orders' = [orders EXCEPT ![o].state = "filled"]
  BY DEF Fill
<1>2. o \in OrderIds /\ orders[o] # None  BY DEF OpenOrders
<1> QED  BY <1>1, <1>2, StateKept DEF OrderStates

LEMMA ManualKept ==
    ASSUME TypeOK, ManualAccepted
    PROVE  SameTerms
PROOF
<1>1. PICK o \in OrderIds, r \in [rule : {0}, symbol : Symbols, side : Sides,
             day : Nat, epoch : Nat, state : OrderStates, outcome : OrderOutcomes] :
         orders[o] = None /\ orders' = [orders EXCEPT ![o] = r]
  <2>1. manual[1] \in Symbols /\ manual[2] \in Sides
    BY EngineAssumption DEF ManualAccepted, TypeOK
  <2> QED  BY <2>1 DEF ManualAccepted, TypeOK, OrderStates, OrderOutcomes
<1>2. orders'[o].rule = 0  BY <1>1 DEF TypeOK
<1>3. \A p \in OrderIds \ {o} : orders'[p] = orders[p]  BY <1>1 DEF TypeOK
<1> QED  BY <1>1, <1>2, <1>3 DEF SameTerms, SameTermsFor
-----------------------------------------------------------------------------
LEMMA AbandonType ==
    ASSUME TypeOK, CycleInv, Abandon
    PROVE  /\ orders' \in [OrderIds -> Order \cup {None}] /\ leaked' \in Nat
           /\ dbDay' \in Nat /\ loggedAmount' \in Nat /\ loggedBuy' \in Nat
           /\ pnl' \in Int /\ dbDay' = dbDay
PROOF
<1>1. CASE pc = "placing" /\ (\E o \in OrderIds : Accept(o, "lost")) /\ UNCHANGED logVars
  <2>1. cur # None  BY <1>1 DEF CycleInv, InPipeline
  <2> QED  BY <1>1, <2>1, AcceptType DEF OrderOutcomes, TypeOK, logVars
<1>2. CASE Conclude("lost") /\ UNCHANGED <<logVars, leaked>>
  BY <1>2, ConcludeType DEF CycleInv, OrderOutcomes, TypeOK, logVars
<1>3. CASE pc = "log_order" /\ OrderRow /\ Conclude("lost") /\ UNCHANGED <<dbDay, pnl, leaked>>
  <2>1. cur \in Signals  BY <1>3 DEF CycleInv, InPipeline, TypeOK
  <2>2. cur.amount \in Nat  BY <2>1, SignalFields
  <2>3. orders' \in [OrderIds -> Order \cup {None}]
    BY <1>3, ConcludeType DEF CycleInv, OrderOutcomes
  <2> QED  BY <1>3, <2>2, <2>3 DEF TypeOK, OrderRow
<1>4. CASE pc = "log_fill" /\ FillRow /\ Conclude("lost") /\ UNCHANGED <<dbDay, loggedAmount, loggedBuy, leaked>>
  <2>1. orders' \in [OrderIds -> Order \cup {None}]
    BY <1>4, ConcludeType DEF CycleInv, OrderOutcomes
  <2>2. pnl' \in Int  BY <1>4, EngineAssumption DEF FillRow, TypeOK
  <2> QED  BY <1>4, <2>1, <2>2 DEF TypeOK
<1> QED  BY <1>1, <1>2, <1>3, <1>4 DEF Abandon

\* Inside the pipeline there is a current candidate.
LEMMA CurrentCandidate ==
    ASSUME TypeOK, CycleInv, pc \in InPipeline
    PROVE  /\ cur \in Signals /\ cur.rule \in Rules /\ cur.side \in Sides
           /\ cur.amount \in Nat /\ <<cur.rule, cur.side>> \in Rules \X Sides
PROOF
<1>1. cur \in Signals  BY DEF TypeOK, CycleInv
<1> QED  BY <1>1, SignalFields

LEMMA LimitRange ==
    ASSUME NEW l \in Limits
    PROVE  l \in Nat /\ l <= MaxBudget
BY EngineAssumption

\* Every step keeps the types, given that the pipeline's local variables are
\* set when it uses them.
LEMMA TypeStep ==
    ASSUME TypeOK, CycleInv, [Next]_vars
    PROVE  TypeOK'
PROOF
<1> USE DEF lifeVars, safeVars, signalVars, limitVars, logVars, cycleVars,
             handlerVars, brokerVars
<1>1. CASE CycleTick
  BY <1>1 DEF TypeOK, CycleTick, DateBoundary, Phases
<1>2. CASE CycleBalance
  BY <1>2, LimitRange DEF TypeOK, CycleBalance, Phases
<1>3. CASE CycleLossCheck
  BY <1>3, EndCycleType DEF TypeOK, CycleLossCheck, Phases
<1>4. CASE CycleCancelList
  BY <1>4 DEF TypeOK, CycleCancelList, OpenOrders, Phases
<1>5. CASE CycleCancelOrder
  BY <1>5, CancelType DEF TypeOK, CycleCancelOrder
<1>6. CASE CycleCancelDone
  BY <1>6, EndCycleType DEF TypeOK, CycleCancelDone, Phases
<1>7. CASE CycleCollect
  BY <1>7, ContinueType DEF TypeOK, CycleCollect
<1>8. CASE CycleAborts
  BY <1>8, EndCycleType DEF TypeOK, CycleAborts
<1>9. CASE ExecReject
  BY <1>9, NextCandidateType, DailyResetType DEF TypeOK, ExecReject
<1>10. CASE ExecAdmit
  BY <1>10, DailyResetType DEF TypeOK, ExecAdmit, Phases
<1>11. CASE ExecPriceGap
  BY <1>11, NextCandidateType DEF TypeOK, ExecPriceGap
<1>12. CASE ExecSubmit
  BY <1>12, MarkType DEF TypeOK, ExecSubmit, Phases, InPipeline, CycleInv
<1>13. CASE BrokerAccepts
  BY <1>13, AcceptType DEF TypeOK, BrokerAccepts, Phases, InPipeline, CycleInv, OrderOutcomes
<1>14. CASE BrokerRefuses
  BY <1>14, EngineOrderType DEF TypeOK, BrokerRefuses, Phases, InPipeline, CycleInv, OrderOutcomes, OrderStates
<1>15. CASE PlaceRaises
  BY <1>15, MarkType, ConcludeType, NextCandidateType DEF TypeOK, PlaceRaises, InPipeline, CycleInv, OrderOutcomes
<1>16. CASE PlaceReturns
  <2>1. cur \in Signals /\ cur.amount \in Nat
    BY <1>16, CurrentCandidate DEF PlaceReturns, InPipeline
  <2>2. /\ signal' \in [Rules \X Sides -> {"IDLE", "TRIGGERED", "FILLED"}]
        /\ signalDay' \in Nat
    BY <1>16, <2>1, MarkType DEF PlaceReturns
  <2> QED  BY <1>16, <2>1, <2>2 DEF TypeOK, PlaceReturns, Phases
<1>17. CASE LogOrder
  <2>1. cur.amount \in Nat
    BY <1>17, CurrentCandidate DEF LogOrder, InPipeline
  <2> QED  BY <1>17, <2>1 DEF TypeOK, LogOrder, OrderRow, Phases
<1>18. CASE LogFill
  BY <1>18, ConcludeType, ContinueType, EngineAssumption DEF TypeOK, LogFill, FillRow, InPipeline, CycleInv, OrderOutcomes
<1>19. CASE LogRaises
  BY <1>19, MarkType, ConcludeType, NextCandidateType DEF TypeOK, LogRaises, InPipeline, CycleInv, OrderOutcomes
<1>20. CASE Start
  <2>1. signal' \in [Rules \X Sides -> {"IDLE", "TRIGGERED", "FILLED"}]
    BY <1>20 DEF Start
  <2>2. /\ engine' \in {"none", "running"} /\ epoch' \in Nat
        /\ kill' \in KillLevels /\ lossLock' \in BOOLEAN
        /\ minuteOrders' \in Nat /\ leaked' \in Nat
        /\ signalDay' \in Nat /\ executed' \in Nat /\ limitDay' \in Nat
    <3>1. epoch \in Nat /\ today \in Nat /\ loggedAmount \in Nat  BY DEF TypeOK
    <3>2. /\ engine' = "running" /\ epoch' = epoch + 1
          /\ kill' = "OFF" /\ lossLock' = FALSE
          /\ minuteOrders' = 0 /\ leaked' = 0
          /\ signalDay' = today /\ executed' = loggedAmount /\ limitDay' = today
      BY <1>20 DEF Start, Restored
    <3>3. lossLock' \in BOOLEAN  BY <3>2
    <3>4. kill' \in KillLevels  BY <3>2 DEF KillLevels
    <3>5. epoch' \in Nat  BY <3>1, <3>2
    <3> QED  BY <3>1, <3>2, <3>3, <3>4, <3>5
  <2> QED  BY <1>20, <2>1, <2>2 DEF TypeOK, Start
<1>21. CASE Stop
  BY <1>21, EndCycleType, AbandonType DEF TypeOK, Stop
<1>22. CASE Crash
  BY <1>22, EndCycleType, AbandonType DEF TypeOK, Crash
<1>23. CASE \E level \in KillLevels : LocalKill(level) \/ RemoteKill(level)
  BY <1>23 DEF TypeOK, LocalKill, RemoteKill, SetKillSwitch
<1>24. CASE KillList
  BY <1>24 DEF TypeOK, KillList, OpenOrders
<1>25. CASE KillCancelOrder
  BY <1>25, CancelType DEF TypeOK, KillCancelOrder
<1>26. CASE RemoteArm
  BY <1>26 DEF TypeOK, RemoteArm, SetKillSwitch, KillLevels
<1>27. CASE Unlock
  BY <1>27 DEF TypeOK, Unlock
<1>28. CASE ManualRequest
  BY <1>28 DEF TypeOK, ManualRequest
<1>29. CASE ManualAccepted
  BY <1>29, EngineAssumption DEF TypeOK, ManualAccepted, Order, OrderStates, OrderOutcomes
<1>30. CASE ManualFails
  BY <1>30 DEF TypeOK, ManualFails
<1>31. CASE Fill
  <2>1. PICK o \in OpenOrders :
           /\ orders' = [orders EXCEPT ![o].state = "filled"]
           /\ IF orders[o].side = "BUY"
              THEN held' = held \cup {orders[o].symbol}
              ELSE held' \in {held, held \ {orders[o].symbol}}
    BY <1>31 DEF Fill
  <2>2. o \in OrderIds /\ orders[o] # None  BY DEF OpenOrders
  <2>3. orders[o].symbol \in Symbols  BY <2>2 DEF TypeOK, Order
  <2>4. orders' \in [OrderIds -> Order \cup {None}]
    BY <2>1, <2>2, SetState DEF OrderStates
  <2> QED  BY <1>31, <2>1, <2>3, <2>4 DEF TypeOK, Fill
<1>32. CASE Midnight
  BY <1>32 DEF TypeOK, Midnight
<1>33. CASE UtcMidnight
  BY <1>33 DEF TypeOK, UtcMidnight
<1>34. CASE UNCHANGED vars  BY <1>34 DEF TypeOK, vars
<1> QED
  BY <1>1, <1>2, <1>3, <1>4, <1>5, <1>6, <1>7, <1>8, <1>9, <1>10, <1>11, <1>12, <1>13, <1>14, <1>15, <1>16, <1>17, <1>18, <1>19, <1>20, <1>21, <1>22, <1>23, <1>24, <1>25, <1>26, <1>27, <1>28, <1>29, <1>30, <1>31, <1>32, <1>33, <1>34
  DEF Next, CycleStep, Handler

\* What is left of the pipeline's local variables when a candidate is done.
LEMMA CycleStepInv ==
    ASSUME TypeOK, CycleInv, [Next]_vars
    PROVE  CycleInv'
PROOF
<1> USE DEF lifeVars, safeVars, signalVars, limitVars, logVars, cycleVars,
             handlerVars, brokerVars
<1>1. CASE CycleTick
  BY <1>1 DEF TypeOK, CycleInv, CycleTick, DateBoundary, InPipeline
<1>2. CASE CycleBalance
  BY <1>2 DEF TypeOK, CycleInv, CycleBalance, InPipeline
<1>3. CASE CycleLossCheck
  BY <1>3 DEF TypeOK, CycleInv, CycleLossCheck, EndCycle, InPipeline
<1>4. CASE CycleCancelList
  BY <1>4 DEF TypeOK, CycleInv, CycleCancelList, InPipeline
<1>5. CASE CycleCancelOrder
  BY <1>5 DEF TypeOK, CycleInv, CycleCancelOrder, CancelAtBroker, InPipeline
<1>6. CASE CycleCancelDone
  BY <1>6 DEF TypeOK, CycleInv, CycleCancelDone, EndCycle, InPipeline
<1>7. CASE CycleCollect
  BY <1>7 DEF TypeOK, CycleInv, CycleCollect, Continue, EndCycle, InPipeline
<1>8. CASE CycleAborts
  BY <1>8 DEF TypeOK, CycleInv, CycleAborts, EndCycle, InPipeline
<1>9. CASE ExecReject
  BY <1>9 DEF TypeOK, CycleInv, ExecReject, NextCandidate, Continue, EndCycle, InPipeline, DailyReset
<1>10. CASE ExecAdmit
  BY <1>10, SignalFields DEF TypeOK, CycleInv, ExecAdmit, InPipeline, DailyReset
<1>11. CASE ExecPriceGap
  BY <1>11 DEF TypeOK, CycleInv, ExecPriceGap, NextCandidate, Continue, EndCycle, InPipeline
<1>12. CASE ExecSubmit
  BY <1>12 DEF TypeOK, CycleInv, ExecSubmit, Mark, InPipeline
<1>13. CASE BrokerAccepts
  <2>1. PICK o \in OrderIds : Accept(o, "pending") /\ oid' = o
    BY <1>13 DEF BrokerAccepts
  <2>2. cur # None  BY <1>13 DEF BrokerAccepts, CycleInv, InPipeline
  <2>3. EngineOrder("open", "pending") # None
    BY <2>2, EngineOrderType, NoneAssumption DEF OrderStates, OrderOutcomes
  <2>4. orders'[oid'] # None  BY <2>1, <2>3 DEF TypeOK, Accept
  <2>5. oid' # None  BY <2>1, NoneAssumption
  <2> QED  BY <1>13, <2>4, <2>5 DEF TypeOK, CycleInv, BrokerAccepts, InPipeline
<1>14. CASE BrokerRefuses
  <2>1. PICK o \in OrderIds :
           /\ orders' = [orders EXCEPT ![o] = EngineOrder("refused", "pending")]
           /\ oid' = o
    BY <1>14 DEF BrokerRefuses
  <2>2. cur # None  BY <1>14 DEF BrokerRefuses, CycleInv, InPipeline
  <2>3. EngineOrder("refused", "pending") # None
    BY <2>2, EngineOrderType, NoneAssumption DEF OrderStates, OrderOutcomes
  <2>4. orders'[oid'] # None  BY <2>1, <2>3 DEF TypeOK
  <2>5. oid' # None  BY <2>1, NoneAssumption
  <2> QED  BY <1>14, <2>4, <2>5 DEF TypeOK, CycleInv, BrokerRefuses, InPipeline
<1>15. CASE PlaceRaises
  BY <1>15 DEF TypeOK, CycleInv, PlaceRaises, NextCandidate, Continue, EndCycle, InPipeline, Mark
<1>16. CASE PlaceReturns
  BY <1>16 DEF TypeOK, CycleInv, PlaceReturns, InPipeline, Mark
<1>17. CASE LogOrder
  BY <1>17 DEF TypeOK, CycleInv, LogOrder, InPipeline
<1>18. CASE LogFill
  BY <1>18 DEF TypeOK, CycleInv, LogFill, NextCandidate, Continue, EndCycle, InPipeline
<1>19. CASE LogRaises
  BY <1>19 DEF TypeOK, CycleInv, LogRaises, NextCandidate, Continue, EndCycle, InPipeline, Mark
<1>20. CASE Start
  BY <1>20 DEF TypeOK, CycleInv, Start, InPipeline
<1>21. CASE Stop
  BY <1>21, AbandonType DEF TypeOK, CycleInv, Stop, EndCycle, InPipeline
<1>22. CASE Crash
  BY <1>22, AbandonType DEF TypeOK, CycleInv, Crash, EndCycle, InPipeline
<1>23. CASE \E level \in KillLevels : LocalKill(level) \/ RemoteKill(level)
  BY <1>23 DEF TypeOK, CycleInv, LocalKill, RemoteKill, SetKillSwitch
<1>24. CASE KillList
  BY <1>24 DEF TypeOK, CycleInv, KillList
<1>25. CASE KillCancelOrder
  <2>1. SameTerms  BY <1>25, CancelKept DEF KillCancelOrder
  <2> QED  BY <1>25, <2>1 DEF TypeOK, CycleInv, KillCancelOrder, SameTerms, SameTermsFor
<1>26. CASE RemoteArm
  BY <1>26 DEF TypeOK, CycleInv, RemoteArm
<1>27. CASE Unlock
  BY <1>27 DEF TypeOK, CycleInv, Unlock
<1>28. CASE ManualRequest
  BY <1>28 DEF TypeOK, CycleInv, ManualRequest
<1>29. CASE ManualAccepted
  BY <1>29 DEF TypeOK, CycleInv, ManualAccepted
<1>30. CASE ManualFails
  BY <1>30 DEF TypeOK, CycleInv, ManualFails
<1>31. CASE Fill
  BY <1>31, FillKept DEF TypeOK, CycleInv, Fill, SameTerms, SameTermsFor
<1>32. CASE Midnight
  BY <1>32 DEF TypeOK, CycleInv, Midnight
<1>33. CASE UtcMidnight
  BY <1>33 DEF TypeOK, CycleInv, UtcMidnight
<1>34. CASE UNCHANGED vars  BY <1>34 DEF TypeOK, CycleInv, vars
<1> QED
  BY <1>1, <1>2, <1>3, <1>4, <1>5, <1>6, <1>7, <1>8, <1>9, <1>10, <1>11, <1>12,
     <1>13, <1>14, <1>15, <1>16, <1>17, <1>18, <1>19, <1>20, <1>21, <1>22, <1>23, <1>24,
     <1>25, <1>26, <1>27, <1>28, <1>29, <1>30, <1>31, <1>32, <1>33, <1>34
  DEF Next, CycleStep, Handler
-----------------------------------------------------------------------------
LEMMA InitShape == Init => TypeOK /\ CycleInv
PROOF
<1> SUFFICES ASSUME Init PROVE TypeOK /\ CycleInv
  OBVIOUS
<1>1. /\ signal \in [Rules \X Sides -> {"IDLE", "TRIGGERED", "FILLED"}]
      /\ orders \in [OrderIds -> Order \cup {None}]
      BY DEF Init
<1>2. TypeOK
  <2>1. lossLock \in BOOLEAN  BY DEF Init
  <2>2. /\ engine \in {"none", "running"} /\ epoch \in Nat /\ today \in Nat
        /\ kill \in KillLevels /\ minuteOrders \in Nat /\ leaked \in Nat
        /\ signalDay \in Nat /\ executed \in Nat /\ limitDay \in Nat
        /\ dbDay \in Nat /\ loggedAmount \in Nat /\ loggedBuy \in Nat
        /\ pnl \in Int
    BY DEF Init, KillLevels
  <2>3. /\ pc \in Phases /\ snapHeld \in SUBSET Symbols /\ snapLimit \in Nat
        /\ queue \in SUBSET Signals /\ cur \in Signals \cup {None}
        /\ oid \in OrderIds \cup {None} /\ sweepTodo \in SUBSET OrderIds
        /\ killer \in {"idle", "list", "cancel"}
        /\ killTodo \in SUBSET OrderIds /\ manual \in ManualOrders \cup {None}
        /\ held \in SUBSET Symbols
    BY DEF Init, Phases
  <2> QED  BY <1>1, <2>1, <2>2, <2>3 DEF TypeOK
<1>3. CycleInv  BY DEF Init, CycleInv, InPipeline
<1> QED  BY <1>2, <1>3

\* Every variable of the core keeps its type, and the pipeline's local
\* variables are set exactly when a cycle is at the point that uses them.
THEOREM TypeCorrect == Spec => [](TypeOK /\ CycleInv)
PROOF
<1>1. TypeOK /\ CycleInv /\ [Next]_vars => (TypeOK /\ CycleInv)'
  BY TypeStep, CycleStepInv
<1> QED  BY InitShape, <1>1, PTL DEF Spec
-----------------------------------------------------------------------------
\* The loss lock is set before the pipeline is reached and read at its door.
LEMMA LossStep ==
    ASSUME TypeOK, LossLockStopsOrders, [Next]_vars
    PROVE  LossLockStopsOrders'
PROOF
<1> USE DEF lifeVars, safeVars, signalVars, limitVars, logVars, cycleVars,
             handlerVars, brokerVars
<1>1. CASE CycleTick
  BY <1>1 DEF LossLockStopsOrders, CycleTick, OrderPhases
<1>2. CASE CycleBalance
  BY <1>2 DEF LossLockStopsOrders, CycleBalance, OrderPhases
<1>3. CASE CycleLossCheck
  BY <1>3 DEF LossLockStopsOrders, CycleLossCheck, EndCycle, TradingEnabled, OrderPhases
<1>4. CASE CycleCancelList
  BY <1>4 DEF LossLockStopsOrders, CycleCancelList, OrderPhases
<1>5. CASE CycleCancelOrder
  BY <1>5 DEF LossLockStopsOrders, CycleCancelOrder, OrderPhases
<1>6. CASE CycleCancelDone
  BY <1>6 DEF LossLockStopsOrders, CycleCancelDone, EndCycle, TradingEnabled, OrderPhases
<1>7. CASE CycleCollect
  BY <1>7 DEF LossLockStopsOrders, CycleCollect, Continue, EndCycle, OrderPhases
<1>8. CASE CycleAborts
  BY <1>8 DEF LossLockStopsOrders, CycleAborts, EndCycle, OrderPhases
<1>9. CASE ExecReject
  BY <1>9 DEF LossLockStopsOrders, ExecReject, NextCandidate, Continue, EndCycle, OrderPhases
<1>10. CASE ExecAdmit
  BY <1>10 DEF LossLockStopsOrders, ExecAdmit, OrderPhases
<1>11. CASE ExecPriceGap
  BY <1>11 DEF LossLockStopsOrders, ExecPriceGap, NextCandidate, Continue, EndCycle, OrderPhases
<1>12. CASE ExecSubmit
  BY <1>12 DEF LossLockStopsOrders, ExecSubmit, OrderPhases
<1>13. CASE BrokerAccepts
  BY <1>13 DEF LossLockStopsOrders, BrokerAccepts, OrderPhases
<1>14. CASE BrokerRefuses
  BY <1>14 DEF LossLockStopsOrders, BrokerRefuses, OrderPhases
<1>15. CASE PlaceRaises
  BY <1>15 DEF LossLockStopsOrders, PlaceRaises, NextCandidate, Continue, EndCycle, OrderPhases
<1>16. CASE PlaceReturns
  BY <1>16 DEF LossLockStopsOrders, PlaceReturns, OrderPhases
<1>17. CASE LogOrder
  BY <1>17 DEF LossLockStopsOrders, LogOrder, OrderPhases
<1>18. CASE LogFill
  BY <1>18 DEF LossLockStopsOrders, LogFill, NextCandidate, Continue, EndCycle, OrderPhases
<1>19. CASE LogRaises
  BY <1>19 DEF LossLockStopsOrders, LogRaises, NextCandidate, Continue, EndCycle, OrderPhases
<1>20. CASE Start
  BY <1>20 DEF LossLockStopsOrders, Start, OrderPhases
<1>21. CASE Stop
  BY <1>21 DEF LossLockStopsOrders, Stop, EndCycle, OrderPhases
<1>22. CASE Crash
  BY <1>22 DEF LossLockStopsOrders, Crash, EndCycle, OrderPhases
<1>23. CASE \E level \in KillLevels : LocalKill(level) \/ RemoteKill(level)
  BY <1>23 DEF LossLockStopsOrders, LocalKill, RemoteKill, SetKillSwitch, OrderPhases
<1>24. CASE KillList
  BY <1>24 DEF LossLockStopsOrders, KillList, OrderPhases
<1>25. CASE KillCancelOrder
  BY <1>25 DEF LossLockStopsOrders, KillCancelOrder, OrderPhases
<1>26. CASE RemoteArm
  BY <1>26 DEF LossLockStopsOrders, RemoteArm, OrderPhases
<1>27. CASE Unlock
  BY <1>27 DEF LossLockStopsOrders, Unlock, OrderPhases
<1>28. CASE ManualRequest
  BY <1>28 DEF LossLockStopsOrders, ManualRequest, OrderPhases
<1>29. CASE ManualAccepted
  BY <1>29 DEF LossLockStopsOrders, ManualAccepted, OrderPhases
<1>30. CASE ManualFails
  BY <1>30 DEF LossLockStopsOrders, ManualFails, OrderPhases
<1>31. CASE Fill
  BY <1>31 DEF LossLockStopsOrders, Fill, OrderPhases
<1>32. CASE Midnight
  BY <1>32 DEF LossLockStopsOrders, Midnight, OrderPhases
<1>33. CASE UtcMidnight
  BY <1>33 DEF LossLockStopsOrders, UtcMidnight, OrderPhases
<1>34. CASE UNCHANGED vars  BY <1>34 DEF LossLockStopsOrders, OrderPhases, vars
<1> QED
  BY <1>1, <1>2, <1>3, <1>4, <1>5, <1>6, <1>7, <1>8, <1>9, <1>10, <1>11, <1>12,
     <1>13, <1>14, <1>15, <1>16, <1>17, <1>18, <1>19, <1>20, <1>21, <1>22, <1>23, <1>24,
     <1>25, <1>26, <1>27, <1>28, <1>29, <1>30, <1>31, <1>32, <1>33, <1>34
  DEF Next, CycleStep, Handler

\* The order past the gate when the switch leaves OFF is the only one to leak.
LEMMA KillStep ==
    ASSUME TypeOK, KillInv, [Next]_vars
    PROVE  KillInv'
PROOF
<1> USE DEF lifeVars, safeVars, signalVars, limitVars, logVars, cycleVars,
             handlerVars, brokerVars
<1>1. CASE CycleTick
  BY <1>1 DEF TypeOK, KillInv, CycleTick
<1>2. CASE CycleBalance
  BY <1>2 DEF TypeOK, KillInv, CycleBalance
<1>3. CASE CycleLossCheck
  BY <1>3 DEF TypeOK, KillInv, CycleLossCheck, EndCycle, TradingEnabled
<1>4. CASE CycleCancelList
  BY <1>4 DEF TypeOK, KillInv, CycleCancelList
<1>5. CASE CycleCancelOrder
  BY <1>5 DEF TypeOK, KillInv, CycleCancelOrder
<1>6. CASE CycleCancelDone
  BY <1>6 DEF TypeOK, KillInv, CycleCancelDone, EndCycle, TradingEnabled
<1>7. CASE CycleCollect
  BY <1>7 DEF TypeOK, KillInv, CycleCollect, Continue, EndCycle
<1>8. CASE CycleAborts
  BY <1>8 DEF TypeOK, KillInv, CycleAborts, EndCycle
<1>9. CASE ExecReject
  BY <1>9 DEF TypeOK, KillInv, ExecReject, NextCandidate, Continue, EndCycle
<1>10. CASE ExecAdmit
  BY <1>10 DEF TypeOK, KillInv, ExecAdmit, TradingEnabled
<1>11. CASE ExecPriceGap
  BY <1>11 DEF TypeOK, KillInv, ExecPriceGap, NextCandidate, Continue, EndCycle
<1>12. CASE ExecSubmit
  BY <1>12 DEF TypeOK, KillInv, ExecSubmit
<1>13. CASE BrokerAccepts
  BY <1>13 DEF TypeOK, KillInv, BrokerAccepts, Accept
<1>14. CASE BrokerRefuses
  BY <1>14 DEF TypeOK, KillInv, BrokerRefuses
<1>15. CASE PlaceRaises
  BY <1>15 DEF TypeOK, KillInv, PlaceRaises, NextCandidate, Continue, EndCycle
<1>16. CASE PlaceReturns
  BY <1>16 DEF TypeOK, KillInv, PlaceReturns
<1>17. CASE LogOrder
  BY <1>17 DEF TypeOK, KillInv, LogOrder
<1>18. CASE LogFill
  BY <1>18 DEF TypeOK, KillInv, LogFill, NextCandidate, Continue, EndCycle
<1>19. CASE LogRaises
  BY <1>19 DEF TypeOK, KillInv, LogRaises, NextCandidate, Continue, EndCycle
<1>20. CASE Start
  BY <1>20 DEF TypeOK, KillInv, Start
<1>21. CASE Stop
  BY <1>21 DEF TypeOK, KillInv, Stop, EndCycle, Abandon, Accept
<1>22. CASE Crash
  BY <1>22 DEF TypeOK, KillInv, Crash, EndCycle, Abandon, Accept
<1>23. CASE \E level \in KillLevels : LocalKill(level) \/ RemoteKill(level)
  BY <1>23 DEF TypeOK, KillInv, LocalKill, RemoteKill, SetKillSwitch
<1>24. CASE KillList
  BY <1>24 DEF TypeOK, KillInv, KillList
<1>25. CASE KillCancelOrder
  BY <1>25 DEF TypeOK, KillInv, KillCancelOrder
<1>26. CASE RemoteArm
  BY <1>26 DEF TypeOK, KillInv, RemoteArm, SetKillSwitch
<1>27. CASE Unlock
  BY <1>27 DEF TypeOK, KillInv, Unlock
<1>28. CASE ManualRequest
  BY <1>28 DEF TypeOK, KillInv, ManualRequest
<1>29. CASE ManualAccepted
  BY <1>29 DEF TypeOK, KillInv, ManualAccepted
<1>30. CASE ManualFails
  BY <1>30 DEF TypeOK, KillInv, ManualFails
<1>31. CASE Fill
  BY <1>31 DEF TypeOK, KillInv, Fill
<1>32. CASE Midnight
  BY <1>32 DEF TypeOK, KillInv, Midnight
<1>33. CASE UtcMidnight
  BY <1>33 DEF TypeOK, KillInv, UtcMidnight
<1>34. CASE UNCHANGED vars  BY <1>34 DEF TypeOK, KillInv, vars
<1> QED
  BY <1>1, <1>2, <1>3, <1>4, <1>5, <1>6, <1>7, <1>8, <1>9, <1>10, <1>11, <1>12,
     <1>13, <1>14, <1>15, <1>16, <1>17, <1>18, <1>19, <1>20, <1>21, <1>22, <1>23, <1>24,
     <1>25, <1>26, <1>27, <1>28, <1>29, <1>30, <1>31, <1>32, <1>33, <1>34
  DEF Next, CycleStep, Handler

LEMMA SpeedRange == MaxPerMinute \in Nat /\ 0 < MaxPerMinute
BY EngineAssumption

\* The count is raised by the one order that was let in at a count below the
\* limit, since only one candidate is in the pipeline.
LEMMA SpeedStep ==
    ASSUME TypeOK, SpeedInv, [Next]_vars
    PROVE  SpeedInv'
PROOF
<1> USE DEF lifeVars, safeVars, signalVars, limitVars, logVars, cycleVars,
             handlerVars, brokerVars
<1>1. CASE CycleTick
  BY <1>1 DEF TypeOK, SpeedInv, CycleTick
<1>2. CASE CycleBalance
  BY <1>2 DEF TypeOK, SpeedInv, CycleBalance
<1>3. CASE CycleLossCheck
  BY <1>3 DEF TypeOK, SpeedInv, CycleLossCheck, EndCycle, TradingEnabled
<1>4. CASE CycleCancelList
  BY <1>4 DEF TypeOK, SpeedInv, CycleCancelList
<1>5. CASE CycleCancelOrder
  BY <1>5 DEF TypeOK, SpeedInv, CycleCancelOrder
<1>6. CASE CycleCancelDone
  BY <1>6 DEF TypeOK, SpeedInv, CycleCancelDone, EndCycle, TradingEnabled
<1>7. CASE CycleCollect
  BY <1>7 DEF TypeOK, SpeedInv, CycleCollect, Continue, EndCycle
<1>8. CASE CycleAborts
  BY <1>8 DEF TypeOK, SpeedInv, CycleAborts, EndCycle
<1>9. CASE ExecReject
  BY <1>9 DEF TypeOK, SpeedInv, ExecReject, NextCandidate, Continue, EndCycle
<1>10. CASE ExecAdmit
  BY <1>10, SpeedRange DEF TypeOK, SpeedInv, ExecAdmit, WithinSpeed
<1>11. CASE ExecPriceGap
  BY <1>11 DEF TypeOK, SpeedInv, ExecPriceGap, NextCandidate, Continue, EndCycle
<1>12. CASE ExecSubmit
  BY <1>12 DEF TypeOK, SpeedInv, ExecSubmit
<1>13. CASE BrokerAccepts
  BY <1>13 DEF TypeOK, SpeedInv, BrokerAccepts
<1>14. CASE BrokerRefuses
  BY <1>14 DEF TypeOK, SpeedInv, BrokerRefuses
<1>15. CASE PlaceRaises
  BY <1>15 DEF TypeOK, SpeedInv, PlaceRaises, NextCandidate, Continue, EndCycle
<1>16. CASE PlaceReturns
  BY <1>16, SpeedRange DEF TypeOK, SpeedInv, PlaceReturns
<1>17. CASE LogOrder
  BY <1>17 DEF TypeOK, SpeedInv, LogOrder
<1>18. CASE LogFill
  BY <1>18 DEF TypeOK, SpeedInv, LogFill, NextCandidate, Continue, EndCycle
<1>19. CASE LogRaises
  BY <1>19 DEF TypeOK, SpeedInv, LogRaises, NextCandidate, Continue, EndCycle
<1>20. CASE Start
  BY <1>20, SpeedRange DEF TypeOK, SpeedInv, Start
<1>21. CASE Stop
  BY <1>21 DEF TypeOK, SpeedInv, Stop, EndCycle
<1>22. CASE Crash
  BY <1>22 DEF TypeOK, SpeedInv, Crash, EndCycle
<1>23. CASE \E level \in KillLevels : LocalKill(level) \/ RemoteKill(level)
  BY <1>23 DEF TypeOK, SpeedInv, LocalKill, RemoteKill, SetKillSwitch
<1>24. CASE KillList
  BY <1>24 DEF TypeOK, SpeedInv, KillList
<1>25. CASE KillCancelOrder
  BY <1>25 DEF TypeOK, SpeedInv, KillCancelOrder
<1>26. CASE RemoteArm
  BY <1>26 DEF TypeOK, SpeedInv, RemoteArm
<1>27. CASE Unlock
  BY <1>27 DEF TypeOK, SpeedInv, Unlock
<1>28. CASE ManualRequest
  BY <1>28 DEF TypeOK, SpeedInv, ManualRequest
<1>29. CASE ManualAccepted
  BY <1>29 DEF TypeOK, SpeedInv, ManualAccepted
<1>30. CASE ManualFails
  BY <1>30 DEF TypeOK, SpeedInv, ManualFails
<1>31. CASE Fill
  BY <1>31 DEF TypeOK, SpeedInv, Fill
<1>32. CASE Midnight
  BY <1>32 DEF TypeOK, SpeedInv, Midnight
<1>33. CASE UtcMidnight
  BY <1>33 DEF TypeOK, SpeedInv, UtcMidnight
<1>34. CASE UNCHANGED vars  BY <1>34 DEF TypeOK, SpeedInv, vars
<1> QED
  BY <1>1, <1>2, <1>3, <1>4, <1>5, <1>6, <1>7, <1>8, <1>9, <1>10, <1>11, <1>12,
     <1>13, <1>14, <1>15, <1>16, <1>17, <1>18, <1>19, <1>20, <1>21, <1>22, <1>23, <1>24,
     <1>25, <1>26, <1>27, <1>28, <1>29, <1>30, <1>31, <1>32, <1>33, <1>34
  DEF Next, CycleStep, Handler

\* The state of a signal follows the position of its candidate in the pipeline.
LEMMA SignalStep ==
    ASSUME TypeOK, CycleInv, SignalInv, [Next]_vars
    PROVE  SignalInv'
PROOF
<1> USE DEF lifeVars, safeVars, signalVars, limitVars, logVars, cycleVars,
             handlerVars, brokerVars
<1>1. CASE CycleTick
  BY <1>1 DEF TypeOK, CycleInv, SignalInv, CycleTick, InPipeline, TriggeredOnlyInFlight
<1>2. CASE CycleBalance
  BY <1>2 DEF TypeOK, CycleInv, SignalInv, CycleBalance, InPipeline, TriggeredOnlyInFlight
<1>3. CASE CycleLossCheck
  BY <1>3 DEF TypeOK, CycleInv, SignalInv, CycleLossCheck, EndCycle, InPipeline, TriggeredOnlyInFlight
<1>4. CASE CycleCancelList
  BY <1>4 DEF TypeOK, CycleInv, SignalInv, CycleCancelList, InPipeline, TriggeredOnlyInFlight
<1>5. CASE CycleCancelOrder
  BY <1>5 DEF TypeOK, CycleInv, SignalInv, CycleCancelOrder, InPipeline, TriggeredOnlyInFlight
<1>6. CASE CycleCancelDone
  BY <1>6 DEF TypeOK, CycleInv, SignalInv, CycleCancelDone, EndCycle, InPipeline, TriggeredOnlyInFlight
<1>7. CASE CycleCollect
  BY <1>7 DEF TypeOK, CycleInv, SignalInv, CycleCollect, Continue, EndCycle, InPipeline, TriggeredOnlyInFlight
<1>8. CASE CycleAborts
  BY <1>8 DEF TypeOK, CycleInv, SignalInv, CycleAborts, EndCycle, InPipeline, TriggeredOnlyInFlight
<1>9. CASE ExecReject
  BY <1>9 DEF TypeOK, CycleInv, SignalInv, ExecReject, NextCandidate, Continue, EndCycle, InPipeline, TriggeredOnlyInFlight, DailyReset, SignalsToday
<1>10. CASE ExecAdmit
  BY <1>10, SignalFields DEF TypeOK, CycleInv, SignalInv, ExecAdmit, InPipeline, TriggeredOnlyInFlight, DailyReset, CanTrigger, SignalsToday
<1>11. CASE ExecPriceGap
  BY <1>11 DEF TypeOK, CycleInv, SignalInv, ExecPriceGap, NextCandidate, Continue, EndCycle, InPipeline, TriggeredOnlyInFlight
<1>12. CASE ExecSubmit
  BY <1>12, CurrentCandidate DEF TypeOK, CycleInv, SignalInv, ExecSubmit, InPipeline, TriggeredOnlyInFlight, Mark
<1>13. CASE BrokerAccepts
  BY <1>13 DEF TypeOK, CycleInv, SignalInv, BrokerAccepts, InPipeline, TriggeredOnlyInFlight
<1>14. CASE BrokerRefuses
  BY <1>14 DEF TypeOK, CycleInv, SignalInv, BrokerRefuses, InPipeline, TriggeredOnlyInFlight
<1>15. CASE PlaceRaises
  BY <1>15, CurrentCandidate DEF TypeOK, CycleInv, SignalInv, PlaceRaises, NextCandidate, Continue, EndCycle, InPipeline, TriggeredOnlyInFlight, Mark
<1>16. CASE PlaceReturns
  BY <1>16, CurrentCandidate DEF TypeOK, CycleInv, SignalInv, PlaceReturns, InPipeline, TriggeredOnlyInFlight, Mark
<1>17. CASE LogOrder
  BY <1>17 DEF TypeOK, CycleInv, SignalInv, LogOrder, InPipeline, TriggeredOnlyInFlight
<1>18. CASE LogFill
  BY <1>18 DEF TypeOK, CycleInv, SignalInv, LogFill, NextCandidate, Continue, EndCycle, InPipeline, TriggeredOnlyInFlight
<1>19. CASE LogRaises
  BY <1>19, CurrentCandidate DEF TypeOK, CycleInv, SignalInv, LogRaises, NextCandidate, Continue, EndCycle, InPipeline, TriggeredOnlyInFlight, Mark
<1>20. CASE Start
  BY <1>20 DEF TypeOK, CycleInv, SignalInv, Start, InPipeline, TriggeredOnlyInFlight
<1>21. CASE Stop
  BY <1>21 DEF TypeOK, CycleInv, SignalInv, Stop, EndCycle, InPipeline, TriggeredOnlyInFlight
<1>22. CASE Crash
  BY <1>22 DEF TypeOK, CycleInv, SignalInv, Crash, EndCycle, InPipeline, TriggeredOnlyInFlight
<1>23. CASE \E level \in KillLevels : LocalKill(level) \/ RemoteKill(level)
  BY <1>23 DEF TypeOK, CycleInv, SignalInv, LocalKill, RemoteKill, SetKillSwitch, InPipeline, TriggeredOnlyInFlight
<1>24. CASE KillList
  BY <1>24 DEF TypeOK, CycleInv, SignalInv, KillList, InPipeline, TriggeredOnlyInFlight
<1>25. CASE KillCancelOrder
  BY <1>25 DEF TypeOK, CycleInv, SignalInv, KillCancelOrder, InPipeline, TriggeredOnlyInFlight
<1>26. CASE RemoteArm
  BY <1>26 DEF TypeOK, CycleInv, SignalInv, RemoteArm, InPipeline, TriggeredOnlyInFlight
<1>27. CASE Unlock
  BY <1>27 DEF TypeOK, CycleInv, SignalInv, Unlock, InPipeline, TriggeredOnlyInFlight
<1>28. CASE ManualRequest
  BY <1>28 DEF TypeOK, CycleInv, SignalInv, ManualRequest, InPipeline, TriggeredOnlyInFlight
<1>29. CASE ManualAccepted
  BY <1>29 DEF TypeOK, CycleInv, SignalInv, ManualAccepted, InPipeline, TriggeredOnlyInFlight
<1>30. CASE ManualFails
  BY <1>30 DEF TypeOK, CycleInv, SignalInv, ManualFails, InPipeline, TriggeredOnlyInFlight
<1>31. CASE Fill
  BY <1>31 DEF TypeOK, CycleInv, SignalInv, Fill, InPipeline, TriggeredOnlyInFlight
<1>32. CASE Midnight
  BY <1>32 DEF TypeOK, CycleInv, SignalInv, Midnight, InPipeline, TriggeredOnlyInFlight
<1>33. CASE UtcMidnight
  BY <1>33 DEF TypeOK, CycleInv, SignalInv, UtcMidnight, InPipeline, TriggeredOnlyInFlight
<1>34. CASE UNCHANGED vars  BY <1>34 DEF TypeOK, CycleInv, SignalInv, InPipeline,
             TriggeredOnlyInFlight, vars
<1> QED
  BY <1>1, <1>2, <1>3, <1>4, <1>5, <1>6, <1>7, <1>8, <1>9, <1>10, <1>11, <1>12,
     <1>13, <1>14, <1>15, <1>16, <1>17, <1>18, <1>19, <1>20, <1>21, <1>22, <1>23, <1>24,
     <1>25, <1>26, <1>27, <1>28, <1>29, <1>30, <1>31, <1>32, <1>33, <1>34
  DEF Next, CycleStep, Handler

(* How a step changes the broker's book.                                   *)

\* A new order of the current candidate.
LEMMA NewOrder ==
    ASSUME TypeOK, CycleInv, pc = "placing", NEW o \in OrderIds, orders[o] = None,
           NEW state \in OrderStates, NEW outcome \in OrderOutcomes,
           orders' = [orders EXCEPT ![o] = EngineOrder(state, outcome)]
    PROVE  /\ \A p \in OrderIds \ {o} : orders'[p] = orders[p]
           /\ orders'[o] # None /\ orders'[o].rule # 0
           /\ orders'[o].rule = cur.rule /\ orders'[o].side = cur.side
           /\ orders'[o].day = today /\ orders'[o].epoch = epoch
           /\ orders'[o].outcome = outcome
PROOF
<1>1. cur \in Signals /\ cur.rule \in Rules
  BY CurrentCandidate DEF InPipeline
<1>2. cur.rule # 0  BY <1>1 DEF Rules
<1>3. EngineOrder(state, outcome) # None
  BY <1>1, SignalFields, EngineOrderType, NoneAssumption
<1>4. orders'[o] = EngineOrder(state, outcome)  BY DEF TypeOK
<1>5. \A p \in OrderIds \ {o} : orders'[p] = orders[p]  BY DEF TypeOK
<1> QED  BY <1>2, <1>3, <1>4, <1>5 DEF EngineOrder

\* The attempt under way gets its outcome; nothing else changes.
Concluded(outcome) ==
    \A p \in OrderIds :
        /\ orders'[p] = None <=> orders[p] = None
        /\ orders[p] # None =>
              /\ orders'[p].rule = orders[p].rule
              /\ orders'[p].side = orders[p].side
              /\ orders'[p].day = orders[p].day
              /\ orders'[p].epoch = orders[p].epoch
              /\ orders'[p].outcome =
                    IF p = oid THEN outcome ELSE orders[p].outcome

LEMMA ConcludeKept ==
    ASSUME TypeOK, CycleInv, NEW outcome \in OrderOutcomes, Conclude(outcome)
    PROVE  Concluded(outcome)
PROOF
<1>1. CASE oid = None
  <2>1. UNCHANGED orders /\ \A p \in OrderIds : p # oid
    BY <1>1, NoneAssumption DEF Conclude
  <2> QED  BY <2>1 DEF Concluded
<1>2. CASE oid # None
  <2>1. oid \in OrderIds /\ orders[oid] \in Order
    BY <1>2 DEF TypeOK, CycleInv
  <2>2. [orders[oid] EXCEPT !.outcome = outcome] \in Order  BY <2>1 DEF Order
  <2>3. orders' = [orders EXCEPT ![oid] = [orders[oid] EXCEPT !.outcome = outcome]]
    BY <1>2 DEF Conclude
  <2>4. orders'[oid] = [orders[oid] EXCEPT !.outcome = outcome]
    BY <2>1, <2>3 DEF TypeOK
  <2>5. /\ orders'[oid] # None /\ orders[oid] # None
        /\ orders'[oid].rule = orders[oid].rule
        /\ orders'[oid].side = orders[oid].side
        /\ orders'[oid].day = orders[oid].day
        /\ orders'[oid].epoch = orders[oid].epoch
        /\ orders'[oid].outcome = outcome
    BY <2>1, <2>2, <2>4, NoneAssumption DEF Order
  <2>6. \A p \in OrderIds \ {oid} : orders'[p] = orders[p]
    BY <2>3 DEF TypeOK
  <2> QED  BY <2>5, <2>6 DEF Concluded
<1> QED  BY <1>1, <1>2

\* At the end of a cycle or a candidate no order is on its way.
LEMMA NothingOnItsWay ==
    ASSUME NEW rest, NextCandidate(rest) \/ Continue(rest) \/ EndCycle
    PROVE  oid' = None /\ cur' = None
BY DEF NextCandidate, Continue, EndCycle

\* A step that makes no attempt and concludes none, and takes no signal out of
\* FILLED while it is still the same day.
FrameStep ==
    /\ SameTerms
    /\ UNCHANGED <<engine, epoch, oid>>
    /\ today' \in Nat /\ today <= today'
    /\ oid # None => UNCHANGED <<cur, today>>
    /\ signalDay = today /\ today' = today =>
          /\ signalDay' = today'
          /\ \A x \in Rules \X Sides : signal[x] = "FILLED" => signal'[x] = "FILLED"

LEMMA OrderFrame ==
    ASSUME TypeOK, CycleInv, OrderInv, FrameStep
    PROVE  OrderInv'
PROOF
<1>1. oid # None => oid \in OrderIds /\ orders[oid] # None
  BY DEF TypeOK, CycleInv
<1>2. oid' # None =>
         /\ orders'[oid'].rule = cur'.rule /\ orders'[oid'].side = cur'.side
         /\ orders'[oid'].day = today' /\ orders'[oid'].epoch = epoch'
  BY <1>1 DEF FrameStep, OrderInv, SameTerms, SameTermsFor
<1>3. ASSUME NEW o \in EngineOrders'
      PROVE  orders'[o].day <= today' /\ AttemptInv(o)'
  <2>1. /\ o \in EngineOrders /\ o \in OrderIds
        /\ orders'[o].rule = orders[o].rule /\ orders'[o].side = orders[o].side
        /\ orders'[o].day = orders[o].day /\ orders'[o].epoch = orders[o].epoch
        /\ orders'[o].outcome = orders[o].outcome
    BY DEF FrameStep, SameTerms, SameTermsFor, EngineOrders
  <2>2. orders[o] \in Order  BY <2>1 DEF TypeOK, EngineOrders
  <2>3. /\ orders[o].day \in Nat /\ today \in Nat /\ today' \in Nat
        /\ <<orders[o].rule, orders[o].side>> \in Rules \X Sides
    BY <2>1, <2>2 DEF FrameStep, Order, EngineOrders, Rules, TypeOK
  <2> QED  BY <2>1, <2>3 DEF FrameStep, OrderInv, AttemptInv
<1> QED  BY <1>2, <1>3 DEF OrderInv

\* When the engine goes, so does every attempt.
LEMMA AbandonBook ==
    ASSUME TypeOK, CycleInv, OrderInv, Abandon, NEW o \in EngineOrders'
    PROVE  /\ orders'[o].epoch <= epoch /\ orders'[o].day <= today
           /\ orders'[o].outcome \notin {"manual", "pending"}
PROOF
<1>1. CASE pc = "placing" /\ \E p \in OrderIds : Accept(p, "lost")
  <2>1. PICK p \in OrderIds : orders[p] = None /\
                orders' = [orders EXCEPT ![p] = EngineOrder("open", "lost")]
    BY <1>1 DEF Accept
  <2>2. /\ \A q \in OrderIds \ {p} : orders'[q] = orders[q]
        /\ orders'[p].day = today /\ orders'[p].epoch = epoch
        /\ orders'[p].outcome = "lost"
    BY <1>1, <2>1, NewOrder DEF OrderStates, OrderOutcomes
  <2>3. CASE o = p  BY <2>2, <2>3 DEF TypeOK
  <2>4. CASE o # p
    <3>1. o \in EngineOrders /\ orders'[o] = orders[o] /\ o # oid
      BY <1>1, <2>2, <2>4, NoneAssumption DEF EngineOrders, CycleInv
    <3> QED  BY <3>1 DEF OrderInv, AttemptInv
  <2> QED  BY <2>3, <2>4
<1>2. CASE Conclude("lost")
  <2>1. Concluded("lost")  BY <1>2, ConcludeKept DEF OrderOutcomes
  <2>2. /\ o \in EngineOrders
        /\ orders'[o].day = orders[o].day /\ orders'[o].epoch = orders[o].epoch
        /\ orders'[o].outcome = IF o = oid THEN "lost" ELSE orders[o].outcome
    BY <2>1 DEF Concluded, EngineOrders
  <2> QED  BY <2>2 DEF OrderInv, AttemptInv
<1> QED  BY <1>1, <1>2 DEF Abandon

\* While an attempt is under way no other order of this engine and day shares
\* its rule and side, unless that one failed.
LEMMA OnlyAttempt ==
    ASSUME TypeOK, CycleInv, OrderInv, OneOrderPerLife, oid # None,
           NEW o \in EngineOrders, o # oid, orders[o].outcome # "failed",
           orders[o].day = today, orders[o].epoch = epoch
    PROVE  <<orders[o].rule, orders[o].side>> # <<cur.rule, cur.side>>
PROOF
<1>1. oid \in OrderIds /\ orders[oid] # None  BY DEF TypeOK, CycleInv
<1>2. cur.rule # 0  BY CurrentCandidate DEF CycleInv, InPipeline, Rules
<1>3. oid \in EngineOrders  BY <1>1, <1>2 DEF OrderInv, EngineOrders
<1>4. orders[oid].outcome = "pending"  BY <1>3 DEF OrderInv, AttemptInv
<1> QED  BY <1>3, <1>4 DEF OneOrderPerLife, SameTrigger, OrderInv

\* The broker's book keeps agreeing with the engine's view of its attempts.
LEMMA OrderStep ==
    ASSUME TypeOK, CycleInv, SignalInv, OrderInv, OneOrderPerLife, [Next]_vars
    PROVE  OrderInv'
PROOF
<1> USE DEF lifeVars, safeVars, signalVars, limitVars, logVars, cycleVars,
             handlerVars, brokerVars
<1>1. CASE CycleTick
  <2>1. FrameStep
    BY <1>1 DEF FrameStep, SameTerms, SameTermsFor, TypeOK, CycleTick
  <2> QED  BY <2>1, OrderFrame
<1>2. CASE CycleBalance
  <2>1. FrameStep
    BY <1>2 DEF FrameStep, SameTerms, SameTermsFor, TypeOK, CycleBalance
  <2> QED  BY <2>1, OrderFrame
<1>3. CASE CycleLossCheck
  <2>1. FrameStep
    BY <1>3 DEF FrameStep, SameTerms, SameTermsFor, TypeOK, CycleLossCheck, EndCycle, CycleInv
  <2> QED  BY <2>1, OrderFrame
<1>4. CASE CycleCancelList
  <2>1. FrameStep
    BY <1>4 DEF FrameStep, SameTerms, SameTermsFor, TypeOK, CycleCancelList
  <2> QED  BY <2>1, OrderFrame
<1>5. CASE CycleCancelOrder
  <2>1. FrameStep
    BY <1>5, CancelKept DEF FrameStep, TypeOK, CycleCancelOrder
  <2> QED  BY <2>1, OrderFrame
<1>6. CASE CycleCancelDone
  <2>1. FrameStep
    BY <1>6 DEF FrameStep, SameTerms, SameTermsFor, TypeOK, CycleCancelDone, EndCycle, CycleInv
  <2> QED  BY <2>1, OrderFrame
<1>7. CASE CycleCollect
  <2>1. FrameStep
    BY <1>7 DEF FrameStep, SameTerms, SameTermsFor, TypeOK, CycleCollect, Continue, EndCycle, CycleInv
  <2> QED  BY <2>1, OrderFrame
<1>8. CASE CycleAborts
  <2>1. FrameStep
    BY <1>8 DEF FrameStep, SameTerms, SameTermsFor, TypeOK, CycleAborts, EndCycle, CycleInv
  <2> QED  BY <2>1, OrderFrame
<1>9. CASE ExecReject
  <2>1. FrameStep
    BY <1>9, NothingOnItsWay DEF FrameStep, SameTerms, SameTermsFor, TypeOK, ExecReject, DailyReset, SignalsToday, CycleInv
  <2> QED  BY <2>1, OrderFrame
<1>10. CASE ExecAdmit
  <2>1. FrameStep
    BY <1>10 DEF FrameStep, SameTerms, SameTermsFor, TypeOK, ExecAdmit, DailyReset, SignalsToday, CycleInv
  <2> QED  BY <2>1, OrderFrame
<1>11. CASE ExecPriceGap
  <2>1. FrameStep
    BY <1>11, NothingOnItsWay DEF FrameStep, SameTerms, SameTermsFor, TypeOK, ExecPriceGap, CycleInv
  <2> QED  BY <2>1, OrderFrame
<1>12. CASE ExecSubmit
  <2>1. FrameStep
    BY <1>12, CurrentCandidate DEF FrameStep, SameTerms, SameTermsFor, TypeOK, ExecSubmit, Mark, InPipeline, SignalInv
  <2> QED  BY <2>1, OrderFrame
<1>13. CASE BrokerAccepts
  <2>1. PICK o \in OrderIds :
           /\ orders[o] = None /\ oid' = o
           /\ orders' = [orders EXCEPT ![o] = EngineOrder("open", "pending")]
    BY <1>13 DEF BrokerAccepts, Accept
  <2>2. /\ \A p \in OrderIds \ {o} : orders'[p] = orders[p]
        /\ orders'[o] # None /\ orders'[o].rule # 0
        /\ orders'[o].rule = cur.rule /\ orders'[o].side = cur.side
        /\ orders'[o].day = today /\ orders'[o].epoch = epoch
        /\ orders'[o].outcome = "pending"
    BY <1>13, <2>1, NewOrder DEF BrokerAccepts, OrderStates, OrderOutcomes
  <2>3. oid = None  BY <1>13 DEF BrokerAccepts, CycleInv
  <2>4. EngineOrders' = EngineOrders \cup {o}
    BY <2>1, <2>2 DEF EngineOrders
  <2>5. AttemptInv(o)'
    BY <1>13, <2>1, <2>2 DEF AttemptInv, BrokerAccepts, TypeOK
  <2>6. ASSUME NEW p \in EngineOrders PROVE orders'[p].day <= today /\ AttemptInv(p)'
    <3>1. p # o /\ p \in OrderIds  BY <2>1 DEF EngineOrders
    <3>2. orders'[p] = orders[p]  BY <2>2, <3>1
    <3>3. orders[p].outcome # "pending"
      BY <2>3, <3>1, NoneAssumption DEF OrderInv, AttemptInv
    <3> QED  BY <1>13, <2>1, <3>1, <3>2, <3>3 DEF OrderInv, AttemptInv, BrokerAccepts
  <2> QED  BY <1>13, <2>1, <2>2, <2>4, <2>5, <2>6 DEF OrderInv, BrokerAccepts, TypeOK
<1>14. CASE BrokerRefuses
  <2>1. PICK o \in OrderIds :
           /\ orders[o] = None /\ oid' = o
           /\ orders' = [orders EXCEPT ![o] = EngineOrder("refused", "pending")]
    BY <1>14 DEF BrokerRefuses
  <2>2. /\ \A p \in OrderIds \ {o} : orders'[p] = orders[p]
        /\ orders'[o] # None /\ orders'[o].rule # 0
        /\ orders'[o].rule = cur.rule /\ orders'[o].side = cur.side
        /\ orders'[o].day = today /\ orders'[o].epoch = epoch
        /\ orders'[o].outcome = "pending"
    BY <1>14, <2>1, NewOrder DEF BrokerRefuses, OrderStates, OrderOutcomes
  <2>3. oid = None  BY <1>14 DEF BrokerRefuses, CycleInv
  <2>4. EngineOrders' = EngineOrders \cup {o}
    BY <2>1, <2>2 DEF EngineOrders
  <2>5. AttemptInv(o)'
    BY <1>14, <2>1, <2>2 DEF AttemptInv, BrokerRefuses, TypeOK
  <2>6. ASSUME NEW p \in EngineOrders PROVE orders'[p].day <= today /\ AttemptInv(p)'
    <3>1. p # o /\ p \in OrderIds  BY <2>1 DEF EngineOrders
    <3>2. orders'[p] = orders[p]  BY <2>2, <3>1
    <3>3. orders[p].outcome # "pending"
      BY <2>3, <3>1, NoneAssumption DEF OrderInv, AttemptInv
    <3> QED  BY <1>14, <2>1, <3>1, <3>2, <3>3 DEF OrderInv, AttemptInv, BrokerRefuses
  <2> QED  BY <1>14, <2>1, <2>2, <2>4, <2>5, <2>6 DEF OrderInv, BrokerRefuses, TypeOK
<1>15. CASE PlaceRaises
  <2>1. Concluded("failed")  BY <1>15, ConcludeKept DEF PlaceRaises, OrderOutcomes
  <2>2. oid' = None  BY <1>15, NothingOnItsWay DEF PlaceRaises
  <2>3. /\ <<cur.rule, cur.side>> \in Rules \X Sides
        /\ signal' = [signal EXCEPT ![<<cur.rule, cur.side>>] = "IDLE"]
    BY <1>15, CurrentCandidate DEF PlaceRaises, Mark, InPipeline
  <2>4. SUFFICES ASSUME NEW o \in EngineOrders'
        PROVE  orders'[o].day <= today /\ AttemptInv(o)'
    BY <1>15, <2>2 DEF OrderInv, PlaceRaises
  <2>5. /\ o \in EngineOrders /\ o \in OrderIds
        /\ orders'[o].rule = orders[o].rule /\ orders'[o].side = orders[o].side
        /\ orders'[o].day = orders[o].day /\ orders'[o].epoch = orders[o].epoch
        /\ orders'[o].outcome = IF o = oid THEN "failed" ELSE orders[o].outcome
    BY <2>1 DEF Concluded, EngineOrders
  <2>6. ASSUME o # oid, orders[o].outcome = "success", orders[o].day = today,
               orders[o].epoch = epoch, engine = "running"
        PROVE  signal'[<<orders[o].rule, orders[o].side>>] = "FILLED"
    <3>1. signal[<<orders[o].rule, orders[o].side>>] = "FILLED"
      BY <2>5, <2>6 DEF OrderInv, AttemptInv
    <3>2. signal[<<cur.rule, cur.side>>] = "TRIGGERED"
      BY <1>15 DEF PlaceRaises, SignalInv, InPipeline
    <3> QED  BY <2>3, <3>1, <3>2 DEF TypeOK
  <2> QED
    BY <1>15, <2>2, <2>5, <2>6, NoneAssumption DEF OrderInv, AttemptInv, PlaceRaises, Mark
<1>16. CASE PlaceReturns
  <2>1. FrameStep
    BY <1>16, CurrentCandidate DEF FrameStep, SameTerms, SameTermsFor, TypeOK, PlaceReturns, Mark, InPipeline
  <2> QED  BY <2>1, OrderFrame
<1>17. CASE LogOrder
  <2>1. FrameStep
    BY <1>17 DEF FrameStep, SameTerms, SameTermsFor, TypeOK, LogOrder
  <2> QED  BY <2>1, OrderFrame
<1>18. CASE LogFill
  <2>1. Concluded("success")  BY <1>18, ConcludeKept DEF LogFill, OrderOutcomes
  <2>2. oid' = None  BY <1>18, NothingOnItsWay DEF LogFill
  <2>3. SUFFICES ASSUME NEW o \in EngineOrders'
        PROVE  orders'[o].day <= today /\ AttemptInv(o)'
    BY <1>18, <2>2 DEF OrderInv, LogFill
  <2>4. /\ o \in EngineOrders /\ o \in OrderIds
        /\ orders'[o].rule = orders[o].rule /\ orders'[o].side = orders[o].side
        /\ orders'[o].day = orders[o].day /\ orders'[o].epoch = orders[o].epoch
        /\ orders'[o].outcome = IF o = oid THEN "success" ELSE orders[o].outcome
    BY <2>1 DEF Concluded, EngineOrders
  <2>5. CASE o # oid
    BY <1>18, <2>2, <2>4, <2>5, NoneAssumption DEF OrderInv, AttemptInv, LogFill
  <2>6. CASE o = oid
    <3>1. /\ orders[oid].rule = cur.rule /\ orders[oid].side = cur.side
          /\ orders[oid].epoch = epoch /\ orders[oid].day <= today
      BY <2>4, <2>6, NoneAssumption DEF OrderInv
    <3>2. signalDay = today /\ signal[<<cur.rule, cur.side>>] = "FILLED"
      BY <1>18 DEF LogFill, SignalInv, InPipeline
    <3> QED
      BY <1>18, <2>2, <2>4, <2>6, <3>1, <3>2, NoneAssumption
      DEF AttemptInv, LogFill, TypeOK
  <2> QED  BY <2>5, <2>6
<1>19. CASE LogRaises
  <2>1. Concluded("failed")  BY <1>19, ConcludeKept DEF LogRaises, OrderOutcomes
  <2>2. oid' = None  BY <1>19, NothingOnItsWay DEF LogRaises
  <2>3. /\ <<cur.rule, cur.side>> \in Rules \X Sides
        /\ signal' = [signal EXCEPT ![<<cur.rule, cur.side>>] = "IDLE"]
    BY <1>19, CurrentCandidate DEF LogRaises, Mark, InPipeline
  <2>4. SUFFICES ASSUME NEW o \in EngineOrders'
        PROVE  orders'[o].day <= today /\ AttemptInv(o)'
    BY <1>19, <2>2 DEF OrderInv, LogRaises
  <2>5. /\ o \in EngineOrders /\ o \in OrderIds
        /\ orders'[o].rule = orders[o].rule /\ orders'[o].side = orders[o].side
        /\ orders'[o].day = orders[o].day /\ orders'[o].epoch = orders[o].epoch
        /\ orders'[o].outcome = IF o = oid THEN "failed" ELSE orders[o].outcome
    BY <2>1 DEF Concluded, EngineOrders
  <2>6. ASSUME o # oid, orders[o].outcome = "success", orders[o].day = today,
               orders[o].epoch = epoch, engine = "running"
        PROVE  signal'[<<orders[o].rule, orders[o].side>>] = "FILLED"
    <3>1. signal[<<orders[o].rule, orders[o].side>>] = "FILLED"
      BY <2>5, <2>6 DEF OrderInv, AttemptInv
    <3>2. <<orders[o].rule, orders[o].side>> # <<cur.rule, cur.side>>
      BY <1>19, <2>5, <2>6, OnlyAttempt DEF LogRaises, CycleInv
    <3> QED  BY <2>3, <3>1, <3>2 DEF TypeOK
  <2> QED
    BY <1>19, <2>2, <2>5, <2>6, NoneAssumption DEF OrderInv, AttemptInv, LogRaises, Mark
<1>20. CASE Start
  <2>1. /\ orders' = orders /\ today' = today /\ oid' = oid
        /\ epoch' = epoch + 1 /\ engine = "none"
    BY <1>20 DEF Start
  <2>2. oid = None  BY <2>1 DEF CycleInv
  <2>3. SUFFICES ASSUME NEW o \in EngineOrders
        PROVE  orders[o].day <= today /\ AttemptInv(o)'
    BY <2>1, <2>2 DEF OrderInv, EngineOrders
  <2>4. orders[o].epoch \in Nat /\ epoch \in Nat
    BY DEF TypeOK, EngineOrders, Order
  <2>5. orders[o].epoch < epoch'  BY <2>1, <2>4 DEF OrderInv, AttemptInv
  <2> QED  BY <2>1, <2>4, <2>5 DEF OrderInv, AttemptInv
<1>21. CASE Stop
  <2>1. ASSUME NEW o \in EngineOrders'
        PROVE  /\ orders'[o].epoch <= epoch /\ orders'[o].day <= today
               /\ orders'[o].outcome \notin {"manual", "pending"}
    BY <1>21, <2>1, AbandonBook DEF Stop
  <2>2. oid' = None  BY <1>21 DEF Stop, EndCycle
  <2> QED
    BY <1>21, <2>1, <2>2, NoneAssumption DEF OrderInv, AttemptInv, EngineOrders, Stop
<1>22. CASE Crash
  <2>1. ASSUME NEW o \in EngineOrders'
        PROVE  /\ orders'[o].epoch <= epoch /\ orders'[o].day <= today
               /\ orders'[o].outcome \notin {"manual", "pending"}
    BY <1>22, <2>1, AbandonBook DEF Crash
  <2>2. oid' = None  BY <1>22 DEF Crash, EndCycle
  <2> QED
    BY <1>22, <2>1, <2>2, NoneAssumption DEF OrderInv, AttemptInv, EngineOrders, Crash
<1>23. CASE \E level \in KillLevels : LocalKill(level) \/ RemoteKill(level)
  <2>1. FrameStep
    BY <1>23 DEF FrameStep, SameTerms, SameTermsFor, TypeOK, LocalKill, RemoteKill, SetKillSwitch
  <2> QED  BY <2>1, OrderFrame
<1>24. CASE KillList
  <2>1. FrameStep
    BY <1>24 DEF FrameStep, SameTerms, SameTermsFor, TypeOK, KillList
  <2> QED  BY <2>1, OrderFrame
<1>25. CASE KillCancelOrder
  <2>1. FrameStep
    BY <1>25, CancelKept DEF FrameStep, TypeOK, KillCancelOrder
  <2> QED  BY <2>1, OrderFrame
<1>26. CASE RemoteArm
  <2>1. FrameStep
    BY <1>26 DEF FrameStep, SameTerms, SameTermsFor, TypeOK, RemoteArm
  <2> QED  BY <2>1, OrderFrame
<1>27. CASE Unlock
  <2>1. FrameStep
    BY <1>27 DEF FrameStep, SameTerms, SameTermsFor, TypeOK, Unlock
  <2> QED  BY <2>1, OrderFrame
<1>28. CASE ManualRequest
  <2>1. FrameStep
    BY <1>28 DEF FrameStep, SameTerms, SameTermsFor, TypeOK, ManualRequest
  <2> QED  BY <2>1, OrderFrame
<1>29. CASE ManualAccepted
  <2>1. SameTerms  BY <1>29, ManualKept
  <2>2. UNCHANGED <<engine, epoch, oid, today, cur, signal, signalDay>>
    BY <1>29 DEF ManualAccepted
  <2>3. FrameStep  BY <2>1, <2>2 DEF FrameStep, TypeOK
  <2> QED  BY <2>3, OrderFrame
<1>30. CASE ManualFails
  <2>1. FrameStep
    BY <1>30 DEF FrameStep, SameTerms, SameTermsFor, TypeOK, ManualFails
  <2> QED  BY <2>1, OrderFrame
<1>31. CASE Fill
  <2>1. SameTerms  BY <1>31, FillKept
  <2>2. UNCHANGED <<engine, epoch, oid, today, cur, signal, signalDay>>
    BY <1>31 DEF Fill
  <2>3. FrameStep  BY <2>1, <2>2 DEF FrameStep, TypeOK
  <2> QED  BY <2>3, OrderFrame
<1>32. CASE Midnight
  <2>1. SameTerms  BY <1>32 DEF Midnight, SameTerms, SameTermsFor
  <2>2. UNCHANGED <<engine, epoch>> /\ today' = today + 1 /\ oid' = oid /\ pc = "idle"
    BY <1>32 DEF Midnight
  <2>3. today' \in Nat /\ today < today'  BY <2>2 DEF TypeOK
  <2>4. oid = None  BY <2>2 DEF CycleInv
  <2>5. FrameStep  BY <2>1, <2>2, <2>3, <2>4 DEF FrameStep, TypeOK
  <2> QED  BY <2>5, OrderFrame
<1>33. CASE UtcMidnight
  <2>1. FrameStep
    BY <1>33 DEF FrameStep, SameTerms, SameTermsFor, TypeOK, UtcMidnight
  <2> QED  BY <2>1, OrderFrame
<1>34. CASE UNCHANGED vars
  <2>1. FrameStep
    BY <1>34 DEF FrameStep, SameTerms, SameTermsFor, TypeOK, vars
  <2> QED  BY <2>1, OrderFrame
<1> QED
  BY <1>1, <1>2, <1>3, <1>4, <1>5, <1>6, <1>7, <1>8, <1>9, <1>10, <1>11, <1>12,
     <1>13, <1>14, <1>15, <1>16, <1>17, <1>18, <1>19, <1>20, <1>21, <1>22, <1>23, <1>24,
     <1>25, <1>26, <1>27, <1>28, <1>29, <1>30, <1>31, <1>32, <1>33, <1>34
  DEF Next, CycleStep, Handler
-----------------------------------------------------------------------------
LEMMA KeptOne ==
    ASSUME OneOrderPerLife, SameTerms
    PROVE  OneOrderPerLife'
BY DEF OneOrderPerLife, SameTerms, SameTermsFor, EngineOrders, SameTrigger

\* An attempt that ends was not a failed one before.
LEMMA ConcludedOne ==
    ASSUME OrderInv, OneOrderPerLife, NEW outcome, Concluded(outcome)
    PROVE  OneOrderPerLife'
PROOF
<1>1. SUFFICES ASSUME NEW o \in EngineOrders', NEW p \in EngineOrders',
                      SameTrigger(o, p)', orders'[o].epoch = orders'[p].epoch,
                      orders'[o].outcome # "failed", orders'[p].outcome # "failed"
               PROVE  o = p
  BY DEF OneOrderPerLife
<1>2. ASSUME NEW q \in EngineOrders'
      PROVE  /\ q \in EngineOrders
             /\ orders'[q].rule = orders[q].rule /\ orders'[q].side = orders[q].side
             /\ orders'[q].day = orders[q].day /\ orders'[q].epoch = orders[q].epoch
             /\ orders'[q].outcome # "failed" => orders[q].outcome # "failed"
  <2>1. /\ q \in EngineOrders
        /\ orders'[q].rule = orders[q].rule /\ orders'[q].side = orders[q].side
        /\ orders'[q].day = orders[q].day /\ orders'[q].epoch = orders[q].epoch
        /\ orders'[q].outcome = IF q = oid THEN outcome ELSE orders[q].outcome
    BY DEF Concluded, EngineOrders
  <2>2. q = oid => orders[q].outcome = "pending"
    BY <2>1 DEF OrderInv, AttemptInv
  <2> QED  BY <2>1, <2>2
<1>3. SameTrigger(o, p) /\ orders[o].epoch = orders[p].epoch
  BY <1>1, <1>2 DEF SameTrigger
<1> QED  BY <1>1, <1>2, <1>3 DEF OneOrderPerLife

\* A new attempt is the first of its rule, side and day: the signal would not
\* have let it through otherwise.
LEMMA NewOrderOne ==
    ASSUME TypeOK, CycleInv, SignalInv, OrderInv, OneOrderPerLife,
           pc = "placing", NEW o \in OrderIds, orders[o] = None,
           NEW state \in OrderStates, NEW outcome \in OrderOutcomes,
           orders' = [orders EXCEPT ![o] = EngineOrder(state, outcome)]
    PROVE  OneOrderPerLife'
PROOF
<1>1. /\ \A p \in OrderIds \ {o} : orders'[p] = orders[p]
      /\ orders'[o].rule = cur.rule /\ orders'[o].side = cur.side
      /\ orders'[o].day = today /\ orders'[o].epoch = epoch
  BY NewOrder
<1>2. ASSUME NEW p \in EngineOrders, orders[p].outcome # "failed",
             orders[p].rule = cur.rule, orders[p].side = cur.side,
             orders[p].day = today, orders[p].epoch = epoch
      PROVE  FALSE
  <2>1. signal[<<orders[p].rule, orders[p].side>>] = "TRIGGERED"
    BY <1>2 DEF SignalInv, InPipeline
  <2>2. engine = "running" /\ oid = None  BY DEF CycleInv
  <2>3. p # oid /\ orders[p].outcome \in OrderOutcomes
    BY <2>2, NoneAssumption DEF EngineOrders, TypeOK, Order
  <2>4. orders[p].outcome = "success"
    BY <1>2, <2>2, <2>3 DEF OrderInv, AttemptInv, OrderOutcomes
  <2>5. signal[<<orders[p].rule, orders[p].side>>] = "FILLED"
    BY <1>2, <2>2, <2>4 DEF OrderInv, AttemptInv
  <2> QED  BY <2>1, <2>5
<1>3. \A p \in EngineOrders' : p # o => p \in EngineOrders /\ orders'[p] = orders[p]
  BY <1>1 DEF EngineOrders
<1>4. SUFFICES ASSUME NEW p \in EngineOrders', NEW q \in EngineOrders',
                      SameTrigger(p, q)', orders'[p].epoch = orders'[q].epoch,
                      orders'[p].outcome # "failed", orders'[q].outcome # "failed",
                      p # q
               PROVE  FALSE
  BY DEF OneOrderPerLife
<1>5. CASE p = o  BY <1>1, <1>2, <1>3, <1>4, <1>5 DEF SameTrigger
<1>6. CASE q = o  BY <1>1, <1>2, <1>3, <1>4, <1>6 DEF SameTrigger
<1>7. CASE p # o /\ q # o
  BY <1>3, <1>4, <1>7 DEF OneOrderPerLife, SameTrigger
<1> QED  BY <1>5, <1>6, <1>7

LEMMA AbandonOne ==
    ASSUME TypeOK, CycleInv, SignalInv, OrderInv, OneOrderPerLife, Abandon
    PROVE  OneOrderPerLife'
PROOF
<1>1. CASE pc = "placing" /\ \E p \in OrderIds : Accept(p, "lost")
  BY <1>1, NewOrderOne DEF Accept, OrderStates, OrderOutcomes
<1>2. CASE Conclude("lost")
  BY <1>2, ConcludeKept, ConcludedOne DEF OrderOutcomes
<1> QED  BY <1>1, <1>2 DEF Abandon

\* No second attempt while the first one is under way or has succeeded.
LEMMA OneOrderStep ==
    ASSUME TypeOK, CycleInv, SignalInv, OrderInv, OneOrderPerLife, [Next]_vars
    PROVE  OneOrderPerLife'
PROOF
<1> USE DEF lifeVars, safeVars, signalVars, limitVars, logVars, cycleVars,
             handlerVars, brokerVars
<1>1. CASE CycleTick
  BY <1>1, KeptOne DEF SameTerms, SameTermsFor, CycleTick
<1>2. CASE CycleBalance
  BY <1>2, KeptOne DEF SameTerms, SameTermsFor, CycleBalance
<1>3. CASE CycleLossCheck
  BY <1>3, KeptOne DEF SameTerms, SameTermsFor, CycleLossCheck
<1>4. CASE CycleCancelList
  BY <1>4, KeptOne DEF SameTerms, SameTermsFor, CycleCancelList
<1>5. CASE CycleCancelOrder
  BY <1>5, CancelKept, KeptOne DEF CycleCancelOrder
<1>6. CASE CycleCancelDone
  BY <1>6, KeptOne DEF SameTerms, SameTermsFor, CycleCancelDone
<1>7. CASE CycleCollect
  BY <1>7, KeptOne DEF SameTerms, SameTermsFor, CycleCollect
<1>8. CASE CycleAborts
  BY <1>8, KeptOne DEF SameTerms, SameTermsFor, CycleAborts
<1>9. CASE ExecReject
  BY <1>9, KeptOne DEF SameTerms, SameTermsFor, ExecReject
<1>10. CASE ExecAdmit
  BY <1>10, KeptOne DEF SameTerms, SameTermsFor, ExecAdmit
<1>11. CASE ExecPriceGap
  BY <1>11, KeptOne DEF SameTerms, SameTermsFor, ExecPriceGap
<1>12. CASE ExecSubmit
  BY <1>12, KeptOne DEF SameTerms, SameTermsFor, ExecSubmit
<1>13. CASE BrokerAccepts
  BY <1>13, NewOrderOne DEF BrokerAccepts, Accept, OrderStates, OrderOutcomes
<1>14. CASE BrokerRefuses
  BY <1>14, NewOrderOne DEF BrokerRefuses, OrderStates, OrderOutcomes
<1>15. CASE PlaceRaises
  BY <1>15, ConcludeKept, ConcludedOne DEF PlaceRaises, OrderOutcomes
<1>16. CASE PlaceReturns
  BY <1>16, KeptOne DEF SameTerms, SameTermsFor, PlaceReturns
<1>17. CASE LogOrder
  BY <1>17, KeptOne DEF SameTerms, SameTermsFor, LogOrder
<1>18. CASE LogFill
  BY <1>18, ConcludeKept, ConcludedOne DEF LogFill, OrderOutcomes
<1>19. CASE LogRaises
  BY <1>19, ConcludeKept, ConcludedOne DEF LogRaises, OrderOutcomes
<1>20. CASE Start
  BY <1>20, KeptOne DEF SameTerms, SameTermsFor, Start
<1>21. CASE Stop
  BY <1>21, AbandonOne DEF Stop
<1>22. CASE Crash
  BY <1>22, AbandonOne DEF Crash
<1>23. CASE \E level \in KillLevels : LocalKill(level) \/ RemoteKill(level)
  BY <1>23, KeptOne DEF SameTerms, SameTermsFor, LocalKill, RemoteKill
<1>24. CASE KillList
  BY <1>24, KeptOne DEF SameTerms, SameTermsFor, KillList
<1>25. CASE KillCancelOrder
  BY <1>25, CancelKept, KeptOne DEF KillCancelOrder
<1>26. CASE RemoteArm
  BY <1>26, KeptOne DEF SameTerms, SameTermsFor, RemoteArm
<1>27. CASE Unlock
  BY <1>27, KeptOne DEF SameTerms, SameTermsFor, Unlock
<1>28. CASE ManualRequest
  BY <1>28, KeptOne DEF SameTerms, SameTermsFor, ManualRequest
<1>29. CASE ManualAccepted
  BY <1>29, ManualKept, KeptOne
<1>30. CASE ManualFails
  BY <1>30, KeptOne DEF SameTerms, SameTermsFor, ManualFails
<1>31. CASE Fill
  BY <1>31, FillKept, KeptOne
<1>32. CASE Midnight
  BY <1>32, KeptOne DEF SameTerms, SameTermsFor, Midnight
<1>33. CASE UtcMidnight
  BY <1>33, KeptOne DEF SameTerms, SameTermsFor, UtcMidnight
<1>34. CASE UNCHANGED vars  BY <1>34, KeptOne DEF SameTerms, SameTermsFor, vars
<1> QED
  BY <1>1, <1>2, <1>3, <1>4, <1>5, <1>6, <1>7, <1>8, <1>9, <1>10, <1>11, <1>12,
     <1>13, <1>14, <1>15, <1>16, <1>17, <1>18, <1>19, <1>20, <1>21, <1>22, <1>23, <1>24,
     <1>25, <1>26, <1>27, <1>28, <1>29, <1>30, <1>31, <1>32, <1>33, <1>34
  DEF Next, CycleStep, Handler
-----------------------------------------------------------------------------
\* A candidate that is done leaves nothing of its amount in flight.
LEMMA BudgetRelease ==
    ASSUME TypeOK, CycleInv, BudgetInv, NEW rest,
           NextCandidate(rest) \/ Continue(rest) \/ EndCycle,
           UNCHANGED <<engine, today, dbDay, limitDay, executed, loggedAmount,
                       loggedBuy>>
    PROVE  BudgetInv'
PROOF
<1>1. /\ pc' \in {"idle", "check"}
      /\ snapLimit' = 0 \/ snapLimit' = snapLimit
  BY DEF NextCandidate, Continue, EndCycle
<1>2. MaxBudget \in Nat  BY EngineAssumption
<1>3. snapLimit' <= MaxBudget  BY <1>1, <1>2 DEF BudgetInv
<1>4. executed \in Nat /\ loggedAmount \in Nat
      /\ (pc = "log_order" => cur.amount \in Nat)
  BY CurrentCandidate DEF TypeOK, InPipeline
<1>5. engine = "running" /\ limitDay = today => loggedAmount <= executed
  BY <1>4 DEF BudgetInv
<1> QED  BY <1>1, <1>3, <1>4, <1>5 DEF BudgetInv

\* The counter of executed amounts covers what the log knows of the day.
LEMMA BudgetStep ==
    ASSUME TypeOK, CycleInv, BudgetInv, [Next]_vars
    PROVE  BudgetInv'
PROOF
<1> USE DEF lifeVars, safeVars, signalVars, limitVars, logVars, cycleVars,
             handlerVars, brokerVars
<1>1. CASE CycleTick
  BY <1>1 DEF TypeOK, CycleInv, BudgetInv, CycleTick, DateBoundary
<1>2. CASE CycleBalance
  BY <1>2, LimitRange, EngineAssumption DEF TypeOK, CycleInv, BudgetInv, CycleBalance
<1>3. CASE CycleLossCheck
  <2>1. CASE EndCycle
    BY <1>3, <2>1, BudgetRelease DEF CycleLossCheck
  <2>2. CASE UNCHANGED snapLimit /\ pc' \in {"cancel_list", "collect"}
    BY <1>3, <2>2 DEF TypeOK, CycleInv, BudgetInv, CycleLossCheck
  <2> QED  BY <1>3, <2>1, <2>2 DEF CycleLossCheck
<1>4. CASE CycleCancelList
  BY <1>4 DEF TypeOK, CycleInv, BudgetInv, CycleCancelList, InPipeline
<1>5. CASE CycleCancelOrder
  BY <1>5 DEF TypeOK, CycleInv, BudgetInv, CycleCancelOrder, InPipeline
<1>6. CASE CycleCancelDone
  <2>1. CASE EndCycle
    BY <1>6, <2>1, BudgetRelease DEF CycleCancelDone
  <2>2. CASE UNCHANGED snapLimit /\ pc' \in {"cancel_list", "collect"}
    BY <1>6, <2>2 DEF TypeOK, CycleInv, BudgetInv, CycleCancelDone
  <2> QED  BY <1>6, <2>1, <2>2 DEF CycleCancelDone
<1>7. CASE CycleCollect
  <2>1. PICK rest \in SUBSET Signals : Continue(rest)  BY <1>7 DEF CycleCollect
  <2> QED  BY <1>7, <2>1, BudgetRelease DEF CycleCollect
<1>8. CASE CycleAborts
  BY <1>8, BudgetRelease DEF CycleAborts
<1>9. CASE ExecReject
  <2>1. PICK c \in queue : NextCandidate(queue \ {c})  BY <1>9 DEF ExecReject
  <2> QED  BY <1>9, <2>1, BudgetRelease DEF ExecReject
<1>10. CASE ExecAdmit
  BY <1>10, SignalFields DEF TypeOK, CycleInv, BudgetInv, ExecAdmit, WithinLimits
<1>11. CASE ExecPriceGap
  BY <1>11, BudgetRelease DEF ExecPriceGap
<1>12. CASE ExecSubmit
  BY <1>12 DEF TypeOK, CycleInv, BudgetInv, ExecSubmit, InPipeline
<1>13. CASE BrokerAccepts
  BY <1>13 DEF TypeOK, CycleInv, BudgetInv, BrokerAccepts, InPipeline
<1>14. CASE BrokerRefuses
  BY <1>14 DEF TypeOK, CycleInv, BudgetInv, BrokerRefuses, InPipeline
<1>15. CASE PlaceRaises
  BY <1>15, BudgetRelease DEF PlaceRaises
<1>16. CASE PlaceReturns
  BY <1>16, CurrentCandidate DEF TypeOK, CycleInv, BudgetInv, PlaceReturns, InPipeline
<1>17. CASE LogOrder
  BY <1>17, CurrentCandidate, EngineAssumption DEF TypeOK, CycleInv, BudgetInv, LogOrder, OrderRow, InPipeline
<1>18. CASE LogFill
  BY <1>18, BudgetRelease DEF LogFill
<1>19. CASE LogRaises
  BY <1>19, BudgetRelease DEF LogRaises
<1>20. CASE Start
  BY <1>20 DEF TypeOK, CycleInv, BudgetInv, Start, Restored
<1>21. CASE Stop
  BY <1>21, CurrentCandidate, EngineAssumption DEF TypeOK, CycleInv, BudgetInv, Stop, Abandon, OrderRow, FillRow, EndCycle, InPipeline
<1>22. CASE Crash
  BY <1>22, CurrentCandidate, EngineAssumption DEF TypeOK, CycleInv, BudgetInv, Crash, Abandon, OrderRow, FillRow, EndCycle, InPipeline
<1>23. CASE \E level \in KillLevels : LocalKill(level) \/ RemoteKill(level)
  BY <1>23 DEF TypeOK, CycleInv, BudgetInv, LocalKill, RemoteKill, SetKillSwitch, InPipeline
<1>24. CASE KillList
  BY <1>24 DEF TypeOK, CycleInv, BudgetInv, KillList, InPipeline
<1>25. CASE KillCancelOrder
  BY <1>25 DEF TypeOK, CycleInv, BudgetInv, KillCancelOrder, InPipeline
<1>26. CASE RemoteArm
  BY <1>26 DEF TypeOK, CycleInv, BudgetInv, RemoteArm, InPipeline
<1>27. CASE Unlock
  BY <1>27 DEF TypeOK, CycleInv, BudgetInv, Unlock, InPipeline
<1>28. CASE ManualRequest
  BY <1>28 DEF TypeOK, CycleInv, BudgetInv, ManualRequest, InPipeline
<1>29. CASE ManualAccepted
  BY <1>29 DEF TypeOK, CycleInv, BudgetInv, ManualAccepted, InPipeline
<1>30. CASE ManualFails
  BY <1>30 DEF TypeOK, CycleInv, BudgetInv, ManualFails, InPipeline
<1>31. CASE Fill
  BY <1>31 DEF TypeOK, CycleInv, BudgetInv, Fill, InPipeline
<1>32. CASE Midnight
  BY <1>32 DEF TypeOK, CycleInv, BudgetInv, Midnight, InPipeline
<1>33. CASE UtcMidnight
  <2>1. /\ pc = "idle" /\ dbDay < today  BY <1>33 DEF UtcMidnight, CycleInv, TypeOK
  <2>2. /\ loggedAmount' = 0 /\ loggedBuy' = 0
        /\ UNCHANGED <<pc, engine, limitDay, today, executed, snapLimit, cur>>
    BY <1>33 DEF UtcMidnight
  <2>3. executed \in Nat /\ MaxBudget \in Nat  BY EngineAssumption DEF TypeOK
  <2> QED  BY <2>1, <2>2, <2>3 DEF BudgetInv
<1>34. CASE UNCHANGED vars  BY <1>34 DEF TypeOK, CycleInv, BudgetInv, vars
<1> QED
  BY <1>1, <1>2, <1>3, <1>4, <1>5, <1>6, <1>7, <1>8, <1>9, <1>10, <1>11, <1>12,
     <1>13, <1>14, <1>15, <1>16, <1>17, <1>18, <1>19, <1>20, <1>21, <1>22, <1>23, <1>24,
     <1>25, <1>26, <1>27, <1>28, <1>29, <1>30, <1>31, <1>32, <1>33, <1>34
  DEF Next, CycleStep, Handler
-----------------------------------------------------------------------------
LEMMA InitInv == Init => EngineInv
PROOF
<1> SUFFICES ASSUME Init PROVE EngineInv
  OBVIOUS
<1>1. TypeOK /\ CycleInv  BY InitShape
<1>2. EngineOrders = {} /\ oid = None  BY DEF Init, EngineOrders
<1>3. SignalInv  BY DEF Init, SignalInv, InPipeline, TriggeredOnlyInFlight
<1>4. OrderInv /\ OneOrderPerLife  BY <1>2 DEF OrderInv, OneOrderPerLife
<1>5. BudgetInv
  <2>1. MaxBudget \in Nat  BY EngineAssumption
  <2> QED  BY <2>1 DEF Init, BudgetInv
<1>6. SpeedInv  BY SpeedRange DEF Init, SpeedInv
<1>7. KillInv /\ LossLockStopsOrders
  BY DEF Init, KillInv, LossLockStopsOrders, OrderPhases
<1> QED  BY <1>1, <1>3, <1>4, <1>5, <1>6, <1>7 DEF EngineInv

LEMMA StepInv == EngineInv /\ [Next]_vars => EngineInv'
PROOF
<1> SUFFICES ASSUME EngineInv, [Next]_vars PROVE EngineInv'
  OBVIOUS
<1> USE DEF EngineInv
<1>1. TypeOK' /\ CycleInv'  BY TypeStep, CycleStepInv
<1>2. SignalInv'  BY SignalStep
<1>3. OrderInv' /\ OneOrderPerLife'  BY OrderStep, OneOrderStep
<1>4. BudgetInv' /\ SpeedInv'  BY BudgetStep, SpeedStep
<1>5. KillInv' /\ LossLockStopsOrders'  BY KillStep, LossStep
<1> QED  BY <1>1, <1>2, <1>3, <1>4, <1>5

\* EngineInv holds in every state: the evaluation cycle, the handlers that
\* interrupt it and the broker's book stay in step with one another.
THEOREM EngineInvariant == Spec => []EngineInv
BY InitInv, StepInv, PTL DEF Spec

\* Within one life of the engine a rule has at most one order a day and side
\* whose attempt did not fail (SignalManager with OrderExecutor.execute).
THEOREM OneOrder == Spec => []OneOrderPerLife
PROOF
<1>1. EngineInv => OneOrderPerLife  BY DEF EngineInv
<1> QED  BY <1>1, EngineInvariant, PTL

\* No signal of a running engine stays TRIGGERED after its attempt
\* (OrderExecutor.execute with mark_filled and mark_failed).
THEOREM NoStuckTrigger == Spec => []TriggeredOnlyInFlight
PROOF
<1>1. EngineInv => TriggeredOnlyInFlight  BY DEF EngineInv, SignalInv
<1> QED  BY <1>1, EngineInvariant, PTL

\* The kill switch lets at most one more engine order through.
THEOREM KillLeak == Spec => []KillLeakBound
PROOF
<1>1. EngineInv => KillLeakBound  BY DEF EngineInv, KillInv, KillLeakBound
<1> QED  BY <1>1, EngineInvariant, PTL

\* While the loss lock is set no cycle is in the order pipeline.
THEOREM LossLock == Spec => []LossLockStopsOrders
PROOF
<1>1. EngineInv => LossLockStopsOrders  BY DEF EngineInv
<1> QED  BY <1>1, EngineInvariant, PTL

\* The BUY amounts logged for one day stay within the largest daily budget,
\* over any number of engine restarts.
THEOREM BudgetKept == Spec => []LoggedBuysWithinBudget
PROOF
<1>1. EngineInv => LoggedBuysWithinBudget
  BY DEF EngineInv, BudgetInv, LoggedBuysWithinBudget
<1> QED  BY <1>1, EngineInvariant, PTL

\* The orders counted in one speed window never exceed the limit.
THEOREM SpeedKept == Spec => []SpeedLimit
PROOF
<1>1. EngineInv => SpeedLimit  BY DEF EngineInv, SpeedInv, SpeedLimit
<1> QED  BY <1>1, EngineInvariant, PTL
-----------------------------------------------------------------------------
(* The core implements OrderSlots: every step maps to a step of the        *)
(* abstract pipeline or leaves all slots as they are.                      *)

Attempting == {"placing", "answer", "log_order", "log_fill"}

LEMMA SlotValue ==
    ASSUME NEW x \in Rules \X Sides
    PROVE  /\ SlotOf(x) = IF pc \in Attempting /\ x = <<cur.rule, cur.side>>
                          THEN "working"
                          ELSE IF engine = "running" /\ signalDay = today
                                  /\ signal[x] = "FILLED"
                          THEN "done"
                          ELSE "free"
           /\ SlotOf(x)' = IF pc' \in Attempting /\ x = <<cur'.rule, cur'.side>>
                           THEN "working"
                           ELSE IF engine' = "running" /\ signalDay' = today'
                                   /\ signal'[x] = "FILLED"
                           THEN "done"
                           ELSE "free"
PROOF
<1>1. InPipeline \ {"verify"} = Attempting  BY DEF InPipeline, Attempting
<1> QED  BY <1>1, Zenon DEF SlotOf

\* The abstract state as the refinement mapping gives it.
SlotMap == [x \in Rules \X Sides |-> SlotOf(x)]

\* Nothing a slot depends on has moved.
LEMMA SlotsUntouched ==
    ASSUME UNCHANGED <<engine, today, signal, signalDay>>,
           pc \in Attempting <=> pc' \in Attempting,
           pc \in Attempting => UNCHANGED cur
    PROVE  UNCHANGED SlotMap
PROOF
<1>1. ASSUME NEW x \in Rules \X Sides PROVE SlotOf(x)' = SlotOf(x)
  BY SlotValue
<1> QED  BY <1>1, Zenon DEF SlotMap

\* No engine, or a day the signals know nothing of, and no attempt: all free.
LEMMA AllFreeSlots ==
    ASSUME pc \notin Attempting,
           \/ engine # "running"
           \/ signalDay # today
           \/ signal = [x \in Rules \X Sides |-> "IDLE"]
    PROVE  SlotMap = Slots!AllFree
PROOF
<1>1. ASSUME NEW x \in Rules \X Sides PROVE SlotOf(x) = "free"
  BY SlotValue
<1> QED  BY <1>1, Zenon DEF SlotMap, Slots!AllFree

LEMMA AllFreeSlotsNext ==
    ASSUME pc' \notin Attempting,
           \/ engine' # "running"
           \/ signalDay' # today'
           \/ signal' = [x \in Rules \X Sides |-> "IDLE"]
    PROVE  SlotMap' = Slots!AllFree
PROOF
<1>1. ASSUME NEW x \in Rules \X Sides PROVE SlotOf(x)' = "free"
  BY SlotValue
<1> QED  BY <1>1, Zenon DEF SlotMap, Slots!AllFree

\* can_trigger's daily reset finds nothing but free slots.
LEMMA SlotsReset ==
    ASSUME TypeOK, CycleInv, pc \notin Attempting, pc' \notin Attempting,
           DailyReset, UNCHANGED <<engine, today>>
    PROVE  UNCHANGED SlotMap
PROOF
<1>1. CASE today > signalDay
  <2>1. SlotMap = Slots!AllFree  BY <1>1, AllFreeSlots DEF TypeOK
  <2>2. signal' = [x \in Rules \X Sides |-> "IDLE"]
    BY <1>1 DEF DailyReset, SignalsToday
  <2>3. SlotMap' = Slots!AllFree  BY <2>2, AllFreeSlotsNext
  <2> QED  BY <2>1, <2>3
<1>2. CASE ~(today > signalDay)
  <2>1. UNCHANGED <<signal, signalDay>>  BY <1>2 DEF DailyReset, SignalsToday
  <2> QED  BY <2>1, SlotsUntouched
<1> QED  BY <1>1, <1>2

\* mark_triggered takes the free slot of the candidate while no attempt is
\* under way.
LEMMA SubmitTakes ==
    ASSUME TypeOK, CycleInv, SignalInv, ExecSubmit
    PROVE  Slots!Take
PROOF
<1>1. PICK k \in Rules \X Sides : k = <<cur.rule, cur.side>>
  BY CurrentCandidate DEF ExecSubmit, InPipeline
<1>2. pc \notin Attempting /\ pc' \in Attempting
  BY DEF ExecSubmit, Attempting
<1>3. /\ signal[k] = "IDLE"
      /\ signal' = [signal EXCEPT ![k] = "TRIGGERED"]
      /\ UNCHANGED <<engine, today, signalDay, cur>>
  BY <1>1 DEF ExecSubmit, SignalInv, InPipeline, Mark, lifeVars
<1>4. \A x \in Rules \X Sides : SlotOf(x) # "working"
  BY <1>2, SlotValue
<1>5. SlotOf(k) = "free"  BY <1>2, <1>3, SlotValue
<1>6. \A x \in Rules \X Sides : SlotOf(x)' = IF x = k THEN "working" ELSE SlotOf(x)
  <2>1. ASSUME NEW x \in Rules \X Sides, x # k PROVE signal'[x] = signal[x]
    BY <1>3, <2>1 DEF TypeOK
  <2> QED  BY <1>1, <1>2, <1>3, <2>1, SlotValue
<1>7. SlotMap' = [SlotMap EXCEPT ![k] = "working"]
  BY <1>6, Zenon DEF SlotMap
<1>8. /\ \A x \in Rules \X Sides : SlotMap[x] # "working"
      /\ SlotMap[k] = "free"
  BY <1>4, <1>5 DEF SlotMap
<1> QED  BY <1>7, <1>8 DEF Slots!Take, SlotMap

\* An attempt that ends, in either way, concludes its slot.
LEMMA EndConcludes ==
    ASSUME TypeOK, CycleInv, SignalInv, pc \in Attempting, pc' \notin Attempting,
           UNCHANGED <<engine, today, signalDay>>,
           \/ UNCHANGED signal
           \/ signal' = [signal EXCEPT ![<<cur.rule, cur.side>>] = "IDLE"]
    PROVE  Slots!Conclude
PROOF
<1>1. PICK k \in Rules \X Sides : k = <<cur.rule, cur.side>>
  BY CurrentCandidate DEF Attempting, InPipeline
<1>2. SlotOf(k) = "working"  BY <1>1, SlotValue
<1>3. \A x \in Rules \X Sides : x # k => SlotOf(x)' = SlotOf(x)
  <2>1. ASSUME NEW x \in Rules \X Sides, x # k PROVE signal'[x] = signal[x]
    BY <1>1, <2>1 DEF TypeOK
  <2> QED  BY <1>1, <2>1, SlotValue
<1>4. SlotOf(k)' \in {"done", "free"}
  BY <1>1, SlotValue
<1>5. PICK end \in {"done", "free"} : SlotOf(k)' = end  BY <1>4
<1>6. SlotMap' = [SlotMap EXCEPT ![k] = end]
  BY <1>3, <1>5, Zenon DEF SlotMap
<1>7. SlotMap[k] = "working"  BY <1>2 DEF SlotMap
<1> QED  BY <1>6, <1>7 DEF Slots!Conclude, SlotMap

\* What a step that leaves the signals alone does to the cycle's phase.
QuietCycle ==
    CycleTick \/ CycleBalance \/ CycleLossCheck \/ CycleCancelList
    \/ CycleCancelOrder \/ CycleCancelDone \/ CycleCollect \/ CycleAborts
    \/ ExecPriceGap \/ BrokerAccepts \/ BrokerRefuses \/ LogOrder

QuietHandler ==
    (\E level \in KillLevels : LocalKill(level) \/ RemoteKill(level))
    \/ KillList \/ KillCancelOrder \/ RemoteArm \/ Unlock
    \/ ManualRequest \/ ManualAccepted \/ ManualFails \/ Fill \/ UtcMidnight

LEMMA QuietSlots ==
    ASSUME QuietCycle \/ QuietHandler
    PROVE  UNCHANGED SlotMap
PROOF
<1> USE DEF lifeVars, signalVars, cycleVars
<1>1. CASE QuietHandler
  <2>1. UNCHANGED <<engine, today, signal, signalDay, pc, cur>>
    BY <1>1, Zenon DEF QuietHandler, LocalKill, RemoteKill, KillList, KillCancelOrder,
       RemoteArm, Unlock, ManualRequest, ManualAccepted, ManualFails, Fill, UtcMidnight
  <2> QED  BY <2>1, SlotsUntouched
<1>2. CASE QuietCycle
  <2>1. UNCHANGED <<engine, today, signal, signalDay>>
    BY <1>2, Zenon DEF QuietCycle, CycleTick, CycleBalance, CycleLossCheck,
       CycleCancelList, CycleCancelOrder, CycleCancelDone, CycleCollect, CycleAborts,
       ExecPriceGap, BrokerAccepts, BrokerRefuses, LogOrder
  <2>2. \/ pc \notin Attempting /\ pc' \notin Attempting
        \/ pc \in Attempting /\ pc' \in Attempting /\ UNCHANGED cur
    <3>1. CASE CycleTick \/ CycleBalance \/ CycleLossCheck \/ CycleCancelList
               \/ CycleCancelOrder \/ CycleCancelDone
      BY <3>1 DEF CycleTick, CycleBalance, CycleLossCheck, CycleCancelList,
         CycleCancelOrder, CycleCancelDone, EndCycle, Attempting
    <3>2. CASE CycleCollect \/ CycleAborts \/ ExecPriceGap
      BY <3>2 DEF CycleCollect, CycleAborts, ExecPriceGap, NextCandidate,
         Continue, EndCycle, Attempting
    <3>3. CASE BrokerAccepts \/ BrokerRefuses \/ LogOrder
      BY <3>3 DEF BrokerAccepts, BrokerRefuses, LogOrder, Attempting
    <3> QED  BY <1>2, <3>1, <3>2, <3>3 DEF QuietCycle
  <2> QED  BY <2>1, <2>2, SlotsUntouched
<1> QED  BY <1>1, <1>2

LEMMA SlotsStep ==
    ASSUME EngineInv, [Next]_vars
    PROVE  Slots!Next \/ UNCHANGED SlotMap
PROOF
<1> TypeOK /\ CycleInv /\ SignalInv  BY DEF EngineInv
<1> USE DEF lifeVars, signalVars
<1>1. CASE QuietCycle \/ QuietHandler  BY <1>1, QuietSlots
<1>2. CASE ExecReject
  <2>1. pc \notin Attempting /\ pc' \notin Attempting
    BY <1>2 DEF ExecReject, NextCandidate, Continue, EndCycle, Attempting
  <2>2. UNCHANGED <<engine, today>> /\ (DailyReset \/ UNCHANGED signalVars)
    BY <1>2, Zenon DEF ExecReject
  <2> QED  BY <2>1, <2>2, SlotsReset, SlotsUntouched
<1>3. CASE ExecAdmit
  <2>1. pc \notin Attempting /\ pc' \notin Attempting
    BY <1>3 DEF ExecAdmit, Attempting
  <2>2. UNCHANGED <<engine, today>> /\ DailyReset  BY <1>3 DEF ExecAdmit
  <2> QED  BY <2>1, <2>2, SlotsReset
<1>4. CASE ExecSubmit  BY <1>4, SubmitTakes DEF Slots!Next
<1>5. CASE PlaceReturns
  <2>1. /\ pc \in Attempting /\ pc' \in Attempting
        /\ UNCHANGED <<engine, today, signalDay, cur>>
        /\ signal' = [signal EXCEPT ![<<cur.rule, cur.side>>] = "FILLED"]
    BY <1>5 DEF PlaceReturns, Mark, Attempting
  <2>2. \A x \in Rules \X Sides : x # <<cur.rule, cur.side>> => signal'[x] = signal[x]
    BY <2>1 DEF TypeOK
  <2>3. ASSUME NEW x \in Rules \X Sides PROVE SlotOf(x)' = SlotOf(x)
    BY <2>1, <2>2, SlotValue
  <2> QED  BY <2>3, Zenon DEF SlotMap
<1>6. CASE PlaceRaises \/ LogRaises
  <2>1. /\ pc \in Attempting /\ pc' \notin Attempting
        /\ UNCHANGED <<engine, today, signalDay>>
        /\ signal' = [signal EXCEPT ![<<cur.rule, cur.side>>] = "IDLE"]
    BY <1>6 DEF PlaceRaises, LogRaises, Mark, NextCandidate, Continue, EndCycle,
       Attempting
  <2> QED  BY <2>1, EndConcludes DEF Slots!Next
<1>7. CASE LogFill
  <2>1. /\ pc \in Attempting /\ pc' \notin Attempting
        /\ UNCHANGED <<engine, today, signal, signalDay>>
    BY <1>7 DEF LogFill, Continue, EndCycle, Attempting
  <2> QED  BY <2>1, EndConcludes DEF Slots!Next
<1>8. CASE Start
  <2>1. pc = "idle" /\ UNCHANGED pc /\ engine # "running"
        /\ signal' = [x \in Rules \X Sides |-> "IDLE"]
    BY <1>8 DEF Start, CycleInv, cycleVars
  <2>2. SlotMap = Slots!AllFree  BY <2>1, AllFreeSlots DEF Attempting
  <2>3. SlotMap' = Slots!AllFree  BY <2>1, AllFreeSlotsNext DEF Attempting
  <2> QED  BY <2>2, <2>3
<1>9. CASE Stop \/ Crash \/ Midnight
  <2>1. pc' = "idle" /\ (engine' # "running" \/ signalDay' # today')
    BY <1>9 DEF Stop, Crash, Midnight, EndCycle, CycleInv, TypeOK, cycleVars
  <2>2. SlotMap' = Slots!AllFree  BY <2>1, AllFreeSlotsNext DEF Attempting
  <2> QED  BY <2>2 DEF SlotMap, Slots!Reset, Slots!Next
<1>10. CASE UNCHANGED vars
  BY <1>10, SlotsUntouched DEF vars, cycleVars
<1> QED
  BY <1>1, <1>2, <1>3, <1>4, <1>5, <1>6, <1>7, <1>8, <1>9, <1>10
  DEF Next, CycleStep, Handler, QuietCycle, QuietHandler

\* The core implements the safety half of OrderSlots: an attempt takes a free
\* slot while no other is under way, gives it back or closes it when it ends,
\* and a closed slot opens again only with a new day or a new engine (the
\* await points of OrderExecutor.execute between SignalManager.can_trigger and
\* mark_filled or mark_failed).
THEOREM OrderSlotsSafety == Spec => Slots!Safety
PROOF
<1>1. Init => Slots!Init
  <2> SUFFICES ASSUME Init PROVE Slots!Init
    OBVIOUS
  <2>1. SlotMap = Slots!AllFree  BY AllFreeSlots DEF Init, Attempting
  <2> QED  BY <2>1 DEF SlotMap, Slots!Init
<1>2. EngineInv /\ [Next]_vars => [Slots!Next]_[x \in Rules \X Sides |-> SlotOf(x)]
  BY SlotsStep DEF SlotMap
<1> QED  BY <1>1, <1>2, EngineInvariant, PTL DEF Spec, Slots!Safety
=============================================================================
