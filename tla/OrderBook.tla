------------------------------ MODULE OrderBook ------------------------------
(***************************************************************************)
(* Orders placed and cancelled through an adapter (place_order,            *)
(* cancel_order and get_open_orders of KisAdapter and KiwoomAdapter), the  *)
(* idempotency guard in front of them and the reconciler behind.  An       *)
(* answer may be lost or come late, a broker may refuse a request with     *)
(* HTTP 200, and orders are filled at any time.                            *)
(*                                                                         *)
(* Each action is the code between two awaits; the guard's lock is held    *)
(* over none.  Names ending in "Mutant" are faulty variants of the         *)
(* definition that follows them.                                           *)
(***************************************************************************)
EXTENDS Naturals, FiniteSets

CONSTANTS
    Ids,          \* client_order_id
    Callers,      \* coroutines of the engine and of the routers
    MaxOrders     \* bound: orders the broker accepts

ASSUME BookAssumption == MaxOrders \in Nat \ {0} /\ Ids # {}

NoNumber == 0                    \* ODNO of a refused order: ""
Numbers == 1 .. MaxOrders        \* order numbers of the broker
LocalKeys == {NoNumber} \union Numbers
NoRecord == MaxOrders + 1

VARIABLES
    adapter,     \* which adapter
    records,     \* IdempotencyGuard._records: the order number of each id
    local,       \* Reconciler._local_orders: the status of each number
    book,        \* the broker's orders
    idOf,        \* the id each of its orders was placed for
    step,        \* where each caller waits
    asks,        \* the id or the number it asks about
    query,       \* the reconciler's request: not made, or its answer
    denied,      \* ghost: is that answer a refusal?
    excused      \* ids for which a second order may have been placed

bookVars == <<adapter, records, local, book, idOf, step, asks, query, denied, excused>>

NoQuery == {NoNumber}
Waiting == {"placing", "accepted", "cancelling", "cancelled"}

BookTypeOK ==
    /\ adapter \in {"kis", "kiwoom"}
    /\ records \in [Ids -> LocalKeys \union {NoRecord}]
    /\ local \in [LocalKeys -> {"absent", "SUBMITTED", "FILLED", "CANCELLED"}]
    /\ book \in [Numbers -> {"unused", "open", "filled", "cancelled"}]
    /\ idOf \in [Numbers -> Ids]
    /\ step \in [Callers -> {"idle"} \union Waiting]
    /\ asks \in [Callers -> Ids \union LocalKeys]
    /\ query \in SUBSET LocalKeys /\ denied \in BOOLEAN
    /\ excused \subseteq Ids

BookInit ==
    /\ adapter \in {"kis", "kiwoom"}
    /\ records = [i \in Ids |-> NoRecord]
    /\ local = [n \in LocalKeys |-> "absent"]
    /\ book = [n \in Numbers |-> "unused"]
    /\ idOf = [n \in Numbers |-> CHOOSE i \in Ids : TRUE]
    /\ step = [c \in Callers |-> "idle"]
    /\ asks = [c \in Callers |-> NoNumber]
    /\ query = NoQuery /\ denied = FALSE
    /\ excused = {}

CallerGoes(c, to) == step' = [step EXCEPT ![c] = to]

\* The call ends, with an answer or an exception.
Returns(c) == CallerGoes(c, "idle") /\ asks' = [asks EXCEPT ![c] = NoNumber]

----------------------------------------------------------------------------
(* Placing an order                                                        *)

\* The record is not looked up.
KnownMutant(i) == FALSE

\* check
Known(i) == records[i] # NoRecord

IsPlacing(c, i) ==
    \/ step[c] = "placing" /\ asks[c] = i
    \/ step[c] = "accepted" /\ idOf[asks[c]] = i

\* place_order up to the request: an id on record gets the recorded result.  Two calls
\* with one id pass the check together as long as neither has its answer.
PlaceOrder(c, i) ==
    /\ step[c] = "idle"
    /\ excused' = excused \union {j \in {i} : \E d \in Callers : IsPlacing(d, j)}
    /\ IF Known(i) THEN UNCHANGED <<step, asks>>
       ELSE CallerGoes(c, "placing") /\ asks' = [asks EXCEPT ![c] = i]
    /\ UNCHANGED <<adapter, records, local, book, idOf, query, denied>>

\* The broker opens an order.
Accept(c) ==
    /\ step[c] = "placing"
    /\ \E n \in Numbers :
          /\ book[n] = "unused"
          /\ \A m \in Numbers : m < n => book[m] # "unused"
          /\ book' = [book EXCEPT ![n] = "open"]
          /\ idOf' = [idOf EXCEPT ![n] = asks[c]]
          /\ CallerGoes(c, "accepted")
          /\ asks' = [asks EXCEPT ![c] = n]
    /\ UNCHANGED <<adapter, records, local, query, denied, excused>>

\* register and register_order.
Register(c, i, n) ==
    /\ records' = [records EXCEPT ![i] = n]
    /\ local' = [local EXCEPT ![n] = "SUBMITTED"]
    /\ Returns(c)

Placed(c) ==
    /\ step[c] = "accepted"
    /\ Register(c, idOf[asks[c]], asks[c])
    /\ UNCHANGED <<adapter, book, idOf, query, denied, excused>>

\* KiwoomOrder.place_order raises; KisOrder reads the missing number as "".
ChecksReturnCode == adapter = "kiwoom"

\* rt_cd or return_code says no, with HTTP 200.
PlaceRefused(c) ==
    /\ step[c] = "placing"
    /\ IF ChecksReturnCode THEN Returns(c) /\ UNCHANGED <<records, local>>
       ELSE Register(c, asks[c], NoNumber)
    /\ UNCHANGED <<adapter, book, idOf, query, denied, excused>>

\* The request does not get through, is answered with an HTTP error, or its answer is
\* lost: the exception passes both registrations.
PlaceFails(c) ==
    /\ step[c] \in {"placing", "accepted"}
    /\ excused' = IF step[c] = "accepted" THEN excused \union {idOf[asks[c]]} ELSE excused
    /\ Returns(c)
    /\ UNCHANGED <<adapter, records, local, book, idOf, query, denied>>

----------------------------------------------------------------------------
(* Cancelling one                                                          *)

CancelOrder(c, n) ==
    /\ step[c] = "idle"
    /\ book[n] # "unused"
    /\ CallerGoes(c, "cancelling")
    /\ asks' = [asks EXCEPT ![c] = n]
    /\ UNCHANGED <<adapter, records, local, book, idOf, query, denied, excused>>

\* The broker cancels what is open, or refuses, with HTTP 200.
CancelArrives(c) ==
    /\ step[c] = "cancelling"
    /\ \/ /\ book[asks[c]] = "open"
          /\ book' = [book EXCEPT ![asks[c]] = "cancelled"]
       \/ UNCHANGED book
    /\ CallerGoes(c, "cancelled")
    /\ UNCHANGED <<adapter, records, local, idOf, asks, query, denied, excused>>

\* update_order, if the order is known; neither adapter looks at the answer.
CancelAnswered(c) ==
    /\ step[c] = "cancelled"
    /\ local' = [local EXCEPT ![asks[c]] = IF @ = "absent" THEN @ ELSE "CANCELLED"]
    /\ Returns(c)
    /\ UNCHANGED <<adapter, records, book, idOf, query, denied, excused>>

CancelFails(c) ==
    /\ step[c] \in {"cancelling", "cancelled"}
    /\ Returns(c)
    /\ UNCHANGED <<adapter, records, local, book, idOf, query, denied, excused>>

----------------------------------------------------------------------------
(* The broker and the reconciler                                           *)

OrderFilled(n) ==
    /\ book[n] = "open"
    /\ book' = [book EXCEPT ![n] = "filled"]
    /\ UNCHANGED <<adapter, records, local, idOf, step, asks, query, denied, excused>>

\* DEFAULT_TTL_HOURS are over: _cleanup_expired drops the records before the next check
\* looks at them.
DayPasses ==
    /\ \E i \in Ids : records[i] # NoRecord
    /\ records' = [i \in Ids |-> NoRecord]
    /\ excused' = excused \union {i \in Ids : records[i] # NoRecord}
    /\ UNCHANGED <<adapter, local, book, idOf, step, asks, query, denied>>

\* get_open_orders, answered with the orders that are open.
Snapshot ==
    /\ query = NoQuery
    /\ query' = {n \in Numbers : book[n] = "open"}
    /\ UNCHANGED <<adapter, records, local, book, idOf, step, asks, denied, excused>>

\* rt_cd or return_code says no, with HTTP 200: the answer has no list, and neither
\* adapter tells that from an empty one.
SnapshotRefused ==
    /\ query = NoQuery
    /\ query' = {} /\ denied' = TRUE
    /\ UNCHANGED <<adapter, records, local, book, idOf, step, asks, excused>>

QueryFails ==
    /\ query # NoQuery
    /\ query' = NoQuery /\ denied' = FALSE
    /\ UNCHANGED <<adapter, records, local, book, idOf, step, asks, excused>>

\* An order found open whose local status is another is not set right.
ReconciledMutant(open) ==
    [n \in LocalKeys |->
        IF n \in open /\ local[n] = "absent" THEN "SUBMITTED"
        ELSE IF n \notin open /\ local[n] = "SUBMITTED" THEN "FILLED"
        ELSE local[n]]

\* GHOST and MISMATCH take the server's status, which is SUBMITTED; an ORPHAN that is
\* not over counts as FILLED.
Reconciled(open) ==
    [n \in LocalKeys |->
        IF n \in open THEN "SUBMITTED"
        ELSE IF local[n] = "SUBMITTED" THEN "FILLED"
        ELSE local[n]]

\* reconcile_once after its await: the answer may be behind what was done meanwhile.
\* After a refusal every order counts as filled.
CompareBooks ==
    /\ query # NoQuery
    /\ local' = Reconciled(query)
    /\ query' = NoQuery /\ denied' = FALSE
    /\ UNCHANGED <<adapter, records, book, idOf, step, asks, excused>>

----------------------------------------------------------------------------
BrokerAnswers(c) == Placed(c) \/ PlaceRefused(c) \/ CancelAnswered(c)

BookNext ==
    \/ \E c \in Callers : \/ \E i \in Ids : PlaceOrder(c, i)
                          \/ Accept(c) \/ PlaceFails(c)
                          \/ \E n \in Numbers : CancelOrder(c, n)
                          \/ CancelArrives(c) \/ CancelFails(c)
                          \/ BrokerAnswers(c)
    \/ \E n \in Numbers : OrderFilled(n)
    \/ DayPasses \/ Snapshot \/ SnapshotRefused \/ QueryFails \/ CompareBooks

\* The comparison of an answer that is no refusal.
CompareExactly == CompareBooks /\ ~denied

\* The loop asks every thirty seconds, and any call waits five seconds at most.  Nothing in
\* the code makes the broker answer: that it does not refuse each request, and not each
\* answer is lost, is assumed of it.
BookFairness ==
    /\ SF_bookVars(Snapshot)
    /\ WF_bookVars(CompareBooks \/ QueryFails)
    /\ SF_bookVars(CompareExactly)
    /\ \A c \in Callers : WF_bookVars(BrokerAnswers(c) \/ PlaceFails(c) \/ CancelFails(c))

BookSpec == BookInit /\ [][BookNext]_bookVars /\ BookFairness

----------------------------------------------------------------------------
OrdersOf(i) == {n \in Numbers : book[n] # "unused" /\ idOf[n] = i}

\* An id has one order at the broker, unless its answer was lost, two calls with it
\* overlapped or a day has passed.
OncePerId == \A i \in Ids \ excused : Cardinality(OrdersOf(i)) <= 1

\* What is on record for an id is an order of that id, or a refusal of KIS, which the
\* Kiwoom adapter never takes for an order.
RecordsAreTrue ==
    \A i \in Ids : records[i] # NoRecord =>
        \/ records[i] \in OrdersOf(i)
        \/ records[i] = NoNumber /\ adapter = "kis"

\* What a caller waits for.
CallersWait ==
    \A c \in Callers :
        /\ step[c] = "placing" => asks[c] \in Ids
        /\ step[c] \in {"accepted", "cancelling", "cancelled"} =>
              asks[c] \in Numbers /\ book[asks[c]] # "unused"

\* An id is nowhere, or with one caller, or on record.
InOnePlace(i) ==
    /\ \A n, m \in OrdersOf(i) : n = m
    /\ \A c, d \in Callers : IsPlacing(c, i) /\ IsPlacing(d, i) => c = d
    /\ \A c \in Callers : IsPlacing(c, i) => ~Known(i)
    /\ \A c \in Callers : step[c] = "placing" /\ asks[c] = i => OrdersOf(i) = {}
    /\ \A n \in OrdersOf(i) :
          records[i] = n \/ \E c \in Callers : step[c] = "accepted" /\ asks[c] = n

OneAtATime == \A i \in Ids \ excused : InOnePlace(i)

BookInv == BookTypeOK /\ CallersWait /\ OneAtATime /\ OncePerId /\ RecordsAreTrue

\* Whatever races with a snapshot, and after each refusal that was read as no open orders,
\* the reconciler brings its book back to the broker's: again and again exactly the
\* broker's open orders are SUBMITTED in it.
BooksAgree == \A n \in LocalKeys : local[n] = "SUBMITTED" <=> (n \in Numbers /\ book[n] = "open")

BooksConverge == []<>BooksAgree

\* "Prevents duplicate orders with the same client_order_id."
NoDuplicates == \A i \in Ids : Cardinality(OrdersOf(i)) <= 1

\* "A cancelled order" is over at the broker.
CancelledIsOver == \A n \in Numbers : local[n] = "CANCELLED" => book[n] # "open"
=============================================================================
