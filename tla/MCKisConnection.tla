--------------------------- MODULE MCKisConnection ---------------------------
(***************************************************************************)
(* Between an adapter and its broker, model-checked side by side: the      *)
(* connection of a KisAdapter, and the orders sent through either adapter. *)
(* They share no variable, so a behaviour picks one of them and leaves the *)
(* other alone.                                                            *)
(***************************************************************************)
EXTENDS KisConnection, OrderBook

CONSTANTS x, y

TwoSymbols == {x, y}

VARIABLE part

brokerVars == <<part, vars, bookVars>>

\* The part a behaviour is not about has one initial state.
MCInit ==
    /\ part \in {"connection", "orders"}
    /\ Init /\ BookInit
    /\ part # "orders" => adapter = "kis"

MCNext ==
    /\ UNCHANGED part
    /\ \/ part = "connection" /\ Next /\ UNCHANGED bookVars
       \/ part = "orders" /\ BookNext /\ UNCHANGED vars

\* The fairness of KisConnection and of OrderBook, each in the behaviours about it.
MCFairness ==
    /\ WF_vars(part = "connection" /\ TaskStep)
    /\ SF_bookVars(part = "orders" /\ Snapshot)
    /\ WF_bookVars(part = "orders" /\ (CompareBooks \/ QueryFails))
    /\ SF_bookVars(part = "orders" /\ CompareExactly)
    /\ \A c \in Callers :
          WF_bookVars(part = "orders" /\ (BrokerAnswers(c) \/ PlaceFails(c) \/ CancelFails(c)))

MCSpec == MCInit /\ [][MCNext]_brokerVars /\ MCFairness
=============================================================================
