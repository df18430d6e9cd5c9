---------------------------- MODULE MCLocalServer ----------------------------
(***************************************************************************)
(* Five parts of the local server process, model-checked side by side: the *)
(* life of engines and brokers, alerts, updates, calls to the broker, and  *)
(* the Kiwoom connection.  They share no variable, so a behaviour picks    *)
(* one of them and leaves the others alone.                                *)
(***************************************************************************)
EXTENDS EngineLifecycle, Alerts, Updater, BrokerCalls, KiwoomConnection

VARIABLE part

localVars == <<part, lifeVars, alertVars, updVars, callVars, kiwoomVars>>

\* The parts a behaviour is not about have one initial state.
MCInit ==
    /\ part \in {"lifecycle", "alerts", "updates", "calls", "kiwoom"}
    /\ LifecycleInit /\ AlertsInit /\ UpdaterInit
    /\ CallsInit /\ KiwoomInit
    /\ part # "lifecycle" => broker = None
    /\ part # "alerts" => key = "condition" /\ market = "closed"
    /\ part # "updates" => published = 1 /\ night

MCNext ==
    /\ UNCHANGED part
    /\ \/ /\ part = "lifecycle"
          /\ LifecycleNext
          /\ UNCHANGED <<alertVars, updVars, callVars, kiwoomVars>>
       \/ /\ part = "alerts"
          /\ AlertsNext
          /\ UNCHANGED <<lifeVars, updVars, callVars, kiwoomVars>>
       \/ /\ part = "updates"
          /\ UpdaterNext
          /\ UNCHANGED <<lifeVars, alertVars, callVars, kiwoomVars>>
       \/ /\ part = "calls"
          /\ CallsNext
          /\ UNCHANGED <<lifeVars, alertVars, updVars, kiwoomVars>>
       \/ /\ part = "kiwoom"
          /\ KiwoomNext
          /\ UNCHANGED <<lifeVars, alertVars, updVars, callVars>>

\* The fairness each module states, in the behaviours that are about it.
MCFairness ==
    /\ WF_alertVars(part = "alerts" /\ Evaluate)
    /\ WF_alertVars(part = "alerts" /\ "check" \in due /\ Check)
    /\ WF_alertVars(part = "alerts" /\ Minute)
    /\ WF_updVars(part = "updates" /\ ScriptStep)
    /\ \A c \in Calls :
          /\ WF_callVars(part = "calls" /\ BeginCall(c, "balance"))
          /\ WF_callVars(part = "calls" /\ CallStep(c))
          /\ SF_callVars(part = "calls" /\ FetchToken(c))
    /\ WF_callVars(part = "calls" /\ Tick)
    /\ WF_kiwoomVars(part = "kiwoom" /\ BackOffEnds)
    /\ \A p \in Connectors : WF_kiwoomVars(part = "kiwoom" /\ Attempt(p))
    /\ WF_kiwoomVars(part = "kiwoom" /\ Poll)

MCSpec == MCInit /\ [][MCNext]_localVars /\ MCFairness
=============================================================================
