--------------------------- MODULE EngineLifecycle ---------------------------
(***************************************************************************)
(* The life of strategy engines and broker connections in one local server *)
(* process: the routes that start and stop the engine and reconnect the    *)
(* broker (trading.py, broker.py), StrategyEngine.start and stop, the      *)
(* remote commands (_command_handler.py).                                  *)
(*                                                                         *)
(* app.state.engine and app.state.broker are shared by all requests; a     *)
(* request reads them, awaits, and goes on with what it has read.  Each    *)
(* action is the code between two awaits.  Names ending in "Mutant" are    *)
(* faulty variants of the definition that follows them.                    *)
(***************************************************************************)
EXTENDS Naturals, FiniteSets

CONSTANTS
    Requests,    \* HTTP requests that may be under way at the same time
    Engines,     \* StrategyEngine objects, reused when nothing refers to them
    Brokers,     \* broker adapter objects, reused likewise
    None,
    MaxFaults    \* bound: failed starts and reconnects, lost connections

ASSUME LifecycleAssumption == None \notin Engines \union Brokers /\ MaxFaults \in Nat

VARIABLES
    engine,      \* app.state.engine
    broker,      \* app.state.broker
    connected,   \* brokers whose is_connected is true
    running,     \* engines with _running
    ticking,     \* engines whose scheduler calls evaluate_all every minute
    stopping,    \* engines with a kill switch set
    bound,       \* bound[e]: the broker the engine was made with
    pc,          \* pc[r]: the await a request stands at
    mine,        \* mine[r]: the engine or broker it works on
    reported,    \* _engine_running: what heartbeats say
    watchEngine, \* the watchdog's engine
    killAcked,   \* has a kill been acknowledged and no arm since?
    overlapped,  \* was a request handled while another one was under way?
    faults       \* faults so far

lifeVars == <<engine, broker, connected, running, ticking, stopping, bound, pc, mine,
              reported, watchEngine, killAcked, overlapped, faults>>

LifecycleTypeOK ==
    /\ engine \in Engines \union {None}
    /\ broker \in Brokers \union {None}
    /\ connected \subseteq Brokers
    /\ running \subseteq Engines
    /\ ticking \subseteq Engines
    /\ stopping \subseteq Engines
    /\ bound \in [Engines -> Brokers \union {None}]
    /\ pc \in [Requests -> {"idle", "connecting", "starting", "syncing",
                            "disconnecting", "reconnecting"}]
    /\ mine \in [Requests -> Engines \union Brokers \union {None}]
    /\ reported \in BOOLEAN
    /\ watchEngine \in Engines \union {None}
    /\ killAcked \in BOOLEAN
    /\ overlapped \in BOOLEAN
    /\ faults \in 0 .. MaxFaults

\* The server has started; its automatic connection succeeded or not.
LifecycleInit ==
    /\ engine = None
    /\ broker \in Brokers \union {None}
    /\ connected = {broker} \ {None}
    /\ running = {}
    /\ ticking = {}
    /\ stopping = {}
    /\ bound = [e \in Engines |-> None]
    /\ pc = [r \in Requests |-> "idle"]
    /\ mine = [r \in Requests |-> None]
    /\ reported = FALSE
    /\ watchEngine = None
    /\ killAcked = FALSE
    /\ overlapped = FALSE
    /\ faults = 0

----------------------------------------------------------------------------
Idle(r) == pc[r] = "idle"
Busy == {r \in Requests : ~Idle(r)}

Fault == faults < MaxFaults /\ faults' = faults + 1

\* No variable and no request refers to the object any more.
UnusedEngine(e) ==
    /\ e \notin {engine, watchEngine}
    /\ e \notin running \union ticking
    /\ \A r \in Requests : mine[r] # e

UnusedBroker(b) ==
    /\ b # broker
    /\ b \notin connected
    /\ \A r \in Requests : mine[r] # b
    /\ \A e \in Engines : bound[e] = b => UnusedEngine(e)

\* "engine and engine.is_running": asked by start, stop and reconnect.
EngineRuns == engine \in running

----------------------------------------------------------------------------
(* POST /strategy/start                                                    *)

\* StrategyEngine is made with the rules of this moment and put into app.state;
\* its start() sets _running and goes on to its first await.
NewEngine(r, b) ==
    \E e \in Engines :
        /\ UnusedEngine(e)
        /\ engine' = e
        /\ running' = running \union {e}
        /\ stopping' = stopping \ {e}
        /\ bound' = [bound EXCEPT ![e] = b]
        /\ pc' = [pc EXCEPT ![r] = "starting"]
        /\ mine' = [mine EXCEPT ![r] = e]

\* The broker in app.state is used when it is connected, else one is made.
BeginStart(r) ==
    /\ Idle(r)
    /\ ~EngineRuns
    /\ IF broker # None /\ broker \in connected
         THEN NewEngine(r, broker)
         ELSE /\ \E b \in Brokers :
                    /\ UnusedBroker(b)
                    /\ mine' = [mine EXCEPT ![r] = b]
              /\ pc' = [pc EXCEPT ![r] = "connecting"]
              /\ UNCHANGED <<engine, running, stopping, bound>>
    /\ overlapped' = (overlapped \/ Busy # {})
    /\ UNCHANGED <<broker, connected, ticking, reported, watchEngine, killAcked, faults>>

\* connect() returns: the broker replaces whatever app.state holds by now, and the
\* engine is made; whether one runs is not asked again.
StartConnected(r) ==
    /\ pc[r] = "connecting"
    /\ connected' = connected \union {mine[r]}
    /\ broker' = mine[r]
    /\ NewEngine(r, mine[r])
    /\ UNCHANGED <<ticking, reported, watchEngine, killAcked, overlapped, faults>>

Leave(r) ==
    /\ pc' = [pc EXCEPT ![r] = "idle"]
    /\ mine' = [mine EXCEPT ![r] = None]

StartRefused(r) ==
    /\ pc[r] = "connecting"
    /\ Fault
    /\ Leave(r)
    /\ UNCHANGED <<engine, broker, connected, running, ticking, stopping, bound, reported,
                   watchEngine, killAcked, overlapped>>

\* Indicators and subscriptions are done: the scheduler starts, also when the engine
\* has been stopped meanwhile.
StartScheduler(r) ==
    /\ pc[r] = "starting"
    /\ ticking' = ticking \union {mine[r]}
    /\ pc' = [pc EXCEPT ![r] = "syncing"]
    /\ UNCHANGED <<engine, broker, connected, running, stopping, bound, mine, reported,
                   watchEngine, killAcked, overlapped, faults>>

\* Indicators or the subscription raise: the request fails, the engine stays in
\* app.state and counts as running.
StartFails(r) ==
    /\ pc[r] = "starting"
    /\ Fault
    /\ Leave(r)
    /\ UNCHANGED <<engine, broker, connected, running, ticking, stopping, bound, reported,
                   watchEngine, killAcked, overlapped>>

\* Positions are synchronised: the watchdog and the heartbeat learn of the engine.
FinishStart(r) ==
    /\ pc[r] = "syncing"
    /\ watchEngine' = mine[r]
    /\ reported' = TRUE
    /\ Leave(r)
    /\ UNCHANGED <<engine, broker, connected, running, ticking, stopping, bound,
                   killAcked, overlapped, faults>>

----------------------------------------------------------------------------
(* POST /strategy/stop, POST /broker/reconnect                             *)

StoppedMutant(e) == UNCHANGED <<running, ticking>>

\* StrategyEngine.stop has no await of its own.
Stopped(e) ==
    /\ running' = running \ {e}
    /\ ticking' = ticking \ {e}

\* The watchdog keeps the engine it was given.
StopEngine ==
    /\ EngineRuns
    /\ Stopped(engine)
    /\ engine' = None
    /\ reported' = FALSE
    /\ overlapped' = (overlapped \/ Busy # {})
    /\ UNCHANGED <<broker, connected, stopping, bound, pc, mine, watchEngine, killAcked,
                   faults>>

\* Refused while an engine runs, which is asked once, before the first await.
BeginReconnect(r) ==
    /\ Idle(r)
    /\ ~EngineRuns
    /\ IF broker # None
         THEN /\ pc' = [pc EXCEPT ![r] = "disconnecting"]
              /\ mine' = [mine EXCEPT ![r] = broker]
         ELSE \E b \in Brokers :
              /\ UnusedBroker(b)
              /\ pc' = [pc EXCEPT ![r] = "reconnecting"]
              /\ mine' = [mine EXCEPT ![r] = b]
    /\ overlapped' = (overlapped \/ Busy # {})
    /\ UNCHANGED <<engine, broker, connected, running, ticking, stopping, bound, reported,
                   watchEngine, killAcked, faults>>

\* The old broker is gone, app.state.broker is emptied whatever it holds by now,
\* and a new one connects.
Disconnected(r) ==
    /\ pc[r] = "disconnecting"
    /\ connected' = connected \ {mine[r]}
    /\ broker' = None
    /\ \E b \in Brokers :
        /\ UnusedBroker(b)
        /\ mine' = [mine EXCEPT ![r] = b]
    /\ pc' = [pc EXCEPT ![r] = "reconnecting"]
    /\ UNCHANGED <<engine, running, ticking, stopping, bound, reported, watchEngine,
                   killAcked, overlapped, faults>>

Reconnected(r) ==
    /\ pc[r] = "reconnecting"
    /\ connected' = connected \union {mine[r]}
    /\ broker' = mine[r]
    /\ Leave(r)
    /\ UNCHANGED <<engine, running, ticking, stopping, bound, reported, watchEngine,
                   killAcked, overlapped, faults>>

ReconnectFails(r) ==
    /\ pc[r] = "reconnecting"
    /\ Fault
    /\ Leave(r)
    /\ UNCHANGED <<engine, broker, connected, running, ticking, stopping, bound, reported,
                   watchEngine, killAcked, overlapped>>

\* A broker loses its connection, or its own reconnecting task brings it back.
BrokerDrops(b) ==
    /\ b \in connected
    /\ Fault
    /\ connected' = connected \ {b}
    /\ UNCHANGED <<engine, broker, running, ticking, stopping, bound, pc, mine, reported,
                   watchEngine, killAcked, overlapped>>

----------------------------------------------------------------------------
(* Kill switch: local and remote.  Without an engine nothing is changed and *)
(* the command is acknowledged as done all the same.                        *)

Kill ==
    /\ stopping' = stopping \union ({engine} \ {None})
    /\ killAcked' = TRUE
    /\ UNCHANGED <<engine, broker, connected, running, ticking, bound, pc, mine, reported,
                   watchEngine, overlapped, faults>>

\* arm, and kill with mode OFF; a remote arm without an engine is refused.
Arm ==
    /\ stopping' = stopping \ {engine}
    /\ killAcked' = FALSE
    /\ UNCHANGED <<engine, broker, connected, running, ticking, bound, pc, mine, reported,
                   watchEngine, overlapped, faults>>

----------------------------------------------------------------------------
RequestStep(r) ==
    \/ StartConnected(r) \/ StartRefused(r)
    \/ StartScheduler(r) \/ StartFails(r) \/ FinishStart(r)
    \/ Disconnected(r) \/ Reconnected(r) \/ ReconnectFails(r)

LifecycleNext ==
    \/ \E r \in Requests : BeginStart(r) \/ BeginReconnect(r) \/ RequestStep(r)
    \/ StopEngine
    \/ Kill \/ Arm
    \/ \E b \in Brokers : BrokerDrops(b)

LifecycleSpec == LifecycleInit /\ [][LifecycleNext]_lifeVars

----------------------------------------------------------------------------
Trades(e) == e \in ticking /\ e \in running

\* The engine that trades is the one stop, kill and the heartbeat reach, and it
\* trades through the broker that kill and manual orders use.
TradesWhatStateShows ==
    ~overlapped => \A e \in Engines : Trades(e) => e = engine /\ bound[e] = broker

\* What heartbeats report as a running engine does trade.
ReportIsTrue == ~overlapped /\ reported => engine # None /\ Trades(engine)

\* Requests that have gone past their question whether an engine runs
Connecting(r) == pc[r] \in {"connecting", "disconnecting", "reconnecting"}
Starting(r) == pc[r] \in {"starting", "syncing"}

\* What a request works on.
WorksOn ==
    \A r \in Requests : /\ Connecting(r) => mine[r] \in Brokers
                        /\ Starting(r) => mine[r] \in Engines

\* What a request found before its await still holds after it.
StillSo ==
    ~overlapped =>
        /\ \A r, s \in Busy : r = s
        /\ \A r \in Requests : /\ Connecting(r) => ~EngineRuns
                               /\ Starting(r) => mine[r] = engine /\ EngineRuns
                               /\ pc[r] = "syncing" => engine \in ticking
        /\ ticking \subseteq running /\ running \subseteq {engine}
        /\ EngineRuns => bound[engine] = broker
        /\ reported => engine \in ticking

\* As long as no request is handled while another is under way.
LifecycleInv == LifecycleTypeOK /\ WorksOn /\ StillSo /\ TradesWhatStateShows /\ ReportIsTrue

\* "State is changed even without an engine": after an acknowledged kill nothing
\* trades unguarded until the next arm.
KillAckHolds == killAcked => \A e \in Engines : Trades(e) => e \in stopping
=============================================================================
