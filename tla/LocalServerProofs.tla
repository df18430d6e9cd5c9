-------------------------- MODULE LocalServerProofs --------------------------
(***************************************************************************)
(* Theorems about four of the parts that MCLocalServer checks, for every   *)
(* value of their constants: the life of engines and brokers, alerts,      *)
(* updates, and calls to the broker.  The fifth, the Kiwoom connection,    *)
(* has KiwoomConnectionProofs.                                             *)
(***************************************************************************)
EXTENDS EngineLifecycle, Alerts, Updater, BrokerCalls, SequenceLemmas

----------------------------------------------------------------------------
(* EngineLifecycle                                                         *)

USE LifecycleAssumption

LifecycleCore == LifecycleTypeOK /\ WorksOn /\ StillSo

\* What is seen from outside follows.
LEMMA CoreImpliesInv == LifecycleCore => LifecycleInv
<1>1. LifecycleCore => TradesWhatStateShows
  BY DEF LifecycleCore, LifecycleTypeOK, StillSo, TradesWhatStateShows, Trades, EngineRuns
<1>2. LifecycleCore => ReportIsTrue
  BY DEF LifecycleCore, LifecycleTypeOK, StillSo, ReportIsTrue, Trades, EngineRuns
<1> QED
  BY <1>1, <1>2 DEF LifecycleCore, LifecycleInv

LEMMA LifecycleInitially ==
    ASSUME LifecycleInit
    PROVE  LifecycleCore
<1>1. reported \in BOOLEAN /\ killAcked \in BOOLEAN /\ overlapped \in BOOLEAN
  BY Zenon DEF LifecycleInit
<1>2. LifecycleTypeOK
  BY <1>1 DEF LifecycleInit, LifecycleTypeOK
<1>3. WorksOn /\ StillSo
  BY DEF LifecycleInit, WorksOn, StillSo, Busy, Idle, Connecting, Starting, EngineRuns
<1> QED
  BY <1>2, <1>3 DEF LifecycleCore

\* A new engine is put in the place of one that does not run.
LEMMA NewEngineKeeps ==
    ASSUME LifecycleCore, NEW r \in Requests, NEW b \in Brokers,
           NewEngine(r, b), broker' = b,
           pc[r] = "connecting" \/ (Idle(r) /\ ~EngineRuns),
           connected' \subseteq Brokers,
           overlapped' \in BOOLEAN,
           ~overlapped' => ~overlapped /\ Busy \subseteq {r},
           UNCHANGED <<ticking, reported, watchEngine, killAcked, faults>>
    PROVE  LifecycleCore'
<1> USE DEF LifecycleCore
<1> PICK e \in Engines : /\ UnusedEngine(e)
                         /\ engine' = e
                         /\ running' = running \union {e}
                         /\ stopping' = stopping \ {e}
                         /\ bound' = [bound EXCEPT ![e] = b]
                         /\ pc' = [pc EXCEPT ![r] = "starting"]
                         /\ mine' = [mine EXCEPT ![r] = e]
  BY Zenon DEF NewEngine
<1>1. LifecycleTypeOK'
  BY DEF LifecycleTypeOK
<1>2. WorksOn'
  BY DEF LifecycleTypeOK, WorksOn, Connecting, Starting
<1>3. SUFFICES ASSUME ~overlapped'
               PROVE  StillSo'
  BY <1>1, <1>2 DEF StillSo
<1>4. ~overlapped /\ \A s \in Requests : s # r => Idle(s)
  BY <1>3 DEF Busy
<1>5. running = {} /\ ticking = {} /\ ~reported
  BY <1>4 DEF StillSo, EngineRuns, Connecting, LifecycleTypeOK
<1> QED
  BY <1>4, <1>5 DEF StillSo, LifecycleTypeOK, Busy, Idle, Connecting, Starting, EngineRuns

\* POST /strategy/start
LEMMA StartKeeps ==
    ASSUME LifecycleCore, NEW r \in Requests,
           \/ BeginStart(r) \/ StartConnected(r) \/ StartRefused(r)
           \/ StartScheduler(r) \/ StartFails(r) \/ FinishStart(r)
    PROVE  LifecycleCore'
<1> USE DEF LifecycleCore
<1>1. CASE BeginStart(r)
  <2>1. overlapped' \in BOOLEAN
    BY <1>1, Zenon DEF BeginStart
  <2>2. ~overlapped' => ~overlapped /\ Busy = {}
    BY <1>1 DEF BeginStart
  <2>3. CASE broker # None /\ broker \in connected
    <3>1. NewEngine(r, broker) /\ broker' = broker /\ connected' = connected
      BY <1>1, <2>3, Zenon DEF BeginStart
    <3>2. /\ Idle(r) /\ ~EngineRuns
          /\ UNCHANGED <<ticking, reported, watchEngine, killAcked, faults>>
      BY <1>1, Zenon DEF BeginStart
    <3> QED
      BY <2>1, <2>2, <2>3, <3>1, <3>2, NewEngineKeeps DEF LifecycleTypeOK
  <2>4. CASE ~(broker # None /\ broker \in connected)
    <3>1. LifecycleTypeOK'
      BY <1>1, <2>1, <2>4 DEF BeginStart, LifecycleTypeOK
    <3>2. WorksOn' /\ StillSo'
      BY <1>1, <2>2, <2>4 DEF BeginStart, LifecycleTypeOK, WorksOn, StillSo, Busy, Idle,
                              Connecting, Starting, EngineRuns
    <3> QED
      BY <3>1, <3>2
  <2> QED
    BY <2>3, <2>4
<1>2. CASE StartConnected(r)
  <2>1. /\ NewEngine(r, mine[r]) /\ broker' = mine[r] /\ pc[r] = "connecting"
        /\ connected' = connected \union {mine[r]}
        /\ UNCHANGED <<ticking, reported, watchEngine, killAcked, overlapped, faults>>
    BY <1>2, Zenon DEF StartConnected
  <2>2. mine[r] \in Brokers
    BY <2>1 DEF WorksOn, Connecting
  <2>3. ~overlapped => Busy \subseteq {r}
    BY <2>1 DEF StillSo, Busy, Idle
  <2> QED
    BY <2>1, <2>2, <2>3, NewEngineKeeps DEF LifecycleTypeOK
<1>3. CASE StartRefused(r) \/ StartFails(r)
  BY <1>3 DEF StartRefused, StartFails, Leave, Fault, LifecycleTypeOK, WorksOn, StillSo,
              Busy, Idle, Connecting, Starting, EngineRuns
<1>4. CASE StartScheduler(r)
  BY <1>4 DEF StartScheduler, LifecycleTypeOK, WorksOn, StillSo, Busy, Idle, Connecting,
              Starting, EngineRuns
<1>5. CASE FinishStart(r)
  <2>1. reported' \in BOOLEAN
    BY <1>5, Zenon DEF FinishStart
  <2> QED
    BY <1>5, <2>1 DEF FinishStart, Leave, LifecycleTypeOK, WorksOn, StillSo, Busy, Idle,
                      Connecting, Starting, EngineRuns
<1> QED
  BY <1>1, <1>2, <1>3, <1>4, <1>5

\* POST /broker/reconnect
LEMMA ReconnectKeeps ==
    ASSUME LifecycleCore, NEW r \in Requests,
           BeginReconnect(r) \/ Disconnected(r) \/ Reconnected(r) \/ ReconnectFails(r)
    PROVE  LifecycleCore'
<1> USE DEF LifecycleCore
<1>1. CASE BeginReconnect(r)
  <2>1. overlapped' \in BOOLEAN
    BY <1>1, Zenon DEF BeginReconnect
  <2>2. ~overlapped' => ~overlapped /\ Busy = {}
    BY <1>1 DEF BeginReconnect
  <2>3. LifecycleTypeOK'
    BY <1>1, <2>1 DEF BeginReconnect, LifecycleTypeOK
  <2>4. WorksOn' /\ StillSo'
    BY <1>1, <2>2 DEF BeginReconnect, LifecycleTypeOK, WorksOn, StillSo, Busy, Idle,
                      Connecting, Starting, EngineRuns
  <2> QED
    BY <2>3, <2>4
<1>2. CASE Disconnected(r)
  BY <1>2 DEF Disconnected, LifecycleTypeOK, WorksOn, StillSo, Busy, Idle, Connecting,
              Starting, EngineRuns
<1>3. CASE Reconnected(r)
  BY <1>3 DEF Reconnected, Leave, LifecycleTypeOK, WorksOn, StillSo, Busy, Idle,
              Connecting, Starting, EngineRuns
<1>4. CASE ReconnectFails(r)
  BY <1>4 DEF ReconnectFails, Leave, Fault, LifecycleTypeOK, WorksOn, StillSo, Busy, Idle,
              Connecting, Starting, EngineRuns
<1> QED
  BY <1>1, <1>2, <1>3, <1>4

\* The steps that await nothing.
LEMMA OthersKeep ==
    ASSUME LifecycleCore,
           \/ StopEngine \/ Kill \/ Arm
           \/ \E b \in Brokers : BrokerDrops(b)
    PROVE  LifecycleCore'
<1> USE DEF LifecycleCore
<1>1. CASE StopEngine
  <2>1. overlapped' \in BOOLEAN /\ reported' \in BOOLEAN /\ ~reported'
    BY <1>1, Zenon DEF StopEngine
  <2>2. ~overlapped' => ~overlapped /\ Busy = {}
    BY <1>1 DEF StopEngine
  <2>3. LifecycleTypeOK'
    BY <1>1, <2>1 DEF StopEngine, Stopped, LifecycleTypeOK
  <2>4. WorksOn' /\ StillSo'
    BY <1>1, <2>1, <2>2 DEF StopEngine, Stopped, LifecycleTypeOK, WorksOn, StillSo, Busy,
                            Idle, Connecting, Starting, EngineRuns
  <2> QED
    BY <2>3, <2>4
<1>2. CASE Kill
  <2>1. killAcked' \in BOOLEAN
    BY <1>2, Zenon DEF Kill
  <2> QED
    BY <1>2, <2>1 DEF Kill, LifecycleTypeOK, WorksOn, StillSo, Busy, Idle, Connecting,
                      Starting, EngineRuns
<1>3. CASE Arm
  <2>1. killAcked' \in BOOLEAN
    BY <1>3, Zenon DEF Arm
  <2> QED
    BY <1>3, <2>1 DEF Arm, LifecycleTypeOK, WorksOn, StillSo, Busy, Idle, Connecting,
                      Starting, EngineRuns
<1>4. CASE \E b \in Brokers : BrokerDrops(b)
  BY <1>4 DEF BrokerDrops, Fault, LifecycleTypeOK, WorksOn, StillSo, Busy, Idle, Connecting,
              Starting, EngineRuns
<1> QED
  BY <1>1, <1>2, <1>3, <1>4

LEMMA LifecycleStutter ==
    ASSUME LifecycleCore, UNCHANGED lifeVars
    PROVE  LifecycleCore'
  BY DEF LifecycleCore, lifeVars, LifecycleTypeOK, WorksOn, StillSo, Busy, Idle, Connecting, Starting,
         EngineRuns

\* Requests that are handled one after the other leave one engine trading, the one
\* that stop, kill and the heartbeat reach, through the broker in app.state; a lost
\* connection, a failed start and a failed reconnect included.
THEOREM LifecycleInvariant == LifecycleSpec => []LifecycleInv
<1>1. LifecycleInit => LifecycleCore
  BY LifecycleInitially
<1>2. LifecycleCore /\ [LifecycleNext]_lifeVars => LifecycleCore'
  BY StartKeeps, ReconnectKeeps, OthersKeep, LifecycleStutter DEF LifecycleNext, RequestStep
<1>3. LifecycleCore => LifecycleInv
  BY CoreImpliesInv
<1> QED
  BY <1>1, <1>2, <1>3, PTL DEF LifecycleSpec

HIDE LifecycleAssumption

----------------------------------------------------------------------------
(* Alerts                                                                  *)

LEMMA AlertsInitially == AlertsInit => AlertsInv
<1> SUFFICES ASSUME AlertsInit  PROVE AlertsInv
  OBVIOUS
<1>1. NoAlert \in Alert /\ NoAlert.age = Cooldown
  BY AlertsAssumption DEF NoAlert, Alert
<1>2. hasBroker \in BOOLEAN
  BY Zenon DEF AlertsInit, OnlyFor
<1>3. AlertsTypeOK
  <2>1. /\ Never \in 0 .. Never /\ 0 \in 0 .. Grace /\ 0 \in 0 .. Longest /\ 0 \in 0 .. MaxLevel
        /\ 0 \in 0 .. Longest + MaxLevel
    BY AlertsAssumption DEF Never
  <2>2. market \in {"closed", "syncing", "open"}
    BY DEF AlertsInit
  <2> QED  BY <1>1, <1>2, <2>1, <2>2, Zenon DEF AlertsInit, AlertsTypeOK
<1> QED
  BY <1>1, <1>3, AlertsAssumption DEF AlertsInit, AlertsInv, WhatIsSeenWasTold, FiredWasTold

\* What AlertMonitor does with a value, or when there is nothing to tell.
LEMMA FireKeeps ==
    ASSUME AlertsInv, NEW value \in 0 .. Longest + MaxLevel, Fire(value) \/ Silent
    PROVE  /\ fired' \in Alert /\ told' \in Alert /\ lost' \in BOOLEAN
           /\ seen' \in 0 .. Longest + MaxLevel
           /\ WhatIsSeenWasTold' /\ FiredWasTold'
<1> USE AlertsAssumption DEF AlertsInv
<1>1. /\ fired \in Alert /\ told \in Alert /\ lost \in BOOLEAN
      /\ seen \in 0 .. Longest + MaxLevel
  BY DEF AlertsTypeOK
<1>2. CASE Silent
  BY <1>1, <1>2 DEF Silent, WhatIsSeenWasTold, FiredWasTold
<1>3. CASE Fire(value) /\ ShouldFire(value)
  <2>1. seen' = value /\ fired' = [age |-> 0, value |-> value] /\ lost' \in BOOLEAN
        /\ told' = IF lost' THEN told ELSE fired'
    BY <1>3 DEF Fire
  <2>2. [age |-> 0, value |-> value] \in Alert
    BY DEF Alert
  <2>3. told' \in Alert /\ (~lost' => told' = fired')
    BY <1>1, <2>1, <2>2
  <2>4. WhatIsSeenWasTold'
    BY <2>1, <2>3 DEF WhatIsSeenWasTold
  <2> QED  BY <2>1, <2>2, <2>3, <2>4 DEF FiredWasTold
<1>4. CASE Fire(value) /\ ~ShouldFire(value)
  <2>1. seen' = value /\ UNCHANGED <<fired, told, lost>>
    BY <1>4 DEF Fire
  <2>2. fired.age < Cooldown /\ 2 * value <= 3 * fired.value
    BY <1>1, <1>4 DEF ShouldFire, Alert
  <2>3. WhatIsSeenWasTold'
    BY <2>1, <2>2 DEF WhatIsSeenWasTold, FiredWasTold
  <2>4. FiredWasTold'
    BY <2>1 DEF FiredWasTold
  <2> QED  BY <1>1, <2>1, <2>3, <2>4
<1> QED  BY <1>2, <1>3, <1>4

\* The engine's cycle and the watchdog's check.
LEMMA LookKeeps ==
    ASSUME AlertsInv, Evaluate \/ Check
    PROVE  AlertsInv'
<1> USE AlertsAssumption DEF AlertsInv
<1>1. CASE Evaluate
  <2>1. \E value \in 0 .. Longest + MaxLevel : Fire(value) \/ Silent
    <3>1. level \in 0 .. Longest + MaxLevel
      BY DEF AlertsTypeOK
    <3> QED  BY <1>1, <3>1 DEF Evaluate, CheckAll
  <2>2. elapsed' \in 0 .. Never
    <3>1. elapsed \in 0 .. Never /\ 0 \in 0 .. Never
      BY DEF AlertsTypeOK, Never
    <3>2. elapsed' \in {elapsed, 0}
      BY <1>1 DEF Evaluate
    <3> QED  BY <3>1, <3>2
  <2>3. due' \subseteq {"evaluate", "check"}
        /\ UNCHANGED <<key, market, watched, up, hasBroker, answers, fails, level, enabled, applied>>
    BY <1>1 DEF Evaluate, AlertsTypeOK
  <2> QED  BY <2>1, <2>2, <2>3, FireKeeps DEF AlertsTypeOK
<1>2. CASE Check
  <2>1. fails' \in 0 .. Longest
    BY <1>2 DEF Check, FailsAfter, AlertsTypeOK
  <2>2. \E value \in 0 .. Longest + MaxLevel : Fire(value) \/ Silent
    <3>1. CASE up < Grace \/ ~(key = "engine_health" /\ EngineSilent)
      <4>1. Silent \/ Fire(fails')
        BY <1>2, <3>1 DEF Check
      <4>2. fails' \in 0 .. Longest + MaxLevel
        BY <2>1
      <4> QED  BY <4>1, <4>2
    <3>2. CASE ~(up < Grace) /\ key = "engine_health" /\ EngineSilent
      <4>1. Fire(elapsed)
        BY <1>2, <3>2 DEF Check
      <4>2. elapsed \in 0 .. Longest + MaxLevel
        BY <3>2 DEF AlertsTypeOK, EngineSilent, Overdue, Never
      <4> QED  BY <4>1, <4>2
    <3> QED  BY <3>1, <3>2
  <2>3. due' \subseteq {"evaluate", "check"}
        /\ UNCHANGED <<key, market, watched, elapsed, up, hasBroker, answers, level, enabled, applied>>
    BY <1>2 DEF Check, AlertsTypeOK
  <2> QED  BY <2>1, <2>2, <2>3, FireKeeps DEF AlertsTypeOK
<1> QED  BY <1>1, <1>2

\* The next minute: all ages grow alike.
LEMMA MinuteKeeps ==
    ASSUME AlertsInv, Minute
    PROVE  AlertsInv'
<1> USE AlertsAssumption DEF AlertsInv
<1>1. ASSUME NEW alert \in Alert
      PROVE  /\ Older(alert) \in Alert
             /\ Older(alert).age < Cooldown => alert.age < Cooldown
  BY DEF Older, AtMost, Alert
<1>2. fired' = Older(fired) /\ told' = Older(told) /\ seen' = 0
      /\ UNCHANGED <<key, watched, hasBroker, fails, enabled, applied, lost>>
  BY DEF Minute
<1>3. fired' \in Alert /\ told' \in Alert /\ (fired'.age < Cooldown => fired.age < Cooldown)
  BY <1>1, <1>2 DEF AlertsTypeOK
<1>4. market' \in {"closed", "syncing", "open"} /\ due' = {"evaluate", "check"}
  BY DEF Minute, AlertsTypeOK
<1>5. elapsed' \in 0 .. Never
  BY DEF Minute, AlertsTypeOK, AtMost, Never
<1>6. up' \in 0 .. Grace
  BY DEF Minute, AlertsTypeOK, AtMost
<1>7. level' \in 0 .. MaxLevel /\ answers' \in BOOLEAN
  BY DEF Minute, OnlyFor
<1>8. AlertsTypeOK'
  BY <1>2, <1>3, <1>4, <1>5, <1>6, <1>7 DEF AlertsTypeOK
<1>9. WhatIsSeenWasTold'
  BY <1>2 DEF WhatIsSeenWasTold
<1>10. FiredWasTold'
  BY <1>2, <1>3 DEF FiredWasTold
<1> QED  BY <1>8, <1>9, <1>10

\* The engine and the settings.
LEMMA EngineStepKeeps ==
    ASSUME AlertsInv, StartEngine \/ EngineChanges \/ SaveSettings
    PROVE  AlertsInv'
<1> USE AlertsAssumption DEF AlertsInv
<1>1. CASE StartEngine
  <2>1. NoAlert \in Alert /\ ~(NoAlert.age < Cooldown) /\ Never \in 0 .. Never
    BY DEF NoAlert, Alert, Never
  <2>2. fired' \in {NoAlert, fired}
    BY <1>1 DEF StartEngine
  <2>3. /\ watched' = "running" /\ elapsed' = Never /\ applied' = enabled
        /\ UNCHANGED <<key, market, up, hasBroker, answers, fails, level, enabled, due, told,
                       lost, seen>>
    BY <1>1 DEF StartEngine
  <2>4. AlertsTypeOK'
    BY <2>1, <2>2, <2>3 DEF AlertsTypeOK
  <2>5. WhatIsSeenWasTold'
    BY <2>3 DEF WhatIsSeenWasTold
  <2>6. FiredWasTold'
    BY <2>1, <2>2, <2>3 DEF FiredWasTold
  <2> QED  BY <2>4, <2>5, <2>6
<1>2. CASE EngineChanges
  <2>1. watched' \in {"running", "killed", "hung", "stopped"}
        /\ UNCHANGED <<key, market, elapsed, up, hasBroker, answers, fails, level, enabled,
                       applied, due, fired, told, lost, seen>>
    BY <1>2 DEF EngineChanges, EngineBecomes
  <2> QED  BY <2>1 DEF AlertsTypeOK, WhatIsSeenWasTold, FiredWasTold
<1>3. CASE SaveSettings
  <2>1. enabled' \in BOOLEAN
    BY <1>3, Zenon DEF SaveSettings
  <2> QED  BY <1>3, <2>1 DEF SaveSettings, AlertsTypeOK, WhatIsSeenWasTold, FiredWasTold
<1> QED  BY <1>1, <1>2, <1>3

THEOREM AlertsInvariant == AlertsSpec => []AlertsInv
<1>1. AlertsInv /\ [AlertsNext]_alertVars => AlertsInv'
  <2> SUFFICES ASSUME AlertsInv, [AlertsNext]_alertVars  PROVE AlertsInv'
    OBVIOUS
  <2>1. CASE UNCHANGED alertVars
    BY <2>1 DEF alertVars, AlertsInv, AlertsTypeOK, WhatIsSeenWasTold, FiredWasTold
  <2> QED  BY <2>1, LookKeeps, MinuteKeeps, EngineStepKeeps DEF AlertsNext
<1> QED  BY <1>1, AlertsInitially, PTL DEF AlertsSpec

----------------------------------------------------------------------------
(* Updater                                                                 *)

LEMMA ServerStartsWell ==
    ASSUME UpdaterTypeOK, ServerStarts
    PROVE  /\ server' \in {"down", "up"}
           /\ started' \subseteq Versions
           /\ info' \in [latest : 0 .. MaxVersion, file : 0 .. MaxVersion, hashed : BOOLEAN]
           /\ downloading' \in [file : 0 .. MaxVersion, hashed : BOOLEAN]
           /\ package' \in 0 .. Corrupt
           /\ marker' \in {marker, "none"}
           /\ marker' = "none" => \/ marker = "none"
                                  \/ marker = "rolled_back" /\ installed \in started'
           /\ started \subseteq started'
           /\ server' = "up" => (server = "up" \/ installed \in started')
<1>1. FromGitHub \in [latest : 0 .. MaxVersion, file : 0 .. MaxVersion, hashed : BOOLEAN]
  BY UpdaterAssumption DEF FromGitHub, UpdaterTypeOK, Versions
<1>2. NoInfo \in [latest : 0 .. MaxVersion, file : 0 .. MaxVersion, hashed : BOOLEAN]
  BY UpdaterAssumption DEF NoInfo
<1>3. NoDownload \in [file : 0 .. MaxVersion, hashed : BOOLEAN] /\ 0 \in 0 .. Corrupt
  BY UpdaterAssumption DEF NoDownload, Corrupt
<1>4. CASE ~Up /\ installed \in Versions \ Bad
  <2>1. /\ server' = "up" /\ started' = started \union {installed}
        /\ info' \in {FromGitHub, NoInfo}
        /\ downloading' = NoDownload /\ package' = 0
        /\ marker' = IF marker = "rolled_back" THEN "none" ELSE marker
    BY <1>4, Zenon DEF ServerStarts
  <2> QED  BY <1>1, <1>2, <1>3, <1>4, <2>1 DEF UpdaterTypeOK
<1>5. CASE ~(~Up /\ installed \in Versions \ Bad)
  <2>1. UNCHANGED <<server, started, info, downloading, package, marker>>
    BY <1>5, Zenon DEF ServerStarts
  <2> QED  BY <2>1 DEF UpdaterTypeOK
<1> QED  BY <1>4, <1>5

LEMMA MishapTyped ==
    ASSUME UpdaterTypeOK, Mishap
    PROVE  mishaps' \in 0 .. MaxMishaps
BY UpdaterAssumption DEF UpdaterTypeOK, Mishap

\* Initially.
LEMMA UpdaterInitially == UpdaterInit => UpdaterInv
<1> SUFFICES ASSUME UpdaterInit  PROVE UpdaterInv
  OBVIOUS
<1>1. UpdaterTypeOK
  <2>1. /\ NoInfo \in [latest : 0 .. MaxVersion, file : 0 .. MaxVersion, hashed : BOOLEAN]
        /\ NoDownload \in [file : 0 .. MaxVersion, hashed : BOOLEAN]
        /\ NoJob \in [package : 0 .. Corrupt, target : 0 .. MaxVersion, backup : 0 .. MaxVersion,
                      forced : BOOLEAN]
        /\ 1 \in Versions /\ 0 \in 0 .. Corrupt /\ 0 \in 0 .. MaxProbes /\ 0 \in 0 .. MaxMishaps
    BY UpdaterAssumption DEF Versions, Corrupt, NoInfo, NoDownload, NoJob
  <2> QED  BY <2>1 DEF UpdaterInit, UpdaterTypeOK
<1> QED  BY <1>1 DEF UpdaterInit, UpdaterInv, NoMarkerMeansStarted, OneServer, MarkerTellsScript, Up

\* Start, version information and download.
LEMMA ServingKeeps ==
    ASSUME UpdaterInv,
           \/ Boot \/ CheckUpdate \/ StartDownload \/ EndDownload
           \/ \E latest \in 1 .. published, url \in 0 .. published : OnHeartbeat(latest, url)
    PROVE  UpdaterInv'
<1> USE DEF UpdaterInv
<1>0. MaxVersion \in Nat /\ MaxVersion > 0 /\ published \in 1 .. MaxVersion
  BY UpdaterAssumption DEF UpdaterTypeOK, Versions
<1>1. CASE Boot
  <2>1. UpdaterTypeOK'
    BY <1>1, ServerStartsWell DEF Boot, UpdaterTypeOK
  <2> QED
    BY <1>1, <2>1, ServerStartsWell
    DEF Boot, UpdaterTypeOK, NoMarkerMeansStarted, OneServer, MarkerTellsScript, Up
<1>2. CASE CheckUpdate \/ StartDownload \/ EndDownload
           \/ \E latest \in 1 .. published, url \in 0 .. published : OnHeartbeat(latest, url)
  <2>1. info' \in [latest : 0 .. MaxVersion, file : 0 .. MaxVersion, hashed : BOOLEAN]
    <3>1. CASE CheckUpdate
      BY <1>0, <3>1 DEF CheckUpdate, FromGitHub
    <3>2. CASE StartDownload \/ EndDownload
      BY <3>2 DEF StartDownload, EndDownload, UpdaterTypeOK
    <3>3. CASE \E latest \in 1 .. published, url \in 0 .. published : OnHeartbeat(latest, url)
      <4> PICK latest \in 1 .. published, url \in 0 .. published : OnHeartbeat(latest, url)
        BY <3>3
      <4>1. info' = IF url = 0 THEN [info EXCEPT !.latest = latest]
                    ELSE [latest |-> latest, file |-> url, hashed |-> FALSE]
        BY DEF OnHeartbeat
      <4>2. latest \in 0 .. MaxVersion /\ url \in 0 .. MaxVersion
        BY <1>0
      <4> QED  BY <4>1, <4>2 DEF UpdaterTypeOK
    <3> QED  BY <1>2, <3>1, <3>2, <3>3
  <2>2. downloading' \in [file : 0 .. MaxVersion, hashed : BOOLEAN] /\ package' \in 0 .. Corrupt
    <3>1. CASE StartDownload
      BY <1>0, <3>1 DEF StartDownload, UpdaterTypeOK
    <3>2. CASE EndDownload
      <4>1. package' \in {downloading.file, 0, Corrupt}
        BY <3>2 DEF EndDownload
      <4>2. downloading' = NoDownload
        BY <3>2 DEF EndDownload
      <4>3. downloading.file \in 0 .. MaxVersion
        BY DEF UpdaterTypeOK
      <4> QED  BY <1>0, <4>1, <4>2, <4>3 DEF NoDownload, Corrupt
    <3>3. CASE CheckUpdate \/ \E latest \in 1 .. published, url \in 0 .. published : OnHeartbeat(latest, url)
      BY <3>3 DEF CheckUpdate, OnHeartbeat, UpdaterTypeOK
    <3> QED  BY <1>2, <3>1, <3>2, <3>3
  <2>3. mishaps' \in 0 .. MaxMishaps
    BY <1>2, MishapTyped DEF CheckUpdate, StartDownload, EndDownload, OnHeartbeat, UpdaterTypeOK
  <2>4. UNCHANGED <<installed, server, started, published, marker, script, job, probes, night,
                    brokerSet, trading, disturbed>>
    BY <1>2 DEF CheckUpdate, StartDownload, EndDownload, OnHeartbeat
  <2> QED
    BY <2>1, <2>2, <2>3, <2>4
    DEF UpdaterTypeOK, NoMarkerMeansStarted, OneServer, MarkerTellsScript, Up
<1> QED  BY <1>1, <1>2

\* The backup, the marker and the script, the end of the server.
LEMMA InstallKeeps ==
    ASSUME UpdaterInv, NEW forced \in BOOLEAN, Install(forced)
    PROVE  UpdaterInv'
<1> USE DEF UpdaterInv
<1>1. PICK backup \in {installed, 0} :
        /\ backup = 0 => Mishap
        /\ backup # 0 => UNCHANGED mishaps
        /\ ExecuteUpdate(backup, forced)
        /\ disturbed' = (backup = 0)
  BY DEF Install, Backups
<1>2. mishaps' \in 0 .. MaxMishaps
  BY <1>1, MishapTyped DEF UpdaterTypeOK
<1>3. backup \in 0 .. MaxVersion /\ info.latest \in 0 .. MaxVersion
  BY <1>1, UpdaterAssumption DEF UpdaterTypeOK, Versions, Broken
<1>4. job' \in [package : 0 .. Corrupt, target : 0 .. MaxVersion, backup : 0 .. MaxVersion,
                forced : BOOLEAN]
  BY <1>1, <1>3 DEF ExecuteUpdate, UpdaterTypeOK
<1>5. disturbed' \in BOOLEAN
  BY <1>1, Zenon
<1>6. /\ marker' = "installing" /\ script' = "waiting" /\ ServerGoesDown
      /\ UNCHANGED <<installed, started, published, info, downloading, package, probes, night>>
  BY <1>1 DEF Install, ExecuteUpdate
<1> QED
  BY <1>2, <1>4, <1>5, <1>6
  DEF UpdaterTypeOK, NoMarkerMeansStarted, OneServer, MarkerTellsScript, ServerGoesDown, Up

\* The script.
LEMMA ScriptKeeps ==
    ASSUME UpdaterInv, ScriptStep
    PROVE  UpdaterInv'
<1> USE DEF UpdaterInv
<1> USE UpdaterAssumption
<1>1. CASE MarkVerifying
  BY <1>1 DEF MarkVerifying, UpdaterTypeOK, NoMarkerMeansStarted, OneServer, MarkerTellsScript, Up
<1>2. CASE RunInstaller
  <2>1. mishaps' \in 0 .. MaxMishaps
    BY <1>2, MishapTyped DEF RunInstaller, UpdaterTypeOK
  <2>2. installed' \in Versions \union {Broken}
    <3>1. job.package \in 0 .. Corrupt
      BY DEF UpdaterTypeOK
    <3>2. installed' \in {installed, Broken, IF job.package = Corrupt THEN Broken ELSE job.package}
      BY <1>2 DEF RunInstaller
    <3> QED  BY <3>1, <3>2 DEF UpdaterTypeOK, Versions, Broken, Corrupt
  <2>3. script = "installing" /\ script' = "starting"
        /\ UNCHANGED <<server, started, published, info, downloading, package, marker, job,
                       probes, night, brokerSet, trading, disturbed>>
    BY <1>2 DEF RunInstaller
  <2> QED
    BY <2>1, <2>2, <2>3
    DEF UpdaterTypeOK, NoMarkerMeansStarted, OneServer, MarkerTellsScript, Up
<1>3. CASE StartNew
  <2>1. UpdaterTypeOK'
    BY <1>3, ServerStartsWell DEF StartNew, UpdaterTypeOK
  <2> QED
    BY <1>3, <2>1, ServerStartsWell
    DEF StartNew, UpdaterTypeOK, NoMarkerMeansStarted, OneServer, MarkerTellsScript, Up
<1>4. CASE Probe
  <2>1. mishaps' \in 0 .. MaxMishaps
    BY <1>4, MishapTyped DEF Probe, UpdaterTypeOK
  <2>2. probes' \in 0 .. MaxProbes /\ script = "probing" /\ script' \in {"probing", "settling"}
    <3>1. probes \in 0 .. MaxProbes /\ probes < MaxProbes /\ probes' \in {probes, probes + 1, MaxProbes}
      BY <1>4 DEF Probe, UpdaterTypeOK
    <3>2. script = "probing" /\ script' \in {"probing", "settling"}
      BY <1>4 DEF Probe
    <3> QED  BY <3>1, <3>2
  <2>3. UNCHANGED <<installed, server, started, published, info, downloading, package, marker,
                    job, night, brokerSet, trading, disturbed>>
    BY <1>4 DEF Probe
  <2> QED
    BY <2>1, <2>2, <2>3
    DEF UpdaterTypeOK, NoMarkerMeansStarted, OneServer, MarkerTellsScript, Up
<1>5. CASE Settles
  <2>1. job' \in [package : 0 .. Corrupt, target : 0 .. MaxVersion, backup : 0 .. MaxVersion,
                  forced : BOOLEAN]
    BY <1>5 DEF Settles, NoJob, Corrupt
  <2> QED
    BY <1>5, <2>1
    DEF Settles, Answers, UpdaterTypeOK, NoMarkerMeansStarted, OneServer, MarkerTellsScript, Up
<1>6. CASE RollBack
  <2>1. installed' \in Versions \union {Broken}
    <3>1. job.backup \in 0 .. MaxVersion
      BY DEF UpdaterTypeOK
    <3> QED  BY <1>6, <3>1 DEF RollBack, Restored, UpdaterTypeOK, Versions
  <2> QED
    BY <1>6, <2>1
    DEF RollBack, ServerGoesDown, AfterRollBack, UpdaterTypeOK, NoMarkerMeansStarted, OneServer,
        MarkerTellsScript, Up
<1>7. CASE StartOld
  <2>1. job' \in [package : 0 .. Corrupt, target : 0 .. MaxVersion, backup : 0 .. MaxVersion,
                  forced : BOOLEAN]
    BY <1>7 DEF StartOld, NoJob, Corrupt
  <2>2. UpdaterTypeOK'
    BY <1>7, <2>1, ServerStartsWell DEF StartOld, UpdaterTypeOK
  <2> QED
    BY <1>7, <2>2, ServerStartsWell
    DEF StartOld, UpdaterTypeOK, NoMarkerMeansStarted, OneServer, MarkerTellsScript, Up
<1> QED  BY <1>1, <1>2, <1>3, <1>4, <1>5, <1>6, <1>7 DEF ScriptStep

\* The world.
LEMMA WorldKeeps ==
    ASSUME UpdaterInv, PowerLoss \/ Crash \/ WorldChanges
    PROVE  UpdaterInv'
<1> USE DEF UpdaterInv
<1> USE UpdaterAssumption
<1>1. CASE PowerLoss
  <2>1. mishaps' \in 0 .. MaxMishaps
    BY <1>1, MishapTyped DEF PowerLoss
  <2>2. job' \in [package : 0 .. Corrupt, target : 0 .. MaxVersion, backup : 0 .. MaxVersion,
                  forced : BOOLEAN]
    BY <1>1 DEF PowerLoss, NoJob, Corrupt
  <2>3. installed' \in Versions \union {Broken} /\ (script # "installing" => installed' = installed)
    BY <1>1 DEF PowerLoss, UpdaterTypeOK
  <2>4. /\ ServerGoesDown /\ script' = "off" /\ disturbed' = TRUE
        /\ UNCHANGED <<started, published, info, downloading, package, marker, probes, night>>
    BY <1>1 DEF PowerLoss
  <2> QED
    BY <2>1, <2>2, <2>3, <2>4
    DEF ServerGoesDown, UpdaterTypeOK, NoMarkerMeansStarted, OneServer, MarkerTellsScript, Up
<1>2. CASE Crash
  <2>1. mishaps' \in 0 .. MaxMishaps
    BY <1>2, MishapTyped DEF Crash
  <2> QED
    BY <1>2, <2>1
    DEF Crash, ServerGoesDown, UpdaterTypeOK, NoMarkerMeansStarted, OneServer, MarkerTellsScript,
        Up
<1>3. CASE WorldChanges
  <2>1. published' \in Versions
    BY <1>3 DEF WorldChanges, UpdaterTypeOK, Versions
  <2>2. night' \in BOOLEAN /\ brokerSet' \in BOOLEAN /\ trading' \in BOOLEAN
    <3>1. \/ night' = night \/ night' = ~night
      BY <1>3, Zenon DEF WorldChanges
    <3>2. \/ brokerSet' = brokerSet \/ brokerSet' = ~brokerSet
      BY <1>3, Zenon DEF WorldChanges
    <3>3. \/ trading' = trading \/ trading' = ~trading
      BY <1>3, Zenon DEF WorldChanges
    <3> QED  BY <3>1, <3>2, <3>3, Zenon DEF UpdaterTypeOK
  <2>3. (trading' => brokerSet') /\ (brokerSet' => Up)
    <3>1. CASE brokerSet' = brokerSet /\ trading' = trading
      BY <3>1, Zenon DEF OneServer
    <3>2. CASE ~(brokerSet' = brokerSet /\ trading' = trading)
      <4>1. \/ Up /\ ~trading /\ trading' = trading
            \/ Up /\ brokerSet /\ brokerSet' = brokerSet
        BY <1>3, <3>2 DEF WorldChanges
      <4> QED  BY <2>2, <4>1 DEF OneServer
    <3> QED  BY <3>1, <3>2
  <2>4. UNCHANGED <<installed, server, started, info, downloading, package, marker, script, job,
                    probes, mishaps, disturbed>>
    BY <1>3 DEF WorldChanges
  <2>5. UpdaterTypeOK'
    BY <2>1, <2>2, <2>4 DEF UpdaterTypeOK
  <2>6. NoMarkerMeansStarted' /\ MarkerTellsScript'
    BY <2>4 DEF NoMarkerMeansStarted, MarkerTellsScript
  <2>7. OneServer'
    BY <2>3, <2>4 DEF OneServer, Up
  <2> QED  BY <2>5, <2>6, <2>7
<1> QED  BY <1>1, <1>2, <1>3

LEMMA UpdaterStepKeeps ==
    ASSUME UpdaterInv, [UpdaterNext]_updVars
    PROVE  UpdaterInv'
<1>1. CASE UNCHANGED updVars
  BY <1>1 DEF updVars, UpdaterInv, UpdaterTypeOK, NoMarkerMeansStarted, OneServer,
              MarkerTellsScript, Up
<1>2. CASE InstallLoop \/ InstallRequest
  <2>1. \E forced \in BOOLEAN : Install(forced)
    BY <1>2 DEF InstallLoop, InstallRequest
  <2> QED  BY <2>1, InstallKeeps
<1> QED
  BY <1>1, <1>2, ServingKeeps, ScriptKeeps, WorldKeeps DEF UpdaterNext

THEOREM UpdaterInvariant == UpdaterSpec => []UpdaterInv
<1>1. UpdaterInv /\ [UpdaterNext]_updVars => UpdaterInv'
  BY UpdaterStepKeeps
<1> QED  BY <1>1, UpdaterInitially, PTL DEF UpdaterSpec

THEOREM AutoInstallAlone == UpdaterSpec => AutoInstallSparesTrading
<1>1. ASSUME UpdaterInv, [UpdaterNext]_updVars,
             script = "off", script' = "waiting", ~job'.forced
      PROVE  ~trading
  <2>1. PICK forced \in BOOLEAN : Install(forced)
    <3>1. ~UNCHANGED updVars /\ ~(Boot \/ CheckUpdate \/ StartDownload \/ EndDownload)
      BY <1>1 DEF updVars, Boot, CheckUpdate, StartDownload, EndDownload
    <3>2. ~(PowerLoss \/ Crash \/ WorldChanges)
      BY <1>1 DEF PowerLoss, Crash, WorldChanges
    <3>3. ~ScriptStep
      BY <1>1 DEF ScriptStep, MarkVerifying, RunInstaller, StartNew, Probe, Settles, RollBack,
                  GivesUp, StartOld
    <3>4. ~\E latest \in 1 .. published, url \in 0 .. published : OnHeartbeat(latest, url)
      BY <1>1 DEF OnHeartbeat
    <3> QED
      BY <1>1, <3>1, <3>2, <3>3, <3>4 DEF UpdaterNext, InstallLoop, InstallRequest
  <2>2. job'.forced = forced
    BY <2>1 DEF Install, ExecuteUpdate
  <2>3. CanInstallNow
    BY <1>1, <2>1, <2>2 DEF Install
  <2> QED  BY <1>1, <2>3 DEF CanInstallNow, UpdaterInv, OneServer
<1>2. [][UpdaterInv /\ [UpdaterNext]_updVars
         => (script = "off" /\ script' = "waiting" /\ ~job'.forced => ~trading)]_updVars
  BY <1>1, PTL
<1> QED
  BY <1>2, UpdaterInvariant, PTL DEF UpdaterSpec, AutoInstallSparesTrading

----------------------------------------------------------------------------
(* BrokerCalls                                                             *)

\* The types, a variable or two at a time.
CallsNumbers ==
    /\ Window \in Nat \ {0} /\ Limit \in Nat \ {0} /\ Lifetime \in Nat /\ Margin \in Nat \ {0}
    /\ Margin <= Lifetime /\ Timeout \in Nat /\ Timeout = Margin - 1

LEMMA CallsConstants == CallsNumbers
BY CallsAssumption DEF CallsNumbers, Timeout

LEMMA TokensTyped ==
    /\ NoToken \in Tokens /\ NewToken \in Tokens /\ NewToken.left = Lifetime
    /\ \A tk \in Tokens : /\ OlderToken(tk) \in Tokens
                          /\ tk.left > 1 => OlderToken(tk).left = tk.left - 1
BY CallsConstants DEF CallsNumbers, NoToken, NewToken, Tokens, OlderToken

(* The limiter                                                             *)

\* What is kept of ages is younger than a second.
LEMMA RecentTyped ==
    ASSUME NEW s \in Seq(0 .. Window)
    PROVE  Recent(s) \in Seq(0 .. Window - 1)
<1>1. Without(s, {Window}) \in Seq(0 .. Window) /\ ToSet(Without(s, {Window})) = ToSet(s) \ {Window}
  BY WithoutFacts
<1>2. ToSet(s) \subseteq 0 .. Window
  BY SeqIsFunction
<1>3. ToSet(Without(s, {Window})) \subseteq 0 .. Window - 1
  <2>1. \A x \in 0 .. Window : x # Window => x \in 0 .. Window - 1
    BY CallsConstants DEF CallsNumbers
  <2> QED  BY <1>1, <1>2, <2>1
<1> QED  BY <1>1, <1>3, ElementsIn DEF Recent

\* Nothing younger than a second is forgotten.
LEMMA RecentKeeps ==
    ASSUME NEW s \in Seq(0 .. Window - 1)
    PROVE  Recent(s) = s
<1>1. (0 .. Window - 1) \intersect {Window} = {}
  BY CallsConstants DEF CallsNumbers
<1> QED  BY <1>1, WithoutNone DEF Recent

\* A tick makes a sequence of ages older one by one.
LEMMA AgedAppend ==
    ASSUME NEW s \in Seq(0 .. Window), NEW x \in 0 .. Window
    PROVE  /\ Aged(s) \in Seq(0 .. Window)
           /\ Aged(Append(s, x)) = Append(Aged(s), IF x < Window THEN x + 1 ELSE Window)
<1> DEFINE y == IF x < Window THEN x + 1 ELSE Window
           n == Len(s)
           t == Append(s, x)
           u == Append(Aged(s), y)
<1>1. y \in 0 .. Window
  BY CallsConstants DEF CallsNumbers
<1>2. n \in Nat /\ DOMAIN s = 1 .. n /\ \A i \in 1 .. n : s[i] \in 0 .. Window
  BY SeqIsFunction
<1>3. t \in Seq(0 .. Window) /\ Len(t) = n + 1 /\ t[n + 1] = x /\ \A i \in 1 .. n : t[i] = s[i]
  BY AppendProperties
<1>4. DOMAIN t = 1 .. n + 1
  <2> HIDE DEF t
  <2> QED  BY <1>3, SeqIsFunction
<1>5. Aged(s) \in [1 .. n -> 0 .. Window]
      /\ \A i \in 1 .. n : Aged(s)[i] = IF s[i] < Window THEN s[i] + 1 ELSE Window
  <2> HIDE DEF n
  <2> QED  BY <1>2, CallsConstants DEF Aged, CallsNumbers
<1> HIDE DEF y, n
<1>6. Aged(s) \in Seq(0 .. Window) /\ Len(Aged(s)) = n
  BY <1>2, <1>5, FunctionIsSeq
<1>7. u \in Seq(0 .. Window) /\ Len(u) = n + 1 /\ u[n + 1] = y
      /\ \A i \in 1 .. n : u[i] = Aged(s)[i]
  BY <1>1, <1>6, AppendProperties
<1> HIDE DEF t, u
<1>8. u = [i \in 1 .. n + 1 |-> u[i]]
  BY <1>7, SeqIsFunction
<1>9. Aged(t) = [i \in 1 .. n + 1 |-> IF t[i] < Window THEN t[i] + 1 ELSE Window]
  BY <1>4 DEF Aged
<1>10. ASSUME NEW i \in 1 .. n + 1
       PROVE  u[i] = IF t[i] < Window THEN t[i] + 1 ELSE Window
  <2>1. CASE i \in 1 .. n
    BY <1>3, <1>5, <1>7, <2>1
  <2>2. CASE i = n + 1
    BY <1>3, <1>7, <2>2 DEF y
  <2> QED  BY <1>2, <2>1, <2>2
<1>11. Aged(t) = u
  BY <1>8, <1>9, <1>10
<1> QED  BY <1>6, <1>11 DEF t, u, y

\* What the limiter will still remember after a tick is what it remembers, a tick older.
LEMMA AgedRecent ==
    ASSUME NEW s \in Seq(0 .. Window)
    PROVE  Recent(Aged(s)) = Without(Aged(Recent(s)), {Window})
<1> DEFINE Same(t) == Recent(Aged(t)) = Without(Aged(Recent(t)), {Window})
           Differing == {n \in Nat : \E t \in Seq(0 .. Window) : Len(t) = n /\ ~Same(t)}
<1>1. Same(<<>>)
  <2>1. Aged(<<>>) = <<>>
    BY DEF Aged
  <2> QED  BY <2>1, WithoutEmpty DEF Recent
<1>2. ASSUME NEW p \in Seq(0 .. Window), NEW x \in 0 .. Window, Same(p)
      PROVE  Same(Append(p, x))
  <2> DEFINE y == IF x < Window THEN x + 1 ELSE Window
  <2>1. y \in 0 .. Window /\ (x = Window => y = Window)
    BY CallsConstants DEF CallsNumbers
  <2>2. Aged(p) \in Seq(0 .. Window) /\ Aged(Append(p, x)) = Append(Aged(p), y)
    BY AgedAppend
  <2>3. Recent(p) \in Seq(0 .. Window) /\ Aged(Recent(p)) \in Seq(0 .. Window)
    BY WithoutFacts, AgedAppend, CallsConstants DEF Recent, CallsNumbers
  <2> HIDE DEF y
  <2>4. Recent(Aged(Append(p, x)))
          = IF y \in {Window} THEN Recent(Aged(p)) ELSE Append(Recent(Aged(p)), y)
    <3>1. y \in 0 .. Window /\ Aged(p) \in Seq(0 .. Window)
      BY <2>1, <2>2
    <3>2. Without(Append(Aged(p), y), {Window})
            = IF y \in {Window} THEN Without(Aged(p), {Window})
              ELSE Append(Without(Aged(p), {Window}), y)
      BY <3>1, WithoutAppend
    <3> QED  BY <2>2, <3>2 DEF Recent
  <2>5. Recent(Append(p, x)) = IF x \in {Window} THEN Recent(p) ELSE Append(Recent(p), x)
    BY WithoutAppend DEF Recent
  <2>6. CASE x = Window
    BY <1>2, <2>1, <2>4, <2>5, <2>6
  <2>7. CASE x # Window
    <3>1. Aged(Recent(Append(p, x))) = Append(Aged(Recent(p)), y)
      BY <2>3, <2>5, <2>7, AgedAppend DEF y
    <3>2. Without(Append(Aged(Recent(p)), y), {Window})
            = IF y \in {Window} THEN Without(Aged(Recent(p)), {Window})
              ELSE Append(Without(Aged(Recent(p)), {Window}), y)
      BY <2>1, <2>3, WithoutAppend
    <3> QED  BY <1>2, <2>4, <3>1, <3>2
  <2> QED  BY <2>6, <2>7
<1>3. ASSUME Differing # {} PROVE FALSE
  <2>1. PICK k \in Differing : \A j \in Differing : k <= j
    <3> HIDE DEF Differing
    <3>1. Differing \subseteq Nat  BY DEF Differing
    <3> QED  BY <1>3, <3>1, LeastOf
  <2>2. PICK t \in Seq(0 .. Window) : Len(t) = k /\ ~Same(t)
    OBVIOUS
  <2> HIDE DEF Same
  <2>3. t # <<>>
    BY <1>1, <2>2
  <2>4. PICK p \in Seq(0 .. Window), x \in 0 .. Window : t = Append(p, x)
    BY <2>3, SequenceEmptyOrAppend
  <2>5. Len(p) \in Nat /\ k = Len(p) + 1
    BY <2>2, <2>4, AppendProperties, LenProperties
  <2>6. Len(p) \notin Differing
    <3> HIDE DEF Differing
    <3> QED  BY <2>1, <2>5
  <2>7. Same(p)
    BY <2>5, <2>6
  <2> QED  BY <1>2, <2>2, <2>4, <2>7
<1> HIDE DEF Same
<1>4. Same(s)
  BY <1>3, LenProperties
<1> QED  BY <1>4 DEF Same

(* The invariant                                                           *)

LEMMA CallsInitially == CallsInit => CallsInv
<1> SUFFICES ASSUME CallsInit  PROVE CallsInv
  OBVIOUS
<1> USE CallsConstants DEF CallsNumbers
<1>1. /\ callTimes = [e \in Endpoints |-> <<>>] /\ granted = [e \in Endpoints |-> <<>>]
      /\ calls = [c \in Calls |-> "idle"] /\ wait = [c \in Calls |-> 0]
      /\ endpoint = [c \in Calls |-> "balance"] /\ bearer = [c \in Calls |-> NoToken]
      /\ token = NewToken /\ lock = NoCall /\ refused = FALSE /\ fault = {}
  BY DEF CallsInit
<1>2. CallsTypeOK
  <2>1. <<>> \in Seq(0 .. Window) /\ <<>> \in Seq(0 .. Window - 1) /\ 0 \in 0 .. Window + Timeout
    OBVIOUS
  <2> QED  BY <1>1, <2>1, TokensTyped DEF CallsTypeOK, Endpoints
<1>3. LimiterRemembers /\ RateRespected
  BY <1>1, WithoutEmpty DEF LimiterRemembers, RateRespected, Recent
<1>4. NeverLate /\ OneRenewal /\ TokenOutlivesCall
  BY <1>1, CallsAssumption DEF NeverLate, OneRenewal, TokenOutlivesCall
<1> QED  BY <1>2, <1>3, <1>4 DEF CallsInv

\* RateLimiter.acquire.
LEMMA AcquireKeeps ==
    ASSUME CallsInv, NEW c \in Calls, Acquire(c)
    PROVE  CallsInv'
<1> USE CallsConstants DEF CallsNumbers, CallsInv
<1> DEFINE e == endpoint[c]
           recent == Recent(callTimes[e])
<1>1. /\ calls[c] = "limited" /\ wait[c] = 0
      /\ UNCHANGED <<endpoint, bearer, token, lock, refused, fault>>
  BY DEF Acquire, TokenOutlivesCall
<1>2. e \in Endpoints /\ callTimes[e] \in Seq(0 .. Window) /\ granted[e] = recent
  BY DEF CallsTypeOK, LimiterRemembers
<1>3. recent \in Seq(0 .. Window - 1) /\ recent \in Seq(0 .. Window) /\ Recent(recent) = recent
  BY <1>2, RecentTyped, RecentKeeps
<1>4. \/ /\ Len(recent) < Limit
         /\ callTimes' = [callTimes EXCEPT ![e] = Append(recent, 0)]
         /\ granted' = [granted EXCEPT ![e] = Append(granted[e], 0)]
         /\ calls' = [calls EXCEPT ![c] = "headers"]
         /\ wait' = wait
      \/ /\ ~(Len(recent) < Limit)
         /\ callTimes' = [callTimes EXCEPT ![e] = recent]
         /\ wait' = [wait EXCEPT ![c] = Window - recent[1]]
         /\ calls' = [calls EXCEPT ![c] = "sleeping"]
         /\ granted' = granted
  BY DEF Acquire, CallGoes
<1> HIDE DEF recent, e
<1>5. CASE Len(recent) < Limit
  <2>1. /\ callTimes' = [callTimes EXCEPT ![e] = Append(recent, 0)]
        /\ granted' = [granted EXCEPT ![e] = Append(recent, 0)]
        /\ calls' = [calls EXCEPT ![c] = "headers"]
        /\ wait' = wait
    BY <1>2, <1>4, <1>5
  <2>2. /\ Append(recent, 0) \in Seq(0 .. Window - 1) /\ Append(recent, 0) \in Seq(0 .. Window)
        /\ Len(Append(recent, 0)) = Len(recent) + 1
    <3>1. 0 \in 0 .. Window - 1 /\ 0 \in 0 .. Window
      OBVIOUS
    <3> QED  BY <1>3, <3>1, AppendProperties
  <2>3. Recent(Append(recent, 0)) = Append(recent, 0)
    BY <2>2, RecentKeeps
  <2>4. CallsTypeOK'
    BY <1>1, <1>2, <2>1, <2>2 DEF CallsTypeOK
  <2>5. LimiterRemembers'
    BY <1>2, <2>1, <2>3 DEF LimiterRemembers, CallsTypeOK
  <2>6. RateRespected'
    <3>1. Len(recent) \in Nat
      BY <1>3, LenProperties
    <3> QED  BY <1>2, <1>5, <2>1, <2>2, <3>1 DEF RateRespected, CallsTypeOK
  <2>7. NeverLate' /\ OneRenewal'
    BY <1>1, <2>1 DEF NeverLate, OneRenewal, CallsTypeOK
  <2>8. TokenOutlivesCall'
    BY <1>1, <2>1 DEF TokenOutlivesCall, CallsTypeOK
  <2> QED  BY <2>4, <2>5, <2>6, <2>7, <2>8
<1>6. CASE ~(Len(recent) < Limit)
  <2>1. /\ callTimes' = [callTimes EXCEPT ![e] = recent]
        /\ wait' = [wait EXCEPT ![c] = Window - recent[1]]
        /\ calls' = [calls EXCEPT ![c] = "sleeping"]
        /\ granted' = granted
    BY <1>4, <1>6
  <2>2. Window - recent[1] \in 0 .. Window
    <3>1. Len(recent) \in Nat /\ 1 \in 1 .. Len(recent)
      BY <1>3, <1>6, LenProperties
    <3>2. recent[1] \in 0 .. Window - 1
      BY <1>3, <3>1, ElementOfSeq
    <3> QED  BY <3>2
  <2>3. CallsTypeOK'
    <3>1. Window - recent[1] \in 0 .. Window + Timeout
      BY <2>2
    <3> QED  BY <1>1, <1>2, <1>3, <2>1, <3>1 DEF CallsTypeOK
  <2>4. LimiterRemembers'
    BY <1>2, <1>3, <2>1 DEF LimiterRemembers, CallsTypeOK
  <2>5. RateRespected' /\ NeverLate' /\ OneRenewal'
    BY <1>1, <2>1 DEF RateRespected, NeverLate, OneRenewal, CallsTypeOK
  <2>6. TokenOutlivesCall'
    BY <1>1, <2>1, <2>2 DEF TokenOutlivesCall, CallsTypeOK
  <2> QED  BY <2>3, <2>4, <2>5, <2>6
<1> QED  BY <1>5, <1>6

\* A step that leaves the limiters alone.
LEMMA LimitersAlone ==
    ASSUME CallsInv, UNCHANGED <<callTimes, granted>>
    PROVE  /\ callTimes' \in [Endpoints -> Seq(0 .. Window)]
           /\ granted' \in [Endpoints -> Seq(0 .. Window - 1)]
           /\ RateRespected' /\ LimiterRemembers'
BY DEF CallsInv, CallsTypeOK, RateRespected, LimiterRemembers

\* The call begins and sleeps, gets a token and is answered.
LEMMA CallKeeps ==
    ASSUME CallsInv, NEW c \in Calls,
           \/ \E e \in Endpoints : BeginCall(c, e)
           \/ SleepEnds(c) \/ UseToken(c) \/ FetchToken(c) \/ FetchFails(c) \/ Send(c)
    PROVE  CallsInv'
<1> USE CallsConstants DEF CallsNumbers, CallsInv
<1>1. UNCHANGED <<callTimes, granted>>
  BY DEF BeginCall, SleepEnds, UseToken, FetchToken, FetchFails, Send
<1>2. /\ callTimes' \in [Endpoints -> Seq(0 .. Window)]
      /\ granted' \in [Endpoints -> Seq(0 .. Window - 1)]
      /\ RateRespected' /\ LimiterRemembers'
  BY <1>1, LimitersAlone
<1>3. ASSUME NEW e \in Endpoints, BeginCall(c, e)
      PROVE  CallsInv'
  <2>1. /\ calls[c] = "idle" /\ calls' = [calls EXCEPT ![c] = "limited"]
        /\ endpoint' = [endpoint EXCEPT ![c] = e]
        /\ UNCHANGED <<wait, bearer, token, lock, refused, fault>>
    BY <1>3 DEF BeginCall, CallGoes
  <2>2. CallsTypeOK'
    BY <1>2, <2>1 DEF CallsTypeOK
  <2>3. NeverLate' /\ OneRenewal' /\ TokenOutlivesCall'
    BY <2>1 DEF CallsTypeOK, NeverLate, OneRenewal, TokenOutlivesCall
  <2> QED  BY <1>2, <2>2, <2>3
<1>4. CASE SleepEnds(c)
  <2>1. /\ calls[c] = "sleeping" /\ wait[c] = 0 /\ calls' = [calls EXCEPT ![c] = "limited"]
        /\ UNCHANGED <<endpoint, wait, bearer, token, lock, refused, fault>>
    BY <1>4 DEF SleepEnds, CallGoes
  <2>2. CallsTypeOK'
    BY <1>2, <2>1 DEF CallsTypeOK
  <2>3. NeverLate' /\ OneRenewal' /\ TokenOutlivesCall'
    BY <2>1 DEF CallsTypeOK, NeverLate, OneRenewal, TokenOutlivesCall
  <2> QED  BY <1>2, <2>2, <2>3
<1>5. CASE UseToken(c) /\ NeedsRefresh
  <2>1. /\ calls[c] = "headers" /\ lock = NoCall /\ lock' = c
        /\ calls' = [calls EXCEPT ![c] = "fetching"]
        /\ UNCHANGED <<endpoint, wait, bearer, token, refused, fault>>
    BY <1>5 DEF UseToken, CallGoes
  <2>2. CallsTypeOK'
    BY <1>2, <2>1 DEF CallsTypeOK
  <2>3. NeverLate' /\ OneRenewal' /\ TokenOutlivesCall'
    BY <2>1, CallsAssumption DEF CallsTypeOK, NeverLate, OneRenewal, TokenOutlivesCall
  <2> QED  BY <1>2, <2>2, <2>3
<1>6. CASE UseToken(c) /\ ~NeedsRefresh
  <2>1. /\ calls[c] = "headers" /\ lock = NoCall /\ lock' = lock
        /\ bearer' = [bearer EXCEPT ![c] = token]
        /\ fault' \in {fault, fault \union {"reused"}}
        /\ calls' = [calls EXCEPT ![c] = "sending"]
        /\ UNCHANGED <<endpoint, wait, token, refused>>
    BY <1>6 DEF UseToken, CallGoes
  <2>2. token.left >= Margin /\ token \in Tokens /\ token.left \in Nat
    BY <1>6 DEF NeedsRefresh, CallsTypeOK, Tokens
  <2>3. CallsTypeOK'
    BY <1>2, <2>1, <2>2 DEF CallsTypeOK
  <2>4. NeverLate' /\ OneRenewal'
    BY <2>1 DEF CallsTypeOK, NeverLate, OneRenewal
  <2>5. TokenOutlivesCall'
    BY <2>1, <2>2 DEF CallsTypeOK, TokenOutlivesCall
  <2> QED  BY <1>2, <2>3, <2>4, <2>5
<1>7. CASE FetchToken(c)
  <2>1. /\ calls[c] = "fetching" /\ token' = NewToken /\ refused' = FALSE /\ lock' = NoCall
        /\ bearer' = [bearer EXCEPT ![c] = NewToken]
        /\ calls' = [calls EXCEPT ![c] = "sending"]
        /\ UNCHANGED <<endpoint, wait, fault>>
    BY <1>7 DEF FetchToken, CallGoes
  <2>2. CallsTypeOK'
    BY <1>2, <2>1, TokensTyped DEF CallsTypeOK
  <2>3. NeverLate' /\ OneRenewal'
    BY <2>1, CallsAssumption DEF CallsTypeOK, NeverLate, OneRenewal
  <2>4. TokenOutlivesCall'
    BY <2>1, TokensTyped DEF CallsTypeOK, TokenOutlivesCall
  <2> QED  BY <1>2, <2>2, <2>3, <2>4
<1>8. CASE FetchFails(c)
  <2>1. /\ calls[c] = "fetching" /\ lock' = NoCall /\ calls' = [calls EXCEPT ![c] = "idle"]
        /\ UNCHANGED <<endpoint, wait, bearer, token, refused, fault>>
    BY <1>8 DEF FetchFails, CallGoes
  <2>2. CallsTypeOK'
    BY <1>2, <2>1 DEF CallsTypeOK
  <2>3. NeverLate' /\ OneRenewal' /\ TokenOutlivesCall'
    BY <2>1, CallsAssumption DEF CallsTypeOK, NeverLate, OneRenewal, TokenOutlivesCall
  <2> QED  BY <1>2, <2>2, <2>3
<1>9. CASE Send(c)
  <2>1. /\ calls[c] = "sending" /\ calls' = [calls EXCEPT ![c] = "idle"]
        /\ token' \in {NoToken, token}
        /\ bearer' = [bearer EXCEPT ![c] = NoToken] /\ wait' = [wait EXCEPT ![c] = 0]
        /\ fault' = IF bearer[c].left = 0 THEN fault \union {"expired"} ELSE fault
        /\ UNCHANGED <<endpoint, lock>>
    BY <1>9 DEF Send, CallGoes
  <2>2. refused' \in BOOLEAN
    BY <1>9, Zenon DEF Send
  <2>3. bearer[c].left # 0
    BY <2>1 DEF TokenOutlivesCall, CallsTypeOK
  <2>4. CallsTypeOK'
    <3>1. 0 \in 0 .. Window + Timeout
      OBVIOUS
    <3> QED  BY <1>2, <2>1, <2>2, <2>3, <3>1, TokensTyped DEF CallsTypeOK
  <2>5. NeverLate' /\ OneRenewal' /\ TokenOutlivesCall'
    BY <2>1, <2>3, CallsAssumption DEF CallsTypeOK, NeverLate, OneRenewal, TokenOutlivesCall
  <2> QED  BY <1>2, <2>4, <2>5
<1> QED  BY <1>3, <1>4, <1>5, <1>6, <1>7, <1>8, <1>9

\* Time, and another program.
LEMMA WorldKeepsCalls ==
    ASSUME CallsInv, Revoke \/ Tick
    PROVE  CallsInv'
<1> USE CallsConstants DEF CallsNumbers, CallsInv
<1>1. CASE Revoke
  <2>1. /\ token' = [token EXCEPT !.good = FALSE]
        /\ bearer' = [c \in Calls |-> [bearer[c] EXCEPT !.good = FALSE]]
        /\ UNCHANGED <<calls, endpoint, wait, callTimes, granted, lock, refused, fault>>
    BY <1>1 DEF Revoke
  <2>2. token' \in Tokens /\ bearer' \in [Calls -> Tokens]
        /\ \A c \in Calls : bearer'[c].left = bearer[c].left
    BY <2>1 DEF CallsTypeOK, Tokens
  <2>3. CallsTypeOK'
    BY <2>1, <2>2 DEF CallsTypeOK
  <2>4. RateRespected' /\ LimiterRemembers'
    BY <2>1, LimitersAlone
  <2>5. NeverLate' /\ OneRenewal' /\ TokenOutlivesCall'
    BY <2>1, <2>2 DEF NeverLate, OneRenewal, TokenOutlivesCall
  <2> QED  BY <2>3, <2>4, <2>5
<1>2. CASE Tick
  <2>1. /\ \A c \in Calls : /\ calls[c] = "sleeping" => wait[c] > 0
                            /\ calls[c] = "sending" => wait[c] < Timeout
        /\ wait' = [c \in Calls |-> IF calls[c] = "sleeping" THEN wait[c] - 1
                                    ELSE IF calls[c] = "sending" THEN wait[c] + 1 ELSE wait[c]]
        /\ callTimes' = [e \in Endpoints |-> Aged(callTimes[e])]
        /\ granted' = [e \in Endpoints |-> Without(Aged(granted[e]), {Window})]
        /\ token' = OlderToken(token)
        /\ bearer' = [c \in Calls |-> OlderToken(bearer[c])]
        /\ UNCHANGED <<calls, endpoint, lock, refused, fault>>
    BY <1>2 DEF Tick
  <2>2. ASSUME NEW c \in Calls
        PROVE  /\ wait'[c] \in 0 .. Window + Timeout
               /\ calls[c] \notin {"sleeping", "sending"} => wait'[c] = 0
               /\ calls[c] = "sleeping" => wait'[c] <= Window
               /\ calls[c] = "sending" => /\ wait'[c] <= Timeout
                                          /\ bearer'[c].left + wait'[c] >= Margin
    <3>1. /\ wait[c] \in 0 .. Window + Timeout /\ bearer[c] \in Tokens
          /\ bearer[c].left \in Nat
          /\ wait'[c] = IF calls[c] = "sleeping" THEN wait[c] - 1
                        ELSE IF calls[c] = "sending" THEN wait[c] + 1 ELSE wait[c]
          /\ bearer'[c] = OlderToken(bearer[c])
      BY <2>1 DEF CallsTypeOK, Tokens
    <3>2. CASE calls[c] = "sending"
      <4>1. wait[c] < Timeout /\ wait[c] <= Timeout /\ bearer[c].left + wait[c] >= Margin
        BY <2>1, <3>2 DEF TokenOutlivesCall
      <4>2. bearer[c].left > 1
        BY <3>1, <4>1
      <4>3. OlderToken(bearer[c]).left = bearer[c].left - 1
        BY <3>1, <4>2, TokensTyped
      <4> QED  BY <3>1, <3>2, <4>1, <4>3
    <3>3. CASE calls[c] = "sleeping"
      BY <2>1, <3>1, <3>3 DEF TokenOutlivesCall
    <3>4. CASE calls[c] \notin {"sleeping", "sending"}
      BY <2>1, <3>1, <3>4 DEF TokenOutlivesCall
    <3> QED  BY <3>2, <3>3, <3>4
  <2>3. ASSUME NEW e \in Endpoints
        PROVE  /\ callTimes'[e] \in Seq(0 .. Window)
               /\ granted'[e] \in Seq(0 .. Window - 1)
               /\ Recent(callTimes'[e]) = granted'[e]
               /\ Len(granted'[e]) <= Limit
    <3>1. /\ callTimes[e] \in Seq(0 .. Window) /\ granted[e] = Recent(callTimes[e])
          /\ granted[e] \in Seq(0 .. Window)
      <4>1. callTimes[e] \in Seq(0 .. Window) /\ granted[e] = Recent(callTimes[e])
        BY DEF CallsTypeOK, LimiterRemembers
      <4>2. Without(callTimes[e], {Window}) \in Seq(0 .. Window)
        BY <4>1, WithoutFacts
      <4> QED  BY <4>1, <4>2 DEF Recent
    <3>2. callTimes'[e] = Aged(callTimes[e]) /\ granted'[e] = Without(Aged(granted[e]), {Window})
      BY <2>1
    <3>3. Aged(callTimes[e]) \in Seq(0 .. Window) /\ Aged(granted[e]) \in Seq(0 .. Window)
      BY <3>1, AgedAppend
    <3>4. Recent(callTimes'[e]) = granted'[e]
      BY <3>1, <3>2, AgedRecent
    <3>5. granted'[e] \in Seq(0 .. Window - 1)
      BY <3>2, <3>3, RecentTyped DEF Recent
    <3>6. Len(granted'[e]) <= Len(granted[e])
      <4>1. Len(Aged(granted[e])) = Len(granted[e])
        BY <3>1, <3>3, LenProperties DEF Aged
      <4> QED  BY <3>2, <3>3, <4>1, WithoutFacts
    <3>7. Len(granted[e]) <= Limit /\ Len(granted[e]) \in Nat /\ Len(granted'[e]) \in Nat
      BY <3>1, <3>5, LenProperties DEF RateRespected
    <3> QED  BY <3>2, <3>3, <3>4, <3>5, <3>6, <3>7
  <2>4. /\ callTimes' \in [Endpoints -> Seq(0 .. Window)]
        /\ granted' \in [Endpoints -> Seq(0 .. Window - 1)]
    BY <2>1, <2>3
  <2>5. wait' \in [Calls -> 0 .. Window + Timeout]
    BY <2>1, <2>2
  <2>6. token' \in Tokens /\ bearer' \in [Calls -> Tokens]
    BY <2>1, TokensTyped DEF CallsTypeOK
  <2>7. CallsTypeOK'
    BY <2>1, <2>4, <2>5, <2>6 DEF CallsTypeOK
  <2>8. RateRespected' /\ LimiterRemembers'
    BY <2>3 DEF RateRespected, LimiterRemembers
  <2>9. NeverLate' /\ OneRenewal'
    BY <2>1 DEF NeverLate, OneRenewal
  <2>10. TokenOutlivesCall'
    BY <2>1, <2>2 DEF TokenOutlivesCall
  <2> QED  BY <2>7, <2>8, <2>9, <2>10
<1> QED  BY <1>1, <1>2

THEOREM CallsInvariant == CallsSpec => []CallsInv
<1>1. CallsInv /\ [CallsNext]_callVars => CallsInv'
  <2> SUFFICES ASSUME CallsInv, [CallsNext]_callVars  PROVE CallsInv'
    OBVIOUS
  <2>1. CASE UNCHANGED callVars
    BY <2>1 DEF callVars, CallsInv, CallsTypeOK, RateRespected, NeverLate, OneRenewal,
                LimiterRemembers, TokenOutlivesCall
  <2> QED  BY <2>1, AcquireKeeps, CallKeeps, WorldKeepsCalls DEF CallsNext, CallStep
<1> QED  BY <1>1, CallsInitially, PTL DEF CallsSpec

=============================================================================
