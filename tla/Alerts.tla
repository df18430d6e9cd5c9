------------------------------- MODULE Alerts --------------------------------
(***************************************************************************)
(* Alerts of the local server: HealthWatchdog (health_watchdog.py), which  *)
(* looks at the engine and the broker twice a minute, the conditions the   *)
(* engine checks in every cycle, and the cool-down of AlertMonitor         *)
(* (alert_monitor.py).                                                     *)
(*                                                                         *)
(* Alert keys do not influence each other: one of them, chosen in the      *)
(* initial state, is followed.  Time advances by minutes; within a minute  *)
(* the evaluation and the check run in any order.  Names ending in         *)
(* "Mutant" are faulty variants of the definition that follows them.       *)
(***************************************************************************)
EXTENDS Naturals

CONSTANTS
    Grace,       \* GRACE_PERIOD, in minutes
    Silence,     \* HEARTBEAT_THRESHOLD, in minutes
    FailLimit,   \* BROKER_FAIL_THRESHOLD
    Cooldown,    \* AlertMonitor._cooldown, in minutes
    Longest,     \* bound: minutes since an evaluation, failed pings
    MaxLevel     \* bound: how bad the followed condition can be

ASSUME AlertsAssumption ==
    /\ Cooldown \in Nat \ {0}
    /\ Grace \in Nat /\ Silence \in Nat /\ FailLimit \in Nat
    /\ Longest \in Nat /\ MaxLevel \in Nat

Never == Longest + 1

VARIABLES
    key,         \* the alert key that is followed
    market,      \* closed, syncing (09:00-09:02), open
    watched,     \* the engine the watchdog knows of
    elapsed,     \* minutes since its _last_evaluate_ts, or Never
    up,          \* minutes since the watchdog's start
    hasBroker,   \* was a broker connected when the server started?
    answers,     \* does the broker's API answer?
    fails,       \* _broker_fail_count
    level,       \* the followed condition: 0, or how far beyond its threshold
    enabled,     \* alert settings in the configuration
    applied,     \* the settings the engine's AlertMonitor was made with
    due,         \* what this minute still has to run
    fired,       \* _fired[key]
    told,        \* the last alert that was really written
    lost,        \* could the latest alert not be written?
    seen         \* what the monitor was shown in this minute

alertVars == <<key, market, watched, elapsed, up, hasBroker, answers, fails, level, enabled,
               applied, due, fired, told, lost, seen>>

Keys == {"engine_health", "broker_health", "condition"}
NoAlert == [age |-> Cooldown, value |-> 0]
Alert == [age : 0 .. Cooldown, value : 0 .. Longest + MaxLevel]

AlertsTypeOK ==
    /\ key \in Keys
    /\ market \in {"closed", "syncing", "open"}
    /\ watched \in {"none", "running", "killed", "hung", "stopped"}
    /\ elapsed \in 0 .. Never
    /\ up \in 0 .. Grace
    /\ hasBroker \in BOOLEAN
    /\ answers \in BOOLEAN
    /\ fails \in 0 .. Longest
    /\ level \in 0 .. MaxLevel
    /\ enabled \in BOOLEAN
    /\ applied \in BOOLEAN
    /\ due \subseteq {"evaluate", "check"}
    /\ fired \in Alert
    /\ told \in Alert
    /\ lost \in BOOLEAN
    /\ seen \in 0 .. Longest + MaxLevel

\* What does not concern the followed key is not varied.
OnlyFor(k, values, fixed) == IF key = k THEN values ELSE {fixed}

AlertsInit ==
    /\ key \in Keys
    /\ market \in {"closed", "open"}
    /\ watched = "none"
    /\ elapsed = Never
    /\ up = 0
    /\ hasBroker \in OnlyFor("broker_health", BOOLEAN, FALSE)
    /\ answers = TRUE
    /\ fails = 0
    /\ level = 0
    /\ enabled = TRUE
    /\ applied = enabled
    /\ due = {}
    /\ fired = NoAlert
    /\ told = NoAlert
    /\ lost = FALSE
    /\ seen = 0

----------------------------------------------------------------------------
(* AlertMonitor                                                            *)

ShouldFireMutant(value) == fired.age >= Cooldown

\* Half as bad again as when it was last reported: the cool-down is ignored.
ShouldFire(value) == fired.age >= Cooldown \/ 2 * value > 3 * fired.value

\* The alert counts as fired before it is written; a failing write is swallowed.
Fire(value) ==
    /\ seen' = value
    /\ IF ShouldFire(value)
         THEN /\ fired' = [age |-> 0, value |-> value]
              /\ lost' \in BOOLEAN
              /\ told' = IF lost' THEN told ELSE fired'
         ELSE UNCHANGED <<fired, told, lost>>

Silent == UNCHANGED <<fired, told, lost, seen>>

\* The followed one of the conditions on positions, losses and orders.
ConditionHolds == applied /\ level > 0

\* check_all with the settings the monitor was made with.
CheckAll == IF key = "condition" /\ ConditionHolds THEN Fire(level) ELSE Silent

----------------------------------------------------------------------------
(* StrategyEngine                                                          *)

\* A killed or locked engine still checks the conditions; SYNCING, the close, a cycle
\* that hangs and a broker that does not answer stop it before that.
Evaluates == watched \in {"running", "killed"} /\ market = "open" /\ answers

\* One tick of the scheduler.  The time stamp is written at the very end: not when
\* trading is disabled, not when no rule found a candidate.
Evaluate ==
    /\ "evaluate" \in due
    /\ due' = due \ {"evaluate"}
    /\ IF Evaluates
         THEN /\ CheckAll
              /\ elapsed' \in IF watched = "running" THEN {elapsed, 0} ELSE {elapsed}
         ELSE Silent /\ UNCHANGED elapsed
    /\ UNCHANGED <<key, market, watched, up, hasBroker, answers, fails, level, enabled,
                   applied>>

\* A new engine, with a monitor of its own and the settings of this moment.
StartEngine ==
    /\ watched \in {"none", "stopped"}
    /\ watched' = "running"
    /\ elapsed' = Never
    /\ applied' = enabled
    /\ fired' = IF key = "condition" THEN NoAlert ELSE fired
    /\ UNCHANGED <<key, market, up, hasBroker, answers, fails, level, enabled, due, told,
                   lost, seen>>

\* Stop (the watchdog is not told), kill, arm; a cycle that waits for an answer.
EngineBecomes(state, from) ==
    /\ watched \in from
    /\ watched' = state
    /\ UNCHANGED <<key, market, elapsed, up, hasBroker, answers, fails, level, enabled,
                   applied, due, fired, told, lost, seen>>

EngineChanges ==
    \/ EngineBecomes("stopped", {"running", "killed", "hung"})
    \/ EngineBecomes("killed", {"running"})
    \/ EngineBecomes("running", {"killed", "hung"})
    \/ EngineBecomes("hung", {"running"})

----------------------------------------------------------------------------
(* HealthWatchdog                                                          *)

OverdueMutant == elapsed # Never /\ elapsed > Longest

\* Without a time stamp nothing is checked.
Overdue == elapsed # Never /\ elapsed > Silence

EngineSilent == market # "closed" /\ watched # "none" /\ Overdue

FailsAfter == IF answers THEN 0 ELSE IF fails < Longest THEN fails + 1 ELSE fails

Check ==
    /\ due' = due \ {"check"}
    /\ IF up < Grace
         THEN Silent /\ UNCHANGED fails
         ELSE /\ fails' = IF hasBroker THEN FailsAfter ELSE fails
              /\ CASE key = "engine_health" /\ EngineSilent -> Fire(elapsed)
                   [] key = "broker_health" /\ hasBroker /\ ~answers /\ fails' >= FailLimit
                        -> Fire(fails')
                   [] OTHER -> Silent
    /\ UNCHANGED <<key, market, watched, elapsed, up, hasBroker, answers, level, enabled,
                   applied>>

----------------------------------------------------------------------------
(* The world                                                               *)

AtMost(n, bound) == IF n < bound THEN n ELSE bound
Older(alert) == [alert EXCEPT !.age = AtMost(@ + 1, Cooldown)]

\* The next minute: the day goes on, prices and the broker's API change.
Minute ==
    /\ due = {}
    /\ due' = {"evaluate", "check"}
    /\ market' \in CASE market = "closed"  -> {"closed", "syncing"}
                     [] market = "syncing" -> {"open"}
                     [] market = "open"    -> {"open", "closed"}
    /\ elapsed' = IF elapsed = Never THEN Never ELSE AtMost(elapsed + 1, Longest)
    /\ up' = AtMost(up + 1, Grace)
    /\ answers' \in BOOLEAN
    /\ level' \in OnlyFor("condition", 0 .. MaxLevel, 0)
    /\ fired' = Older(fired)
    /\ told' = Older(told)
    /\ seen' = 0
    /\ UNCHANGED <<key, watched, hasBroker, fails, enabled, applied, lost>>

\* PUT /settings/alerts: the running engine keeps the settings it was made with.
SaveSettings ==
    /\ key = "condition"
    /\ enabled' = ~enabled
    /\ UNCHANGED <<key, market, watched, elapsed, up, hasBroker, answers, fails, level,
                   applied, due, fired, told, lost, seen>>

AlertsNext ==
    \/ Evaluate \/ Check \/ Minute
    \/ StartEngine \/ EngineChanges \/ SaveSettings

\* The scheduler ticks, the watchdog's loop survives every exception, time passes.
AlertsFairness ==
    /\ WF_alertVars(Evaluate)
    /\ WF_alertVars("check" \in due /\ Check)
    /\ WF_alertVars(Minute)

AlertsSpec == AlertsInit /\ [][AlertsNext]_alertVars /\ AlertsFairness

----------------------------------------------------------------------------
\* Whatever the monitor was shown has been reported within the cool-down, at two
\* thirds of the present value at least, unless the report itself could not be
\* written.
WhatIsSeenWasTold ==
    seen > 0 /\ ~lost => told.age < Cooldown /\ 2 * seen <= 3 * told.value

\* What the monitor remembers of its own is what was really written last, unless that
\* failed: a new engine's monitor remembers nothing.
FiredWasTold == fired.age < Cooldown /\ ~lost => told = fired

AlertsInv == AlertsTypeOK /\ WhatIsSeenWasTold /\ FiredWasTold

\* An engine that hangs in market hours after it has worked is reported, as long as
\* the market stays open and nobody touches it.
HangIsReported ==
    (key = "engine_health" /\ watched = "hung" /\ elapsed # Never /\ market = "open")
        ~> \/ told.age < Cooldown
           \/ lost
           \/ market = "closed"
           \/ watched # "hung"

\* The alarm "engine stopped abnormally" is meant for an engine that does not evaluate.
AlarmMeansStalled ==
    key = "engine_health" /\ seen > 0 => watched = "hung" \/ ~answers
=============================================================================
