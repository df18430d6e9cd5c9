------------------------- MODULE KisConnectionProofs -------------------------
(***************************************************************************)
(* Theorems about KisConnection for every set of symbols and sockets and   *)
(* every number of retries, and about the order book of its adapter for    *)
(* every number of ids, callers and orders.                                *)
(*                                                                         *)
(* That an id has one order is a matter of cardinality; OneAtATime says it *)
(* without, and is inductive with the types and with what callers wait     *)
(* for.                                                                    *)
(***************************************************************************)
EXTENDS KisConnection, OrderBook, FiniteSetTheorems, TLAPS

\* When on_state_change starts a task, and when it lets an error be.
LEMMA TaskStarts ==
    ASSUME KisInv
    PROVE  /\ StartedTask \in Steps
           /\ StartedTask \in {at["task"], "sleep"}
           /\ StartedTask # at["task"] =>
                 enabled /\ retries < MaxRetries /\ ErrorState = "ERROR"
           /\ ErrorState = "ERROR" /\ enabled /\ StartedTask = "none" =>
                 retries = MaxRetries \/ wanted \cap subscribed # {}
PROOF
<1> USE KisAssumption DEF KisInv, TypeOK, States, Steps, Procs, Connectors
<1>1. at["task"] \in Steps /\ retries \in 0..MaxRetries  OBVIOUS
<1>2. retries \in Int /\ MaxRetries \in Int /\ retries <= MaxRetries  OBVIOUS
<1>3. CASE enabled /\ Allowed(state, "ERROR") /\ at["task"] = "none"
           /\ retries < MaxRetries
  BY <1>1, <1>3 DEF StartedTask, ErrorState
<1>4. CASE ~(enabled /\ Allowed(state, "ERROR") /\ at["task"] = "none"
             /\ retries < MaxRetries)
  <2>1. StartedTask = at["task"]  BY <1>4 DEF StartedTask
  <2>2. ASSUME ErrorState = "ERROR", enabled, StartedTask = "none"
        PROVE  retries = MaxRetries \/ wanted \cap subscribed # {}
    <3>1. CASE Allowed(state, "ERROR")  BY <1>2, <1>4, <2>1, <2>2, <3>1
    <3>2. CASE ~Allowed(state, "ERROR")
      <4>1. state = "ERROR"  BY <2>2, <3>2 DEF ErrorState
      <4> QED  BY <2>1, <2>2, <4>1 DEF OnlyListedSymbolsHideALoss
    <3> QED  BY <3>1, <3>2
  <2> QED  BY <1>1, <2>1, <2>2
<1> QED  BY <1>3, <1>4

\* What a failed attempt leaves behind in the reconnect loop.
LEMMA AttemptFails ==
    ASSUME KisInv, at["task"] # "none", Fail("task")
    PROVE  /\ state' = "ERROR" /\ retries' \in 0..MaxRetries
           /\ at' \in [Procs -> Steps] /\ at'["task"] \in {"none", "sleep"}
           /\ at'["task"] = "sleep" => retries' < MaxRetries
           /\ at'["task"] = "none" => retries' = MaxRetries
           /\ at'["caller"] = at["caller"] /\ at'["engine"] = at["engine"]
           /\ UNCHANGED <<enabled, todo, owner>>
PROOF
<1> USE KisAssumption DEF KisInv, TypeOK, Steps, Procs, Connectors
<1>1. retries \in Int /\ MaxRetries \in Int /\ 0 <= retries /\ retries < MaxRetries
  BY DEF TaskInv
<1>2. FailedTask /\ state' = ErrorState /\ UNCHANGED <<enabled, todo, owner>>
  BY DEF Fail
<1>3. state' = "ERROR"
  <2>1. state # "DISCONNECTED"  BY DEF OwnerInv, TaskInv
  <2> QED  BY <1>2, <2>1 DEF ErrorState, Allowed, VALID_TRANSITIONS, States
<1>4. retries' = retries + 1 /\ retries' \in 0..MaxRetries  BY <1>1, <1>2 DEF FailedTask
<1>5. at' = [at EXCEPT !["task"] = IF retries + 1 < MaxRetries THEN "sleep" ELSE "none"]
  BY <1>2 DEF FailedTask
<1>6. /\ at' \in [Procs -> Steps] /\ at'["task"] \in {"none", "sleep"}
      /\ at'["caller"] = at["caller"] /\ at'["engine"] = at["engine"]
  BY <1>5
<1>7. /\ at'["task"] = "sleep" => retries' < MaxRetries
      /\ at'["task"] = "none" => retries' = MaxRetries
  BY <1>1, <1>4, <1>5
<1> QED  BY <1>2, <1>3, <1>4, <1>6, <1>7

\* A failed attempt that disturbs nothing but sockets keeps the invariant.
LEMMA AttemptFailsInv ==
    ASSUME KisInv, at["task"] # "none", Fail("task"),
           UNCHANGED <<wanted, keyCached, notice>>, UNCHANGED subVars,
           ws' \in Sockets \cup {None}, connected' \in BOOLEAN,
           fate' \in [Sockets -> {"unused", "open", "lost", "closed"}]
    PROVE  KisInv'
PROOF
<1>1. /\ state' = "ERROR" /\ retries' \in 0..MaxRetries
      /\ at' \in [Procs -> Steps] /\ at'["task"] \in {"none", "sleep"}
      /\ at'["task"] = "sleep" => retries' < MaxRetries
      /\ at'["task"] = "none" => retries' = MaxRetries
      /\ at'["caller"] = at["caller"] /\ at'["engine"] = at["engine"]
      /\ UNCHANGED <<enabled, todo, owner>>
  BY AttemptFails
<1>2. enabled /\ owner \notin {"new", "connecting", "closing", "closed"}
  BY DEF KisInv, OwnerInv, TaskInv
<1>3. TypeOK'  BY <1>1 DEF KisInv, TypeOK, subVars, States
<1>4. OwnerInv'  BY <1>1, <1>2 DEF KisInv, OwnerInv
<1>5. TaskInv'  BY <1>1, <1>2 DEF TaskInv
<1>6. SleepsInError' /\ OnlyListedSymbolsHideALoss' /\ ClosedStaysClosed'
  BY <1>1, <1>2 DEF SleepsInError, OnlyListedSymbolsHideALoss, ClosedStaysClosed
<1> QED  BY <1>3, <1>4, <1>5, <1>6 DEF KisInv

\* The same for an attempt of the caller, which may start the reconnect task.
LEMMA CallerFailsInv ==
    ASSUME KisInv, at["caller"] # "none", Fail("caller"),
           UNCHANGED <<wanted, keyCached, notice>>, UNCHANGED subVars,
           ws' \in Sockets \cup {None}, connected' \in BOOLEAN,
           fate' \in [Sockets -> {"unused", "open", "lost", "closed"}]
    PROVE  KisInv'
PROOF
<1>1. /\ state' = ErrorState /\ owner' = "discarded"
      /\ at' = [at EXCEPT !["caller"] = "none", !["task"] = StartedTask]
      /\ UNCHANGED <<enabled, todo, retries>>
  BY DEF Fail
<1>2. /\ owner = "connecting" /\ enabled /\ at["task"] = "none"
      /\ state \in {"CONNECTED", "AUTHENTICATED"}
  BY DEF KisInv, OwnerInv
<1>3. state' = "ERROR"  BY <1>1, <1>2 DEF ErrorState, Allowed, VALID_TRANSITIONS
<1>4. /\ at' \in [Procs -> Steps] /\ at'["task"] = StartedTask
      /\ at'["caller"] = "none" /\ at'["engine"] = at["engine"]
  BY <1>1, TaskStarts DEF KisInv, TypeOK, Procs, Connectors, Steps
<1>5. TypeOK'  BY <1>1, <1>3, <1>4 DEF KisInv, TypeOK, subVars, States, Owners
<1>6. OwnerInv'  BY <1>1, <1>2, <1>3, <1>4 DEF KisInv, OwnerInv
<1>7. TaskInv'  BY <1>1, <1>2, <1>4, TaskStarts DEF KisInv, TaskInv
<1>8. SleepsInError' /\ ClosedStaysClosed'
  BY <1>1, <1>3 DEF SleepsInError, ClosedStaysClosed
<1>9. OnlyListedSymbolsHideALoss'
  BY <1>1, <1>3, <1>4, TaskStarts DEF OnlyListedSymbolsHideALoss, subVars
<1> QED  BY <1>5, <1>6, <1>7, <1>8, <1>9 DEF KisInv

\* A failed or finished subscription of the engine moves nothing else.
LEMMA EngineReturns ==
    ASSUME KisInv, Fail("engine") \/ (Succeed("engine") /\ UNCHANGED state)
    PROVE  /\ at' \in [Procs -> Steps] /\ at'["engine"] = "none"
           /\ at'["task"] = at["task"] /\ at'["caller"] = at["caller"]
           /\ UNCHANGED <<state, enabled, retries, todo, owner>>
BY DEF KisInv, TypeOK, Fail, Succeed, Procs, Connectors, Steps

\* Every step of the connection keeps the invariant.
LEMMA KisStep ==
    ASSUME KisInv, [Next]_vars
    PROVE  KisInv'
PROOF
<1> USE DEF KisInv
<1>1. CASE Connect
  <2>1. /\ at["task"] = "none" /\ at'["task"] = "none" /\ at'["engine"] = at["engine"]
        /\ at'["caller"] = "token" /\ at' \in [Procs -> Steps]
    BY <1>1 DEF Connect, TypeOK, OwnerInv, Procs, Connectors, Steps
  <2>2. TypeOK'
    BY <1>1, <2>1 DEF Connect, TypeOK, socketVars, subVars, States, Owners
  <2>3. OwnerInv'
    BY <1>1, <2>1 DEF Connect, OwnerInv, socketVars
  <2> QED
    BY <1>1, <2>1, <2>2, <2>3
    DEF Connect, TaskInv, SleepsInError, OnlyListedSymbolsHideALoss, ClosedStaysClosed
<1>2. CASE TokenArrives("caller")
  <2>1. CASE Allowed(state, "AUTHENTICATED")
    <3>1. /\ at'["task"] = at["task"] /\ at'["engine"] = at["engine"]
          /\ at'["caller"] = "socket" /\ at' \in [Procs -> Steps]
          /\ state' = "AUTHENTICATED" /\ owner = "connecting" /\ at["task"] = "none"
      BY <1>2, <2>1 DEF TokenArrives, TypeOK, OwnerInv, Procs, Connectors, Steps
    <3>2. TypeOK'
      BY <1>2, <2>1, <3>1 DEF TokenArrives, TypeOK, socketVars, subVars, States
    <3> QED
      BY <1>2, <2>1, <3>1, <3>2
      DEF TokenArrives, OwnerInv, TaskInv, SleepsInError,
          OnlyListedSymbolsHideALoss, ClosedStaysClosed, socketVars
  <2>2. CASE ~Allowed(state, "AUTHENTICATED")
    BY <1>2, <2>2, CallerFailsInv DEF TokenArrives, TypeOK, socketVars
  <2> QED  BY <2>1, <2>2
<1>3. CASE ConnectFails("caller")
  BY <1>3, CallerFailsInv DEF ConnectFails, TypeOK, socketVars
<1>4. CASE SocketOpens("caller")
  <2>1. /\ ws' \in Sockets \cup {None} /\ connected' \in BOOLEAN
        /\ fate' \in [Sockets -> {"unused", "open", "lost", "closed"}]
        /\ at["caller"] = "socket" /\ UNCHANGED <<wanted, keyCached, notice>>
    BY <1>4 DEF SocketOpens, TypeOK
  <2>2. CASE Allowed(state, "SUBSCRIBED")
    <3>1. /\ wanted = {} /\ at["task"] = "none" /\ at["engine"] = "none"
          /\ owner = "connecting"
      BY <2>1 DEF OwnerInv
    <3>2. /\ Succeed("caller") /\ state' = "SUBSCRIBED" /\ SendAll({}, ws')
      BY <1>4, <2>2, <3>1 DEF SocketOpens
    <3>3. /\ at' \in [Procs -> Steps] /\ at'["caller"] = "none"
          /\ at'["task"] = "none" /\ at'["engine"] = "none"
          /\ owner' = "owned" /\ UNCHANGED <<enabled, todo, retries>>
      BY <3>1, <3>2 DEF Succeed, TypeOK, Procs, Connectors, Steps
    <3>4. subscribed' = subscribed /\ subs' \in [Sockets -> SUBSET Symbols]
      BY <3>2 DEF SendAll, TypeOK
    <3>5. TypeOK'  BY <2>1, <3>2, <3>3, <3>4 DEF TypeOK, States, Owners
    <3>6. OwnerInv'  BY <3>1, <3>2, <3>3 DEF OwnerInv
    <3> QED
      BY <3>2, <3>3, <3>5, <3>6
      DEF TaskInv, SleepsInError, OnlyListedSymbolsHideALoss, ClosedStaysClosed
  <2>3. CASE ~Allowed(state, "SUBSCRIBED")
    BY <1>4, <2>1, <2>3, CallerFailsInv DEF SocketOpens
  <2> QED  BY <2>2, <2>3
<1>5. CASE ConnectTimesOut
  <2>1. /\ at' \in [Procs -> Steps] /\ at'["caller"] = "none"
        /\ at'["task"] = at["task"] /\ at'["engine"] = at["engine"]
        /\ owner = "connecting" /\ owner' = "discarded"
        /\ state \in {"CONNECTED", "AUTHENTICATED"}
    BY <1>5 DEF ConnectTimesOut, TypeOK, OwnerInv, Procs, Connectors, Steps
  <2>2. TypeOK'
    BY <1>5, <2>1 DEF ConnectTimesOut, TypeOK, machine, socketVars, subVars, Owners
  <2> QED
    BY <1>5, <2>1, <2>2
    DEF ConnectTimesOut, OwnerInv, TaskInv, SleepsInError,
        OnlyListedSymbolsHideALoss, ClosedStaysClosed, machine, socketVars
<1>6. CASE WakeUp
  <2>1. state = "ERROR"  BY <1>6 DEF WakeUp, SleepsInError
  <2>2. Allowed(state, "CONNECTED")  BY <2>1 DEF Allowed, VALID_TRANSITIONS
  <2>3. /\ at' \in [Procs -> Steps] /\ at'["caller"] = at["caller"]
        /\ at'["task"] = "token" /\ at'["engine"] = at["engine"]
        /\ at["task"] # "none" /\ state' = "CONNECTED"
    BY <1>6, <2>2 DEF WakeUp, TypeOK, Procs, Connectors, Steps
  <2>4. TypeOK'
    BY <1>6, <2>2, <2>3 DEF WakeUp, TypeOK, socketVars, subVars, States
  <2> QED
    BY <1>6, <2>2, <2>3, <2>4
    DEF WakeUp, OwnerInv, TaskInv, SleepsInError, OnlyListedSymbolsHideALoss,
        ClosedStaysClosed, socketVars
<1>7. CASE TokenArrives("task")
  <2>1. CASE Allowed(state, "AUTHENTICATED")
    <3>1. /\ at' \in [Procs -> Steps] /\ at'["caller"] = at["caller"]
          /\ at'["task"] = "socket" /\ at'["engine"] = at["engine"]
          /\ at["task"] # "none" /\ state' = "AUTHENTICATED"
      BY <1>7, <2>1 DEF TokenArrives, TypeOK, Procs, Connectors, Steps
    <3>2. TypeOK'
      BY <1>7, <2>1, <3>1 DEF TokenArrives, TypeOK, socketVars, subVars, States
    <3> QED
      BY <1>7, <2>1, <3>1, <3>2
      DEF TokenArrives, OwnerInv, TaskInv, SleepsInError,
          OnlyListedSymbolsHideALoss, ClosedStaysClosed, socketVars
  <2>2. CASE ~Allowed(state, "AUTHENTICATED")
    BY <1>7, <2>2, AttemptFailsInv DEF TokenArrives, TypeOK, socketVars
  <2> QED  BY <2>1, <2>2
<1>8. CASE ConnectFails("task")
  BY <1>8, AttemptFailsInv DEF ConnectFails, TypeOK, socketVars
<1>9. CASE SocketOpens("task")
  <2>1. /\ ws' \in Sockets \cup {None} /\ connected' \in BOOLEAN
        /\ fate' \in [Sockets -> {"unused", "open", "lost", "closed"}]
        /\ ws' \in Sockets
        /\ at["task"] = "socket" /\ UNCHANGED <<wanted, keyCached, notice>>
    BY <1>9 DEF SocketOpens, TypeOK
  <2>2. /\ enabled /\ owner \notin {"new", "connecting", "closing", "closed"}
        /\ retries < MaxRetries
    BY <2>1 DEF OwnerInv, TaskInv
  <2>3. CASE Allowed(state, "SUBSCRIBED") /\ (wanted = {} \/ keyCached)
    <3>1. /\ Succeed("task") /\ state' = "SUBSCRIBED" /\ SendAll(wanted, ws')
      BY <1>9, <2>3 DEF SocketOpens
    <3>2. /\ at' \in [Procs -> Steps] /\ at'["caller"] = at["caller"]
          /\ at'["task"] = "none" /\ at'["engine"] = at["engine"]
          /\ retries' = 0 /\ UNCHANGED <<enabled, todo, owner>>
      BY <3>1 DEF Succeed, TypeOK, Procs, Connectors, Steps
    <3>3. subscribed' \in SUBSET Symbols /\ subs' \in [Sockets -> SUBSET Symbols]
      BY <2>1, <3>1 DEF SendAll, TypeOK
    <3>4. TypeOK'  BY <2>1, <3>1, <3>2, <3>3, KisAssumption DEF TypeOK, States
    <3>5. OwnerInv'  BY <2>1, <2>2, <3>1, <3>2 DEF OwnerInv
    <3> QED
      BY <2>2, <3>1, <3>2, <3>4, <3>5
      DEF TaskInv, SleepsInError, OnlyListedSymbolsHideALoss, ClosedStaysClosed
  <2>4. CASE Allowed(state, "SUBSCRIBED") /\ ~(wanted = {} \/ keyCached)
    <3>1. /\ at' = [at EXCEPT !["task"] = "key"]
          /\ todo' = [todo EXCEPT !["task"] = wanted]
          /\ state' = "SUBSCRIBED" /\ UNCHANGED <<enabled, retries, owner, subVars>>
      BY <1>9, <2>4 DEF SocketOpens
    <3>2. /\ at' \in [Procs -> Steps] /\ at'["caller"] = at["caller"]
          /\ at'["task"] = "key" /\ at'["engine"] = at["engine"]
          /\ todo' \in [Procs -> SUBSET Symbols] /\ todo'["task"] = wanted
      BY <3>1 DEF TypeOK, Procs, Connectors, Steps
    <3>3. TypeOK'  BY <2>1, <3>1, <3>2 DEF TypeOK, States, subVars
    <3>4. OwnerInv'  BY <2>1, <2>2, <3>1, <3>2 DEF OwnerInv
    <3> QED
      BY <2>1, <2>2, <2>4, <3>1, <3>2, <3>3, <3>4
      DEF TaskInv, SleepsInError, OnlyListedSymbolsHideALoss, ClosedStaysClosed
  <2>5. CASE ~Allowed(state, "SUBSCRIBED")
    BY <1>9, <2>1, <2>5, AttemptFailsInv DEF SocketOpens
  <2> QED  BY <2>3, <2>4, <2>5
<1>10. CASE KeyArrives("task")
  <2>1. /\ at["task"] = "key" /\ todo["task"] # {} /\ todo["task"] \subseteq wanted
        /\ todo["task"] \subseteq Symbols
        /\ keyCached' = TRUE /\ UNCHANGED <<socketVars, wanted, notice>>
        /\ Subscribe("task", todo["task"])
    BY <1>10 DEF KeyArrives, TaskInv, TypeOK, Procs, Connectors
  <2>2. /\ enabled /\ owner \notin {"new", "connecting", "closing", "closed"}
    BY <2>1 DEF OwnerInv, TaskInv
  <2>3. CASE Succeed("task") /\ UNCHANGED state /\ todo["task"] \subseteq subscribed'
              /\ subscribed' \in SUBSET Symbols
              /\ subs' \in [Sockets -> SUBSET Symbols]
    <3>1. /\ at' \in [Procs -> Steps] /\ at'["caller"] = at["caller"]
          /\ at'["task"] = "none" /\ at'["engine"] = at["engine"]
          /\ retries' = 0 /\ UNCHANGED <<state, enabled, todo, owner>>
      BY <2>3 DEF Succeed, TypeOK, Procs, Connectors, Steps
    <3>2. TypeOK'
      BY <2>1, <2>3, <3>1, KisAssumption DEF TypeOK, socketVars
    <3>3. OwnerInv'  BY <2>1, <2>2, <3>1 DEF OwnerInv, socketVars
    <3>4. OnlyListedSymbolsHideALoss'
      BY <2>1, <2>3 DEF OnlyListedSymbolsHideALoss
    <3> QED
      BY <2>2, <3>1, <3>2, <3>3, <3>4 DEF TaskInv, SleepsInError, ClosedStaysClosed
  <2>4. CASE Fail("task") /\ UNCHANGED subVars
    <3>1. /\ state' = "ERROR" /\ retries' \in 0..MaxRetries
          /\ at' \in [Procs -> Steps] /\ at'["task"] \in {"none", "sleep"}
          /\ at'["task"] = "sleep" => retries' < MaxRetries
          /\ at'["task"] = "none" => retries' = MaxRetries
          /\ at'["caller"] = at["caller"] /\ at'["engine"] = at["engine"]
          /\ UNCHANGED <<enabled, todo, owner>>
      BY <2>1, <2>4, AttemptFails
    <3>2. TypeOK'  BY <2>1, <2>4, <3>1 DEF TypeOK, States, socketVars, subVars
    <3>3. OwnerInv'  BY <2>1, <2>2, <3>1 DEF OwnerInv, socketVars
    <3> QED
      BY <2>2, <3>1, <3>2, <3>3
      DEF TaskInv, SleepsInError, OnlyListedSymbolsHideALoss, ClosedStaysClosed
  <2> QED
    BY <2>1, <2>3, <2>4 DEF Subscribe, SendAll, TypeOK, subVars
<1>11. CASE KeyFails("task")
  BY <1>11, AttemptFailsInv DEF KeyFails, TypeOK, socketVars
<1>12. CASE SubscribeQuotes
  <2>1. /\ owner = "owned" /\ at["engine"] = "none" /\ IsOperational
        /\ UNCHANGED <<socketVars, keyCached, notice>>
    BY <1>12 DEF SubscribeQuotes
  <2>2. PICK S \in SUBSET Symbols \ {{}} :
          /\ wanted' = wanted \cup S
          /\ \/ ~connected /\ Fail("engine") /\ UNCHANGED subVars
             \/ connected /\ keyCached /\ Subscribe("engine", S)
             \/ /\ at' = [at EXCEPT !["engine"] = "key"]
                /\ todo' = [todo EXCEPT !["engine"] = S]
                /\ UNCHANGED <<machine, subVars, owner>>
    BY <1>12 DEF SubscribeQuotes
  <2>3. /\ subscribed \subseteq subscribed' /\ subscribed' \in SUBSET Symbols
        /\ subs' \in [Sockets -> SUBSET Symbols]
    BY <2>1, <2>2 DEF Subscribe, SendAll, TypeOK, subVars
  <2>4. /\ at' \in [Procs -> Steps] /\ at'["task"] = at["task"]
        /\ at'["caller"] = at["caller"]
        /\ todo' \in [Procs -> SUBSET Symbols] /\ todo'["task"] = todo["task"]
        /\ UNCHANGED <<state, enabled, retries, owner>>
    <3>1. CASE Fail("engine") \/ (Succeed("engine") /\ UNCHANGED state)
      BY <3>1, EngineReturns DEF TypeOK
    <3>2. CASE /\ at' = [at EXCEPT !["engine"] = "key"]
               /\ todo' = [todo EXCEPT !["engine"] = S]
               /\ UNCHANGED <<machine, subVars, owner>>
      BY <3>2 DEF TypeOK, Procs, Connectors, Steps, machine
    <3> QED  BY <2>2, <3>1, <3>2 DEF Subscribe
  <2>5. TypeOK'  BY <2>1, <2>2, <2>3, <2>4 DEF TypeOK, socketVars
  <2>6. OwnerInv'  BY <2>1, <2>4 DEF OwnerInv, socketVars
  <2>7. TaskInv'  BY <2>2, <2>4 DEF TaskInv
  <2> QED
    BY <2>1, <2>2, <2>3, <2>4, <2>5, <2>6, <2>7
    DEF SleepsInError, OnlyListedSymbolsHideALoss, ClosedStaysClosed, IsOperational
<1>13. CASE KeyArrives("engine") \/ KeyFails("engine")
  <2>1. /\ at["engine"] = "key" /\ owner = "owned" /\ todo["engine"] \in SUBSET Symbols
        /\ keyCached' \in BOOLEAN /\ UNCHANGED <<socketVars, wanted, notice>>
    BY <1>13 DEF KeyArrives, KeyFails, OwnerInv, TypeOK, Procs, Connectors
  <2>2. Fail("engine") \/ (Succeed("engine") /\ UNCHANGED state)
    BY <1>13 DEF KeyArrives, KeyFails, Subscribe
  <2>3. /\ subscribed \subseteq subscribed' /\ subscribed' \in SUBSET Symbols
        /\ subs' \in [Sockets -> SUBSET Symbols]
    BY <1>13, <2>1 DEF KeyArrives, KeyFails, Subscribe, SendAll, TypeOK, subVars
  <2>4. /\ at' \in [Procs -> Steps] /\ at'["engine"] = "none"
        /\ at'["task"] = at["task"] /\ at'["caller"] = at["caller"]
        /\ UNCHANGED <<state, enabled, retries, todo, owner>>
    BY <2>2, EngineReturns
  <2>5. TypeOK'  BY <2>1, <2>3, <2>4 DEF TypeOK, socketVars
  <2>6. OwnerInv'  BY <2>1, <2>4 DEF OwnerInv, socketVars
  <2> QED
    BY <2>1, <2>3, <2>4, <2>5, <2>6
    DEF TaskInv, SleepsInError, OnlyListedSymbolsHideALoss, ClosedStaysClosed
<1>14. ASSUME NEW s \in Sockets, SocketLost(s) PROVE KisInv'
  <2>1. TypeOK'
    BY <1>14 DEF SocketLost, TypeOK, machine, subVars
  <2>2. OwnerInv'
    BY <1>14 DEF SocketLost, OwnerInv, machine, TypeOK
  <2> QED
    BY <1>14, <2>1, <2>2
    DEF SocketLost, machine, subVars, TaskInv, SleepsInError,
        OnlyListedSymbolsHideALoss, ClosedStaysClosed
<1>15. ASSUME NEW s \in Sockets, SocketClosed(s) PROVE KisInv'
  <2>1. TypeOK'
    BY <1>15 DEF SocketClosed, TypeOK, machine, subVars
  <2>2. OwnerInv'
    BY <1>15 DEF SocketClosed, OwnerInv, machine, TypeOK
  <2> QED
    BY <1>15, <2>1, <2>2
    DEF SocketClosed, machine, subVars, TaskInv, SleepsInError,
        OnlyListedSymbolsHideALoss, ClosedStaysClosed
<1>16. CASE HandleNotice
  <2>1. /\ at' \in [Procs -> Steps] /\ at'["caller"] = at["caller"]
        /\ at'["task"] = StartedTask /\ at'["engine"] = at["engine"]
        /\ owner \notin {"new", "connecting"} /\ notice' = FALSE
        /\ state' = ErrorState /\ state' \in {state, "ERROR"}
        /\ UNCHANGED <<enabled, retries, todo, socketVars, subVars, wanted,
                       keyCached, owner>>
    BY <1>16, TaskStarts
    DEF HandleNotice, TypeOK, OwnerInv, Procs, Connectors, Steps, ErrorState
  <2>2. TypeOK'  BY <2>1 DEF TypeOK, States, socketVars, subVars
  <2>3. state = "DISCONNECTED" => state' = "DISCONNECTED"
    BY <2>1 DEF ErrorState, Allowed, VALID_TRANSITIONS
  <2>4. OwnerInv'  BY <2>1, <2>3 DEF OwnerInv, socketVars
  <2>5. TaskInv'  BY <2>1, TaskStarts DEF TaskInv
  <2>6. SleepsInError'
    <3>1. CASE StartedTask = at["task"]  BY <2>1, <3>1 DEF SleepsInError, ErrorState
    <3>2. CASE StartedTask # at["task"]  BY <2>1, <3>2, TaskStarts DEF SleepsInError
    <3> QED  BY <3>1, <3>2
  <2>7. OnlyListedSymbolsHideALoss'
    BY <2>1, TaskStarts DEF OnlyListedSymbolsHideALoss, subVars
  <2>8. ClosedStaysClosed'
    BY <2>1, <2>3, TaskStarts DEF ClosedStaysClosed, OwnerInv
  <2> QED  BY <2>2, <2>4, <2>5, <2>6, <2>7, <2>8
<1>17. CASE InvalidateKey
  BY <1>17
  DEF InvalidateKey, TypeOK, OwnerInv, TaskInv, SleepsInError,
      OnlyListedSymbolsHideALoss, ClosedStaysClosed, machine, socketVars, subVars
<1>18. CASE Replace
  BY <1>18
  DEF Replace, TypeOK, OwnerInv, TaskInv, SleepsInError, Owners,
      OnlyListedSymbolsHideALoss, ClosedStaysClosed, machine, socketVars, subVars
<1>19. CASE Disconnect
  <2>1. /\ at' \in [Procs -> Steps] /\ at'["caller"] = at["caller"]
        /\ at'["task"] = "none" /\ at'["engine"] = at["engine"]
    BY <1>19 DEF Disconnect, TypeOK, Procs, Connectors, Steps
  <2>2. TypeOK'
    BY <1>19, <2>1 DEF Disconnect, TypeOK, Owners, socketVars, subVars
  <2> QED
    BY <1>19, <2>1, <2>2
    DEF Disconnect, OwnerInv, TaskInv, SleepsInError, OnlyListedSymbolsHideALoss,
        ClosedStaysClosed, socketVars
<1>20. CASE Disconnected
  <2>1. at["task"] = "none" /\ at' = at  BY <1>20 DEF Disconnected, OwnerInv, TaskInv
  <2>2. TypeOK'  BY <1>20 DEF Disconnected, TypeOK, Owners, States
  <2> QED
    BY <1>20, <2>1, <2>2
    DEF Disconnected, OwnerInv, TaskInv, SleepsInError, OnlyListedSymbolsHideALoss,
        ClosedStaysClosed
<1>21. CASE UNCHANGED vars
  BY <1>21
  DEF vars, machine, socketVars, subVars, TypeOK, OwnerInv, TaskInv, SleepsInError,
      OnlyListedSymbolsHideALoss, ClosedStaysClosed
<1> QED
  BY <1>1, <1>2, <1>3, <1>4, <1>5, <1>6, <1>7, <1>8, <1>9, <1>10, <1>11, <1>12,
     <1>13, <1>14, <1>15, <1>16, <1>17, <1>18, <1>19, <1>20, <1>21
  DEF Next, Connecting, TaskStep, Subscribing

\* The invariant holds when the adapter has just been made.
LEMMA KisInit == Init => KisInv
PROOF
<1> SUFFICES ASSUME Init PROVE KisInv
  OBVIOUS
<1>1. at \in [Procs -> Steps] /\ todo \in [Procs -> SUBSET Symbols]
  BY DEF Init, Steps
<1>2. /\ fate \in [Sockets -> {"unused", "open", "lost", "closed"}]
      /\ subs \in [Sockets -> SUBSET Symbols]
  BY DEF Init
<1>3. /\ at["caller"] = "none" /\ at["task"] = "none" /\ at["engine"] = "none"
  BY DEF Init, Procs, Connectors
<1>4. 0 \in 0..MaxRetries  BY KisAssumption
<1>5. TypeOK  BY <1>1, <1>2, <1>4 DEF Init, TypeOK, States, Owners
<1>6. OwnerInv  BY <1>3 DEF Init, OwnerInv
<1> QED
  BY <1>3, <1>5, <1>6
  DEF Init, KisInv, TaskInv, SleepsInError, OnlyListedSymbolsHideALoss,
      ClosedStaysClosed

\* The state machine, the reconnect manager and the owner of the adapter agree
\* in every reachable state, however calls, drops and notices interleave.
THEOREM KisInvariant == Spec => []KisInv
PROOF
<1>1. KisInv /\ [Next]_vars => KisInv'  BY KisStep
<1> QED  BY KisInit, <1>1, PTL DEF Spec

\* The owner's attempt and the reconnect task's never overlap: an adapter is
\* connected by its owner once, and the callback starts the task only after
\* that attempt has ended.
THEOREM AttemptsAlone == Spec => []OneAttempt
PROOF
<1>1. KisInv => OneAttempt  BY DEF KisInv, OwnerInv, OneAttempt
<1> QED  BY <1>1, KisInvariant, PTL

\* The reconnect task always wakes up to a state it may leave.
THEOREM RetriesNotWasted == Spec => []SleepsInError
PROOF
<1>1. KisInv => SleepsInError  BY DEF KisInv
<1> QED  BY <1>1, KisInvariant, PTL

\* With nothing listed as subscribed, every noticed loss is followed up until
\* the retries are used up.
THEOREM LossFollowedUp == Spec => []OnlyListedSymbolsHideALoss
PROOF
<1>1. KisInv => OnlyListedSymbolsHideALoss  BY DEF KisInv
<1> QED  BY <1>1, KisInvariant, PTL

\* No late notice brings a disconnected adapter back.
THEOREM StaysClosed == Spec => []ClosedStaysClosed
PROOF
<1>1. KisInv => ClosedStaysClosed  BY DEF KisInv
<1> QED  BY <1>1, KisInvariant, PTL

----------------------------------------------------------------------------
(* The order book.                                                         *)

USE BookAssumption DEF NoNumber, Numbers, LocalKeys, NoRecord, NoQuery, Waiting

BookCore == BookTypeOK /\ CallersWait /\ OneAtATime /\ RecordsAreTrue

\* A set whose elements are all equal has at most one.
LEMMA AtMostOne ==
    ASSUME NEW S, \A x, y \in S : x = y
    PROVE  Cardinality(S) <= 1
<1>1. CASE S = {}
  BY <1>1, FS_EmptySet, SMT
<1>2. CASE S # {}
  <2> PICK x \in S : TRUE
    BY <1>2
  <2>1. S = {x}
    OBVIOUS
  <2>2. Cardinality(S) = 1
    BY <2>1, FS_Singleton, Zenon
  <2> QED
    BY <2>2
<1> QED
  BY <1>1, <1>2

LEMMA BookCoreImplies == BookCore => BookInv
<1>1. BookCore => OncePerId
  BY AtMostOne DEF BookCore, OneAtATime, InOnePlace, OncePerId
<1> QED
  BY <1>1 DEF BookCore, BookInv

LEMMA BookInitially ==
    ASSUME BookInit
    PROVE  BookCore
<1>1. (CHOOSE i \in Ids : TRUE) \in Ids
  OBVIOUS
<1>2. BookTypeOK
  BY <1>1 DEF BookInit, BookTypeOK
<1>3. CallersWait /\ RecordsAreTrue
  BY DEF BookInit, CallersWait, RecordsAreTrue
<1>4. \A i \in Ids : OrdersOf(i) = {} /\ \A c \in Callers : ~IsPlacing(c, i)
  BY DEF BookInit, OrdersOf, IsPlacing
<1>5. \A c \in Callers : step[c] # "placing"
  BY DEF BookInit
<1>6. OneAtATime
  BY <1>4, <1>5 DEF OneAtATime, InOnePlace
<1> QED
  BY <1>2, <1>3, <1>6 DEF BookCore

LEMMA PlaceOrderKeeps ==
    ASSUME BookCore, NEW c \in Callers, NEW i \in Ids, PlaceOrder(c, i)
    PROVE  BookCore'
<1> USE DEF BookCore
<1>1. BookTypeOK' /\ CallersWait' /\ RecordsAreTrue'
  <2>1. excused' \subseteq Ids /\ UNCHANGED <<adapter, records, local, book, idOf, query, denied>>
    BY DEF PlaceOrder, BookTypeOK
  <2>2. \/ UNCHANGED <<step, asks>>
        \/ /\ step' = [step EXCEPT ![c] = "placing"]
           /\ asks' = [asks EXCEPT ![c] = i]
    BY DEF PlaceOrder, CallerGoes
  <2>3. step' \in [Callers -> {"idle"} \union Waiting] /\ asks' \in [Callers -> Ids \union LocalKeys]
    BY <2>2 DEF BookTypeOK
  <2>4. BookTypeOK'
    BY <2>1, <2>3 DEF BookTypeOK
  <2>5. CallersWait'
    BY <2>1, <2>2 DEF BookTypeOK, CallersWait
  <2>6. RecordsAreTrue'
    BY <2>1 DEF RecordsAreTrue, OrdersOf
  <2> QED  BY <2>4, <2>5, <2>6
<1>2. ASSUME NEW j \in Ids \ excused'
      PROVE  InOnePlace(j)'
  <2>1. InOnePlace(j) /\ OrdersOf(j)' = OrdersOf(j) /\ Known(j)' = Known(j)
    BY <1>2 DEF PlaceOrder, OneAtATime, OrdersOf, Known
  <2>2. CASE Known(i)
    BY <2>1, <2>2 DEF PlaceOrder, InOnePlace, IsPlacing
  <2>3. CASE ~Known(i)
    <3>1. /\ step[c] = "idle"
          /\ step' = [step EXCEPT ![c] = "placing"]
          /\ asks' = [asks EXCEPT ![c] = i]
          /\ UNCHANGED <<idOf, records>>
      BY <2>3 DEF PlaceOrder, CallerGoes
    <3>2. i = j => \A d \in Callers : ~IsPlacing(d, j)
      BY <1>2 DEF PlaceOrder
    <3>3. \A d \in Callers : IsPlacing(d, j)' => IsPlacing(d, j) \/ (d = c /\ i = j)
      BY <3>1 DEF IsPlacing, BookTypeOK
    <3>4. \A n \in OrdersOf(j) :
             (\E d \in Callers : step[d] = "accepted" /\ asks[d] = n) =>
             (\E d \in Callers : step'[d] = "accepted" /\ asks'[d] = n)
      BY <3>1 DEF BookTypeOK
    <3>5. i = j => OrdersOf(j) = {}
      <4> SUFFICES ASSUME i = j, NEW n \in OrdersOf(j)
                   PROVE  FALSE
        OBVIOUS
      <4>1. n \in Numbers /\ idOf[n] = j /\ records[j] = NoRecord
        BY <2>3 DEF OrdersOf, Known
      <4>2. PICK d \in Callers : step[d] = "accepted" /\ asks[d] = n
        BY <2>1, <4>1 DEF InOnePlace
      <4> QED
        BY <3>2, <4>1, <4>2 DEF IsPlacing
    <3>6. \A d \in Callers : step'[d] = "placing" /\ asks'[d] = j => OrdersOf(j) = {}
      BY <2>1, <3>1, <3>5 DEF InOnePlace, BookTypeOK
    <3>7. \A d \in Callers : IsPlacing(d, j)' => ~Known(j)
      BY <2>1, <2>3, <3>3 DEF InOnePlace
    <3>8. \A d, e \in Callers : IsPlacing(d, j)' /\ IsPlacing(e, j)' => d = e
      BY <2>1, <3>2, <3>3 DEF InOnePlace
    <3>9. \A n \in OrdersOf(j) :
             records'[j] = n \/ \E d \in Callers : step'[d] = "accepted" /\ asks'[d] = n
      BY <2>1, <3>1, <3>4 DEF InOnePlace
    <3>10. \A n, m \in OrdersOf(j) : n = m
      BY <2>1 DEF InOnePlace
    <3> QED
      BY <2>1, <3>6, <3>7, <3>8, <3>9, <3>10 DEF InOnePlace
  <2> QED
    BY <2>2, <2>3
<1> QED
  BY <1>1, <1>2 DEF OneAtATime

LEMMA AcceptKeeps ==
    ASSUME BookCore, NEW c \in Callers, Accept(c)
    PROVE  BookCore'
<1> USE DEF BookCore
<1>1. BookTypeOK' /\ CallersWait' /\ RecordsAreTrue'
  BY DEF Accept, CallerGoes, BookTypeOK, CallersWait, RecordsAreTrue, OrdersOf
<1>2. PICK n \in Numbers : /\ book[n] = "unused"
                           /\ book' = [book EXCEPT ![n] = "open"]
                           /\ idOf' = [idOf EXCEPT ![n] = asks[c]]
                           /\ step' = [step EXCEPT ![c] = "accepted"]
                           /\ asks' = [asks EXCEPT ![c] = n]
  BY DEF Accept, CallerGoes
<1>3. step[c] = "placing" /\ asks[c] \in Ids /\ UNCHANGED <<records, excused>>
  BY DEF Accept, CallersWait
<1>4. ASSUME NEW j \in Ids \ excused
      PROVE  InOnePlace(j)'
  <2>1. OrdersOf(j)' = IF j = asks[c] THEN OrdersOf(j) \union {n} ELSE OrdersOf(j)
    BY <1>2, <1>3 DEF OrdersOf, BookTypeOK
  <2>2. \A d \in Callers : step[d] = "accepted" => asks[d] \in Numbers /\ asks[d] # n
    BY <1>2 DEF CallersWait
  <2>3. \A d \in Callers : IsPlacing(d, j)' <=> IsPlacing(d, j)
    BY <1>2, <1>3, <2>2 DEF IsPlacing, BookTypeOK
  <2>4. InOnePlace(j)
    BY DEF OneAtATime
  <2>5. j = asks[c] => OrdersOf(j) = {}
    BY <1>3, <2>4 DEF InOnePlace
  <2>6. \A d \in Callers : step'[d] = "placing" /\ asks'[d] = j => OrdersOf(j)' = {}
    <3> SUFFICES ASSUME NEW d \in Callers, step'[d] = "placing", asks'[d] = j
                 PROVE  OrdersOf(j)' = {}
      OBVIOUS
    <3>1. d # c /\ step[d] = "placing" /\ asks[d] = j
      BY <1>2 DEF BookTypeOK
    <3>2. OrdersOf(j) = {} /\ j # asks[c]
      BY <1>3, <2>4, <3>1 DEF InOnePlace, IsPlacing
    <3> QED
      BY <2>1, <3>2
  <2>7. \A m \in OrdersOf(j)' :
           records[j] = m \/ \E d \in Callers : step'[d] = "accepted" /\ asks'[d] = m
    <3> SUFFICES ASSUME NEW m \in OrdersOf(j)', records[j] # m
                 PROVE  \E d \in Callers : step'[d] = "accepted" /\ asks'[d] = m
      OBVIOUS
    <3>1. CASE m = n
      BY <1>2, <3>1 DEF BookTypeOK
    <3>2. CASE m # n
      <4>1. PICK d \in Callers : step[d] = "accepted" /\ asks[d] = m
        BY <2>1, <2>4, <3>2 DEF InOnePlace
      <4> QED
        BY <1>2, <1>3, <4>1 DEF BookTypeOK
    <3> QED
      BY <3>1, <3>2
  <2>8. \A m, k \in OrdersOf(j)' : m = k
    BY <2>1, <2>4, <2>5 DEF InOnePlace
  <2>9. Known(j)' = Known(j)
    BY <1>3 DEF Known
  <2> QED
    BY <1>3, <2>3, <2>4, <2>6, <2>7, <2>8, <2>9 DEF InOnePlace
<1> QED
  BY <1>1, <1>3, <1>4 DEF OneAtATime

LEMMA PlacedKeeps ==
    ASSUME BookCore, NEW c \in Callers, Placed(c)
    PROVE  BookCore'
<1> USE DEF BookCore
<1>1. BookTypeOK' /\ CallersWait' /\ RecordsAreTrue'
  BY DEF Placed, Register, Returns, CallerGoes, BookTypeOK, CallersWait, RecordsAreTrue, OrdersOf
<1>2. OneAtATime'
  BY DEF Placed, Register, Returns, CallerGoes, BookTypeOK, CallersWait, RecordsAreTrue, OrdersOf,
         OneAtATime, InOnePlace, IsPlacing, Known
<1> QED
  BY <1>1, <1>2

\* The Kiwoom adapter forgets the call, the KIS adapter registers a missing number.
LEMMA RefusedKeeps ==
    ASSUME BookCore, NEW c \in Callers, PlaceRefused(c)
    PROVE  BookCore'
<1> USE DEF BookCore
<1>1. /\ step[c] = "placing" /\ asks[c] \in Ids
      /\ step' = [step EXCEPT ![c] = "idle"]
      /\ asks' = [asks EXCEPT ![c] = NoNumber]
      /\ UNCHANGED <<adapter, book, idOf, query, denied, excused>>
  BY DEF PlaceRefused, Register, Returns, CallerGoes, CallersWait
<1>2. \/ UNCHANGED <<records, local>>
      \/ /\ adapter = "kis"
         /\ records' = [records EXCEPT ![asks[c]] = NoNumber]
         /\ local' = [local EXCEPT ![NoNumber] = "SUBMITTED"]
  BY DEF PlaceRefused, ChecksReturnCode, Register, BookTypeOK
<1>3. BookTypeOK'
  <2>1. step' \in [Callers -> {"idle"} \union Waiting] /\ asks' \in [Callers -> Ids \union LocalKeys]
    BY <1>1 DEF BookTypeOK
  <2>2. /\ records' \in [Ids -> LocalKeys \union {NoRecord}]
        /\ local' \in [LocalKeys -> {"absent", "SUBMITTED", "FILLED", "CANCELLED"}]
    BY <1>1, <1>2 DEF BookTypeOK
  <2> QED
    BY <1>1, <2>1, <2>2 DEF BookTypeOK
<1>4. CallersWait'
  BY <1>1 DEF CallersWait, BookTypeOK
<1>5. \A i \in Ids : OrdersOf(i)' = OrdersOf(i)
  BY <1>1 DEF OrdersOf
<1>6. RecordsAreTrue'
  BY <1>1, <1>2, <1>5 DEF RecordsAreTrue, BookTypeOK
<1>7. ASSUME NEW j \in Ids \ excused
      PROVE  InOnePlace(j)'
  <2>1. InOnePlace(j)
    BY <1>7 DEF OneAtATime
  <2>2. \A d \in Callers : IsPlacing(d, j)' => IsPlacing(d, j) /\ d # c
    BY <1>1 DEF IsPlacing, BookTypeOK
  <2>3. IsPlacing(c, j) <=> j = asks[c]
    BY <1>1 DEF IsPlacing
  <2>4. j # asks[c] => records'[j] = records[j]
    BY <1>2 DEF BookTypeOK
  <2>5. \A d \in Callers : IsPlacing(d, j)' => ~Known(j)'
    BY <1>1, <2>1, <2>2, <2>3, <2>4 DEF InOnePlace, Known
  <2>6. \A d \in Callers : step'[d] = "placing" /\ asks'[d] = j => OrdersOf(j)' = {}
    BY <1>1, <1>5, <2>1 DEF InOnePlace, BookTypeOK
  <2>7. j = asks[c] => OrdersOf(j) = {}
    BY <1>1, <2>1 DEF InOnePlace
  <2>8. \A n \in OrdersOf(j)' :
           records'[j] = n \/ \E d \in Callers : step'[d] = "accepted" /\ asks'[d] = n
    <3> SUFFICES ASSUME NEW n \in OrdersOf(j), records[j] # n, j # asks[c]
                 PROVE  \E d \in Callers : step'[d] = "accepted" /\ asks'[d] = n
      BY <1>5, <2>4, <2>7
    <3>1. PICK d \in Callers : step[d] = "accepted" /\ asks[d] = n
      BY <2>1 DEF InOnePlace
    <3> QED
      BY <1>1, <3>1 DEF BookTypeOK
  <2> QED
    BY <1>5, <2>1, <2>2, <2>5, <2>6, <2>8 DEF InOnePlace
<1> QED
  BY <1>1, <1>3, <1>4, <1>6, <1>7 DEF OneAtATime

LEMMA FailsKeeps ==
    ASSUME BookCore, NEW c \in Callers, PlaceFails(c)
    PROVE  BookCore'
<1> USE DEF BookCore
<1>1. BookTypeOK' /\ CallersWait' /\ RecordsAreTrue'
  BY DEF PlaceFails, Returns, CallerGoes, BookTypeOK, CallersWait, RecordsAreTrue, OrdersOf
<1>2. OneAtATime'
  BY DEF PlaceFails, Returns, CallerGoes, BookTypeOK, CallersWait, RecordsAreTrue, OrdersOf,
         OneAtATime, InOnePlace, IsPlacing, Known
<1> QED
  BY <1>1, <1>2

LEMMA CancelKeeps ==
    ASSUME BookCore, NEW c \in Callers,
           \/ \E n \in Numbers : CancelOrder(c, n)
           \/ CancelArrives(c) \/ CancelAnswered(c) \/ CancelFails(c)
    PROVE  BookCore'
<1> USE DEF BookCore
<1>1. CASE \E n \in Numbers : CancelOrder(c, n)
  BY <1>1 DEF CancelOrder, CallerGoes, BookTypeOK, CallersWait, RecordsAreTrue, OrdersOf,
              OneAtATime, InOnePlace, IsPlacing, Known
<1>2. CASE CancelArrives(c)
  <2>1. BookTypeOK'
    BY <1>2 DEF CancelArrives, CallerGoes, BookTypeOK
  <2>2. CallersWait' /\ RecordsAreTrue'
    BY <1>2 DEF CancelArrives, CallerGoes, BookTypeOK, CallersWait, RecordsAreTrue, OrdersOf
  <2>3. \A i \in Ids : OrdersOf(i)' = OrdersOf(i)
    BY <1>2 DEF CancelArrives, BookTypeOK, OrdersOf
  <2>4. ASSUME NEW d \in Callers
        PROVE  /\ step'[d] = "placing" => step[d] = "placing"
               /\ step'[d] = "accepted" => step[d] = "accepted"
               /\ step[d] = "accepted" => step'[d] = "accepted"
    BY <1>2 DEF CancelArrives, CallerGoes, BookTypeOK
  <2>5. UNCHANGED <<records, idOf, asks, excused>>
    BY <1>2 DEF CancelArrives
  <2>6. OneAtATime'
    <3> SUFFICES ASSUME NEW i \in Ids \ excused
                 PROVE  InOnePlace(i)'
      BY <2>5 DEF OneAtATime
    <3>1. InOnePlace(i)
      BY DEF OneAtATime
    <3>2. records' = records /\ asks' = asks /\ idOf' = idOf
      BY <2>5
    <3>3. ASSUME NEW d \in Callers
          PROVE  (IsPlacing(d, i)' => IsPlacing(d, i)) /\ (Known(i)' => Known(i))
      <4>1. (step'[d] = "placing" => step[d] = "placing") /\ (step'[d] = "accepted" => step[d] = "accepted")
        BY <2>4
      <4>2. CASE step'[d] = "placing" /\ asks'[d] = i
        BY <3>2, <4>1, <4>2 DEF IsPlacing, Known
      <4>3. CASE step'[d] = "accepted" /\ idOf'[asks'[d]] = i
        BY <3>2, <4>1, <4>3 DEF IsPlacing, Known
      <4>4. Known(i)' => Known(i)
        BY <3>2 DEF Known
      <4> QED  BY <4>2, <4>3, <4>4 DEF IsPlacing
    <3>4. /\ \A n, m \in OrdersOf(i)' : n = m
          /\ \A d, e \in Callers : IsPlacing(d, i)' /\ IsPlacing(e, i)' => d = e
          /\ \A d \in Callers : IsPlacing(d, i)' => ~Known(i)'
      BY <2>3, <3>1, <3>2, <3>3 DEF InOnePlace
    <3>5. /\ \A d \in Callers : step'[d] = "placing" /\ asks'[d] = i => OrdersOf(i)' = {}
          /\ \A n \in OrdersOf(i)' :
                records'[i] = n \/ \E d \in Callers : step'[d] = "accepted" /\ asks'[d] = n
      BY <2>3, <2>4, <3>1, <3>2 DEF InOnePlace
    <3> QED  BY <3>4, <3>5 DEF InOnePlace
  <2> QED  BY <2>1, <2>2, <2>6
<1>3. CASE CancelAnswered(c)
  BY <1>3 DEF CancelAnswered, Returns, CallerGoes, BookTypeOK, CallersWait,
              RecordsAreTrue, OrdersOf, OneAtATime, InOnePlace, IsPlacing, Known
<1>4. CASE CancelFails(c)
  BY <1>4 DEF CancelFails, Returns, CallerGoes, BookTypeOK, CallersWait,
              RecordsAreTrue, OrdersOf, OneAtATime, InOnePlace, IsPlacing, Known
<1> QED
  BY <1>1, <1>2, <1>3, <1>4

\* Fills, the passing of a day, and the reconciler.
LEMMA BrokerKeeps ==
    ASSUME BookCore,
           \/ \E n \in Numbers : OrderFilled(n)
           \/ DayPasses \/ Snapshot \/ SnapshotRefused \/ QueryFails \/ CompareBooks
    PROVE  BookCore'
<1> USE DEF BookCore
<1>1. CASE \E n \in Numbers : OrderFilled(n)
  BY <1>1 DEF OrderFilled, BookTypeOK, CallersWait, RecordsAreTrue, OrdersOf, OneAtATime,
              InOnePlace, IsPlacing, Known
<1>2. CASE DayPasses
  <2>1. BookTypeOK'
    BY <1>2 DEF DayPasses, BookTypeOK
  <2>2. CallersWait' /\ RecordsAreTrue'
    BY <1>2 DEF DayPasses, BookTypeOK, CallersWait, RecordsAreTrue, OrdersOf, Known
  <2>3. OneAtATime'
    BY <1>2 DEF DayPasses, BookTypeOK, OrdersOf, OneAtATime, InOnePlace, IsPlacing, Known
  <2> QED  BY <2>1, <2>2, <2>3
<1>3. CASE Snapshot \/ SnapshotRefused \/ QueryFails
  <2>1. /\ query' \in SUBSET LocalKeys /\ denied' \in BOOLEAN
        /\ UNCHANGED <<adapter, records, local, book, idOf, step, asks, excused>>
    BY <1>3 DEF Snapshot, SnapshotRefused, QueryFails, BookTypeOK
  <2>2. BookTypeOK'
    BY <2>1 DEF BookTypeOK
  <2>3. CallersWait' /\ RecordsAreTrue' /\ OneAtATime'
    BY <2>1 DEF CallersWait, RecordsAreTrue, OrdersOf, OneAtATime, InOnePlace, IsPlacing, Known
  <2> QED  BY <2>2, <2>3
<1>4. CASE CompareBooks
  <2>1. /\ UNCHANGED <<adapter, records, book, idOf, step, asks, excused>>
        /\ local' = Reconciled(query) /\ query' = NoQuery /\ denied' = FALSE
    BY <1>4 DEF CompareBooks
  <2>2. BookTypeOK'
    BY <2>1 DEF Reconciled, BookTypeOK
  <2>3. CallersWait' /\ RecordsAreTrue' /\ OneAtATime'
    BY <2>1 DEF CallersWait, RecordsAreTrue, OrdersOf, OneAtATime, InOnePlace, IsPlacing, Known
  <2> QED  BY <2>2, <2>3
<1> QED
  BY <1>1, <1>2, <1>3, <1>4

LEMMA BookStutters ==
    ASSUME BookCore, UNCHANGED bookVars
    PROVE  BookCore'
  BY DEF BookCore, bookVars, BookTypeOK, CallersWait, RecordsAreTrue, OrdersOf, OneAtATime,
         InOnePlace, IsPlacing, Known

\* An id has one order at the broker, unless its answer was lost, two calls with it
\* overlapped or a day has passed, and what is on record for an id is an order of that
\* id or a refusal of KIS.
THEOREM BookInvariant == BookSpec => []BookInv
<1>1. BookInit => BookCore
  BY BookInitially
<1>2. BookCore /\ [BookNext]_bookVars => BookCore'
  BY PlaceOrderKeeps, AcceptKeeps, PlacedKeeps, RefusedKeeps, FailsKeeps, CancelKeeps,
     BrokerKeeps, BookStutters DEF BookNext, BrokerAnswers
<1>3. BookCore => BookInv
  BY BookCoreImplies
<1> QED
  BY <1>1, <1>2, <1>3, PTL DEF BookSpec

HIDE BookAssumption DEF NoNumber, Numbers, LocalKeys, NoRecord, NoQuery, Waiting
=============================================================================
