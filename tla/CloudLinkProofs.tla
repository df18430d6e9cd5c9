--------------------------- MODULE CloudLinkProofs ---------------------------
(***************************************************************************)
(* Theorems about four of the parts that MCCloudLink checks, for every     *)
(* value of their constants: the sessions of devices, the rotation of      *)
(* tokens, the synchronisation of rules, and accounts.  The fifth, the     *)
(* relay, has RemoteControlProofs.                                         *)
(***************************************************************************)
EXTENDS DeviceSessions, TokenRotation, RuleSync, Accounts, SequenceLemmas, FiniteSetTheorems

----------------------------------------------------------------------------
(* DeviceSessions                                                          *)

USE SessionAssumption

LEMMA RegisteredFinite == IsFiniteSet(Registered) /\ Cardinality(Registered) \in Nat
<1>1. IsFiniteSet(Registered)
  BY FS_Subset DEF Registered
<1> QED
  BY <1>1, FS_CardinalityType

LEMMA SessionsInitially ==
    ASSUME SessionInit
    PROVE  SessionInv
<1>1. Registered = {}
  BY DEF SessionInit, Registered
<1>2. SessionTypeOK /\ OnePingPerSession
  BY <1>1 DEF SessionInit, SessionTypeOK, OnePingPerSession
<1>3. SessionsWithinLimit
  BY <1>1, FS_EmptySet, SMT DEF SessionsWithinLimit
<1> QED
  BY <1>2, <1>3 DEF SessionInv

\* Whatever unregisters a device ends its ping task, since that is the stored one.
LEMMA UnregisterKeeps ==
    ASSUME SessionInv, NEW d \in Devices, Unregister(d),
           socket' \in [Devices -> [Channels -> {"none", "open", "dead"}]],
           sending' \subseteq Devices \X Channels
    PROVE  SessionInv'
<1> USE DEF SessionInv
<1>1. SessionTypeOK'
  BY DEF Unregister, PingsWithout, SessionTypeOK
<1>2. Registered' = Registered \ {d}
  BY DEF Unregister, Registered, SessionTypeOK
<1>3. OnePingPerSession'
  <2>1. pingOf' = sessions'
    BY DEF Unregister, OnePingPerSession
  <2>2. pings' = {<<e, sessions[e]>> : e \in Registered} \ {<<d, sessions[d]>>}
    BY DEF Unregister, PingsWithout, OnePingPerSession
  <2>3. \A e \in Registered \ {d} : sessions'[e] = sessions[e]
    BY DEF Unregister, Registered, SessionTypeOK
  <2>4. pings' = {<<e, sessions'[e]>> : e \in Registered \ {d}}
    BY <2>2, <2>3
  <2> QED
    BY <1>2, <2>1, <2>4 DEF OnePingPerSession
<1>4. SessionsWithinLimit'
  <2>1. Cardinality(Registered') <= Cardinality(Registered)
    BY <1>2, RegisteredFinite, FS_Subset
  <2>2. Cardinality(Registered') \in Nat
    BY <1>2, RegisteredFinite, FS_Subset, FS_CardinalityType
  <2> QED
    BY <2>1, <2>2, RegisteredFinite DEF SessionsWithinLimit
<1> QED
  BY <1>1, <1>3, <1>4

\* A device that registers is registered already, or there is room for one more.
LEMMA OpenKeeps ==
    ASSUME SessionInv, NEW d \in Devices, NEW s \in Channels, OpenSession(d, s)
    PROVE  SessionInv'
<1> USE DEF SessionInv
<1>1. CASE sessions[d] = NoSocket /\ Cardinality(Registered) >= MaxDevices
  BY <1>1 DEF OpenSession, SessionTypeOK, OnePingPerSession, SessionsWithinLimit, Registered
<1>2. CASE ~(sessions[d] = NoSocket /\ Cardinality(Registered) >= MaxDevices)
  <2>1. /\ socket' = [socket EXCEPT ![d][s] = "open"]
        /\ sessions' = [sessions EXCEPT ![d] = s]
        /\ pings' = PingsWithout(d) \union {<<d, s>>}
        /\ pingOf' = [pingOf EXCEPT ![d] = s]
        /\ expiry' = [expiry EXCEPT ![d] = "valid"]
        /\ sending' = sending
    BY <1>2, Zenon DEF OpenSession
  <2>2. SessionTypeOK'
    BY <2>1 DEF PingsWithout, SessionTypeOK
  <2>3. Registered' = Registered \union {d}
    BY <2>1 DEF Registered, SessionTypeOK
  <2>4. OnePingPerSession'
    <3>1. pingOf' = sessions'
      BY <2>1 DEF OnePingPerSession
    <3>2. pings' = ({<<e, sessions[e]>> : e \in Registered} \ {<<d, sessions[d]>>})
                   \union {<<d, s>>}
      BY <2>1 DEF PingsWithout, OnePingPerSession
    <3>3. sessions'[d] = s /\ \A e \in Registered \ {d} : sessions'[e] = sessions[e]
      BY <2>1 DEF Registered, SessionTypeOK
    <3>4. pings' = {<<e, sessions'[e]>> : e \in Registered \union {d}}
      BY <3>2, <3>3
    <3> QED
      BY <2>3, <3>1, <3>4 DEF OnePingPerSession
  <2>5. SessionsWithinLimit'
    <3>1. Cardinality(Registered') =
             IF d \in Registered THEN Cardinality(Registered) ELSE Cardinality(Registered) + 1
      BY <2>3, RegisteredFinite, FS_AddElement
    <3> QED
      BY <1>2, <3>1, RegisteredFinite DEF SessionsWithinLimit, Registered
  <2> QED
    BY <2>2, <2>4, <2>5
<1> QED
  BY <1>1, <1>2

\* What touches sockets, expiries and sends only.
LEMMA TablesKept ==
    ASSUME SessionInv, UNCHANGED <<sessions, pings, pingOf>>, SessionTypeOK'
    PROVE  SessionInv'
  BY DEF SessionInv, OnePingPerSession, SessionsWithinLimit, Registered

LEMMA DeviceStepKeeps ==
    ASSUME SessionInv, NEW d \in Devices,
           TokenRunsOut(d) \/ StartSend(d) \/ KillSession(d)
    PROVE  SessionInv'
<1> USE DEF SessionInv
<1>1. CASE TokenRunsOut(d)
  <2>1. SessionTypeOK' /\ UNCHANGED <<sessions, pings, pingOf>>
    BY <1>1 DEF TokenRunsOut, SessionTypeOK
  <2> QED
    BY <2>1, TablesKept
<1>2. CASE StartSend(d)
  <2>1. SessionTypeOK' /\ UNCHANGED <<sessions, pings, pingOf>>
    BY <1>2 DEF StartSend, SessionTypeOK
  <2> QED
    BY <2>1, TablesKept
<1>3. CASE KillSession(d)
  <2>1. /\ Unregister(d)
        /\ socket' \in [Devices -> [Channels -> {"none", "open", "dead"}]]
        /\ sending' \subseteq Devices \X Channels
    BY <1>3 DEF KillSession, SessionTypeOK
  <2> QED
    BY <2>1, UnregisterKeeps
<1> QED
  BY <1>1, <1>2, <1>3

LEMMA SocketStepKeeps ==
    ASSUME SessionInv, NEW d \in Devices, NEW s \in Channels,
           SocketDies(d, s) \/ ReAuth(d, s) \/ EndSend(d, s) \/ SessionTask(d, s)
    PROVE  SessionInv'
<1> USE DEF SessionInv
<1>1. CASE SocketDies(d, s) \/ ReAuth(d, s)
  <2>1. UNCHANGED <<sessions, pings, pingOf, sending>>
    BY <1>1, Zenon DEF SocketDies, ReAuth
  <2>2. socket' \in [Devices -> [Channels -> {"none", "open", "dead"}]]
    BY <1>1 DEF SocketDies, ReAuth, SessionTypeOK
  <2>3. expiry' \in [Devices -> {"none", "valid", "expired"}]
    BY <1>1 DEF SocketDies, ReAuth, SessionTypeOK
  <2>4. SessionTypeOK'
    BY <2>1, <2>2, <2>3 DEF SessionTypeOK
  <2> QED
    BY <2>1, <2>4, TablesKept
<1>2. CASE EndSend(d, s) /\ socket[d][s] = "open"
  <2>1. SessionTypeOK' /\ UNCHANGED <<sessions, pings, pingOf>>
    BY <1>2 DEF EndSend, SessionTypeOK
  <2> QED
    BY <2>1, TablesKept
<1>3. CASE EndSend(d, s) /\ socket[d][s] # "open"
  <2>1. Unregister(d) /\ socket' = socket /\ sending' = sending \ {<<d, s>>}
    BY <1>3, Zenon DEF EndSend
  <2> QED
    BY <2>1, UnregisterKeeps DEF SessionTypeOK
<1>4. CASE Ping(d, s)
  <2>1. Unregister(d) /\ sending' = sending
    BY <1>4, Zenon DEF Ping
  <2>2. socket' = socket \/ socket' = [socket EXCEPT ![d][s] = "dead"]
    BY <1>4, Zenon DEF Ping
  <2>3. socket' \in [Devices -> [Channels -> {"none", "open", "dead"}]]
    BY <2>2 DEF SessionTypeOK
  <2> QED
    BY <2>1, <2>3, UnregisterKeeps DEF SessionTypeOK
<1>5. CASE SessionHandlerEnds(d, s)
  <2>1. Unregister(d) /\ sending' = sending /\ socket' = [socket EXCEPT ![d][s] = "none"]
    BY <1>5, Zenon DEF SessionHandlerEnds
  <2>2. socket' \in [Devices -> [Channels -> {"none", "open", "dead"}]]
    BY <2>1 DEF SessionTypeOK
  <2> QED
    BY <2>1, <2>2, UnregisterKeeps DEF SessionTypeOK
<1> QED
  BY <1>1, <1>2, <1>3, <1>4, <1>5 DEF SessionTask

\* Every session has exactly one ping task, on its own socket, no task outlives its
\* session, and no more devices are registered than allowed, although registrations,
\* late handlers, failed sends and the tasks themselves end each other's sessions.
THEOREM SessionInvariant == SessionSpec => []SessionInv
<1>1. SessionInit => SessionInv
  BY SessionsInitially
<1>2. SessionInv /\ UNCHANGED sessionVars => SessionInv'
  BY TablesKept DEF sessionVars, SessionInv, SessionTypeOK
<1>3. SessionInv /\ [SessionNext]_sessionVars => SessionInv'
  BY <1>2, OpenKeeps, DeviceStepKeeps, SocketStepKeeps DEF SessionNext
<1> QED
  BY <1>1, <1>3, PTL DEF SessionSpec

HIDE SessionAssumption

----------------------------------------------------------------------------
(* TokenRotation                                                           *)

USE TokenAssumption DEF Refreshers, Pairs

LEMMA TokensInitially ==
    ASSUME TokenInit
    PROVE  TokenInv
<1>1. \A p \in Refreshers : pc[p] = "idle" /\ answer[p] = 0 /\ request[p] = 0
  BY DEF TokenInit
<1>2. session \in BOOLEAN /\ disturbed \in BOOLEAN /\ loggedOut \in BOOLEAN
  BY Zenon DEF TokenInit
<1>3. TokenTypeOK
  BY <1>2 DEF TokenInit, TokenTypeOK
<1>4. RequestsHoldLock /\ RefreshesTheKeyring /\ KeyringStaysGood
  BY <1>1 DEF TokenInit, RequestsHoldLock, RefreshesTheKeyring, KeyringStaysGood
<1> QED
  BY <1>3, <1>4 DEF TokenInv

LEMMA RotateTypes ==
    ASSUME live \subseteq Pairs \ {0}, issued \in Pairs, NEW pair, Rotate(pair)
    PROVE  live' \subseteq Pairs \ {0} /\ issued' = issued + 1 /\ issued + 1 \in Pairs
<1>1. issued + 1 \in Pairs /\ issued + 1 # 0
  BY DEF Rotate
<1>2. issued' = issued + 1 /\ live' = (live \ {pair}) \union {issued + 1}
  BY Zenon DEF Rotate
<1> QED
  BY <1>1, <1>2, Zenon

\* The lock admits one refresher at a time, and it refreshes what the keyring holds.
LEMMA TokenLocalKeeps ==
    ASSUME TokenInv, NEW p \in Refreshers, LocalStep(p)
    PROVE  TokenInv'
<1> USE DEF TokenInv, TokenTypeOK, RequestsHoldLock, RefreshesTheKeyring, KeyringStaysGood,
            cloudSide, browserSide, ghosts
<1>1. CASE UseSettled(p)
  BY <1>1 DEF UseSettled
<1>2. CASE EnterLock(p)
  BY <1>2 DEF EnterLock, LockFree, Settled
<1>3. CASE CloudRefreshes(p)
  <2>1. TokenTypeOK'
    <3>1. disturbed' \in BOOLEAN
      BY <1>3, Zenon DEF CloudRefreshes
    <3>2. /\ live' \subseteq Pairs \ {0}
          /\ issued' \in Pairs
          /\ issued + 1 \in Pairs
          /\ expired' = expired
      BY <1>3, RotateTypes DEF CloudRefreshes, Rotate
    <3>3. answer' \in [Refreshers -> Pairs]
      BY <1>3, <3>2 DEF CloudRefreshes
    <3>4. pc' \in [Refreshers -> {"idle", "waiting", "asking", "refused", "answered"}]
      BY <1>3 DEF CloudRefreshes
    <3>5. loggedOut' \in BOOLEAN /\ losses' \in 0 .. MaxLosses
      BY <1>3 DEF CloudRefreshes
    <3> QED
      BY <1>3, <3>1, <3>2, <3>3, <3>4, <3>5 DEF CloudRefreshes
  <2>2. RequestsHoldLock'
    BY <1>3 DEF CloudRefreshes, Rotate
  <2>3. RefreshesTheKeyring'
    BY <1>3 DEF CloudRefreshes, Rotate
  <2>4. KeyringStaysGood'
    BY <1>3 DEF CloudRefreshes, Rotate
  <2> QED
    BY <2>1, <2>2, <2>3, <2>4
<1>4. CASE CloudRefuses(p)
  BY <1>4 DEF CloudRefuses
<1>5. CASE Refreshed(p)
  BY <1>5 DEF Refreshed, EndRefresh
<1>6. CASE RefreshRefused(p)
  BY <1>6 DEF RefreshRefused, EndRefresh
<1> QED
  BY <1>1, <1>2, <1>3, <1>4, <1>5, <1>6 DEF LocalStep

\* Time, a refused heartbeat, the browser's pair and a restart.
LEMMA TokenServerKeeps ==
    ASSUME TokenInv, AccessExpires \/ HeartbeatRefused \/ RegisterTokens \/ RestartLocal
    PROVE  TokenInv'
<1> USE DEF TokenInv, TokenTypeOK, RequestsHoldLock, RefreshesTheKeyring, KeyringStaysGood,
            cloudSide, localSide, browserSide, ghosts
<1>1. CASE AccessExpires
  BY <1>1 DEF AccessExpires
<1>2. CASE HeartbeatRefused
  BY <1>2 DEF HeartbeatRefused
<1>3. CASE RegisterTokens
  BY <1>3 DEF RegisterTokens
<1>4. CASE RestartLocal
  <2>1. disturbed' \in BOOLEAN /\ session' \in BOOLEAN
    BY <1>4, Zenon DEF RestartLocal
  <2>2. TokenTypeOK'
    BY <1>4, <2>1 DEF RestartLocal
  <2>3. RequestsHoldLock'
    BY <1>4 DEF RestartLocal
  <2>4. RefreshesTheKeyring'
    BY <1>4 DEF RestartLocal
  <2>5. KeyringStaysGood'
    BY <1>4 DEF RestartLocal
  <2> QED
    BY <2>2, <2>3, <2>4, <2>5
<1> QED
  BY <1>1, <1>2, <1>3, <1>4

LEMMA TokenBrowserKeeps ==
    ASSUME TokenInv,
           \/ Login \/ ReloadPage \/ NewWindow \/ PageRefused \/ Restored
           \/ BrowserRefreshes \/ Logout
    PROVE  TokenInv'
<1> USE DEF TokenInv, TokenTypeOK, RequestsHoldLock, RefreshesTheKeyring, KeyringStaysGood,
            cloudSide, localSide, browserSide, ghosts
<1>1. CASE Login
  BY <1>1 DEF Login, Issue
<1>2. CASE ReloadPage
  BY <1>2 DEF ReloadPage
<1>3. CASE NewWindow
  BY <1>3 DEF NewWindow
<1>4. CASE PageRefused
  BY <1>4 DEF PageRefused
<1>5. CASE Restored
  BY <1>5 DEF Restored
<1>6. CASE BrowserRefreshes
  <2>1. disturbed' \in BOOLEAN /\ session' \in BOOLEAN
    BY <1>6, Zenon DEF BrowserRefreshes, Rotate
  <2>2. TokenTypeOK'
    <3>1. /\ live' \subseteq Pairs \ {0}
          /\ issued' \in Pairs
          /\ expired' \in Pairs
      BY <1>6, RotateTypes DEF BrowserRefreshes, Rotate
    <3>2. browser' \in Pairs /\ posted' \in Pairs
      BY <1>6 DEF BrowserRefreshes, Rotate
    <3> QED
      BY <1>6, <2>1, <3>1, <3>2 DEF BrowserRefreshes
  <2>3. RequestsHoldLock'
    BY <1>6 DEF BrowserRefreshes, Rotate
  <2>4. RefreshesTheKeyring'
    BY <1>6 DEF BrowserRefreshes, Rotate
  <2>5. KeyringStaysGood'
    BY <1>6 DEF BrowserRefreshes, Rotate
  <2> QED
    BY <2>2, <2>3, <2>4, <2>5
<1>7. CASE Logout
  BY <1>7 DEF Logout
<1> QED
  BY <1>1, <1>2, <1>3, <1>4, <1>5, <1>6, <1>7

LEMMA TokenStutter ==
    ASSUME TokenInv, UNCHANGED tokenVars
    PROVE  TokenInv'
  BY DEF tokenVars, TokenInv, TokenTypeOK, RequestsHoldLock, RefreshesTheKeyring,
         KeyringStaysGood

\* The two refreshers of the local server never spend each other's token: they share a
\* lock, read the keyring in it and store the successor before they leave it.
THEOREM TokenInvariant == TokenSpec => []TokenInv
<1>1. TokenInit => TokenInv
  BY TokensInitially
<1>2. TokenInv /\ [TokenNext]_tokenVars => TokenInv'
  BY TokenLocalKeeps, TokenServerKeeps, TokenBrowserKeeps, TokenStutter DEF TokenNext
<1> QED
  BY <1>1, <1>2, PTL DEF TokenSpec

HIDE TokenAssumption DEF Refreshers, Pairs

----------------------------------------------------------------------------
(* RuleSync                                                                *)

\* The version of a heartbeat's answer is a number.
LEMMA MaxVersionTyped == SyncTypeOK => MaxVersion(table) \in Nat
<1> SUFFICES ASSUME SyncTypeOK  PROVE MaxVersion(table) \in Nat
  OBVIOUS
<1> DEFINE S == {0} \union {table[r].version : r \in Present(table)}
<1>1. \A r \in Present(table) : table[r].version \in 1 .. MaxEdits
  BY DEF SyncTypeOK, Table, Rule, Present
<1>2. S \in SUBSET (0 .. MaxEdits) /\ S # {}
  BY <1>1, SyncAssumption
<1>3. Max(S) \in S
  <2> HIDE DEF S
  <2> QED  BY <1>2, MaxBelow, SyncAssumption
<1> QED  BY <1>2, <1>3, SyncAssumption DEF MaxVersion

LEMMA SyncInitially == SyncInit => SyncInv
<1> SUFFICES ASSUME SyncInit  PROVE SyncInv
  OBVIOUS
<1>1. SyncTypeOK
  <2>1. NoRules \in Table /\ [e \in Editors |-> NoRule] \in [Editors -> Update \union {NoRule}]
    BY DEF NoRules, Table
  <2>2. 0 \in 0 .. MaxFailures /\ 0 \in 0 .. MaxEdits
    BY SyncAssumption
  <2> QED  BY <2>1, <2>2, Zenon DEF SyncInit, SyncTypeOK
<1> QED
  BY <1>1 DEF SyncInit, SyncInv, BrokenRulesInactive, UpdatesSound, CountersBounded, NoRules

\* A row that an edit puts into the table is a rule, and sound unless updates raced on
\* it; it does not take the row away from an update under way.
LEMMA TableKeeps ==
    ASSUME SyncInv, Edit, NEW r \in Rules, NEW row,
           table' = [table EXCEPT ![r] = row],
           editing' \in [Editors -> Update \union {NoRule}],
           \A e \in Editors : editing'[e] # NoRule => editing'[e] = editing[e],
           \/ /\ row = NoRule
              /\ \A e \in Editors : editing'[e] # NoRule => editing'[e].rule # r
           \/ /\ row \in [version : Nat \ {0}, script : AllScripts, parses : BOOLEAN,
                          active : BOOLEAN, raced : BOOLEAN]
              /\ row.version <= edits + 1
              /\ row.raced \/ Sound(row)
    PROVE  SyncInv'
<1> USE SyncAssumption DEF SyncInv
<1>1. edits' = edits + 1 /\ edits' \in 0 .. MaxEdits /\ edits \in Nat
  BY DEF Edit, SyncTypeOK
<1>2. UNCHANGED <<cache, lastSeen, ack, fetching, online, wsToken, failures, failed>>
  BY DEF Edit, localState
<1>3. \/ row = NoRule /\ \A e \in Editors : editing'[e] # NoRule => editing'[e].rule # r
      \/ row \in Rule
  <2>1. row \in [version : Nat \ {0}, script : AllScripts, parses : BOOLEAN,
                 active : BOOLEAN, raced : BOOLEAN] /\ row.version <= edits + 1
        => row \in Rule
    BY <1>1 DEF Rule
  <2> QED  BY <2>1
<1>4. table \in [Rules -> Rule \union {NoRule}]
  BY DEF SyncTypeOK, Table
<1>5. /\ table' \in [Rules -> Rule \union {NoRule}]
      /\ table'[r] = row /\ \A s \in Rules \ {r} : table'[s] = table[s]
  BY <1>3, <1>4
<1>6. SyncTypeOK'
  BY <1>1, <1>2, <1>5 DEF SyncTypeOK, Table
<1>7. \A s \in Rules : table'[s] # NoRule /\ ~table'[s].raced => Sound(table'[s])
  BY <1>5, Zenon DEF BrokenRulesInactive
<1>8. BrokenRulesInactive'
  <2>1. \A s \in Rules : cache[s] # NoRule /\ ~cache[s].raced => Sound(cache[s])
    BY Zenon DEF BrokenRulesInactive
  <2>2. cache' = cache
    BY <1>2
  <2> QED  BY <1>7, <2>1, <2>2, Zenon DEF BrokenRulesInactive
<1>9. \A s \in Rules : table'[s] # NoRule => table'[s].version <= edits'
  <2> SUFFICES ASSUME NEW s \in Rules, table'[s] # NoRule  PROVE table'[s].version <= edits'
    OBVIOUS
  <2>1. CASE s = r
    BY <1>1, <1>5, <2>1
  <2>2. CASE s # r
    <3>1. table[s] # NoRule /\ table[s] \in Rule
      BY <1>4, <1>5, <2>2
    <3>2. table[s].version <= edits /\ table[s].version \in Nat /\ edits \in Nat
      BY <3>1 DEF CountersBounded, Rule, SyncTypeOK
    <3> QED  BY <1>1, <1>5, <2>2, <3>2
  <2> QED  BY <2>1, <2>2
<1>10. \A e \in Editors : editing'[e] # NoRule => editing'[e].read.version <= edits'
  <2> SUFFICES ASSUME NEW e \in Editors, editing'[e] # NoRule
               PROVE  editing'[e].read.version <= edits'
    OBVIOUS
  <2>1. editing'[e] = editing[e] /\ editing'[e] \in Update
    OBVIOUS
  <2>2. editing[e].read.version <= edits
    BY <2>1 DEF CountersBounded
  <2>3. editing[e].read.version \in Nat
    BY <2>1 DEF Update, Rule
  <2> QED  BY <1>1, <2>1, <2>2, <2>3
<1>11. CountersBounded'
  BY <1>2, <1>9, <1>10 DEF CountersBounded
<1>12. UpdatesSound'
  <2> SUFFICES ASSUME NEW e \in Editors, editing'[e] # NoRule
               PROVE  /\ table'[editing'[e].rule] # NoRule
                      /\ ~editing'[e].read.raced => Sound(editing'[e].new)
    BY DEF UpdatesSound
  <2>1. editing'[e] = editing[e] /\ editing'[e] \in Update
    OBVIOUS
  <2>2. table[editing[e].rule] # NoRule /\ editing'[e].rule \in Rules
    BY <2>1 DEF UpdatesSound, Update
  <2>3. row = NoRule => editing'[e].rule # r
    BY <1>3
  <2>4. ~editing'[e].read.raced => Sound(editing'[e].new)
    BY <2>1, Zenon DEF UpdatesSound
  <2>5. table'[editing'[e].rule] # NoRule
    BY <1>5, <2>1, <2>2, <2>3
  <2> QED  BY <2>4, <2>5
<1> QED  BY <1>6, <1>8, <1>11, <1>12

\* The first half of an update: what it makes of the row is as sound as the row.
LEMMA BeginKeeps ==
    ASSUME SyncInv, NEW e \in Editors, NEW r \in Rules, NEW new \in Rule,
           table[r] # NoRule, BeginUpdate(e, r, new),
           ~table[r].raced => Sound(new)
    PROVE  SyncInv'
<1> USE DEF SyncInv
<1> DEFINE update == [rule |-> r, read |-> table[r], new |-> new]
<1>1. /\ UNCHANGED <<table, edits, localState>>
      /\ editing' = [editing EXCEPT ![e] = update]
  BY DEF BeginUpdate
<1>2. table[r] \in Rule
  BY DEF SyncTypeOK, Table
<1>3. update \in Update
  BY <1>2 DEF Update
<1>4. update.rule = r /\ update.read = table[r] /\ update.new = new
  OBVIOUS
<1> HIDE DEF update
<1>5. /\ editing' \in [Editors -> Update \union {NoRule}]
      /\ editing'[e] = update
      /\ \A d \in Editors \ {e} : editing'[d] = editing[d]
  BY <1>1, <1>3 DEF SyncTypeOK
<1>6. UNCHANGED <<table, edits, cache, lastSeen, ack, fetching, online, wsToken, failures, failed>>
  BY <1>1 DEF localState
<1>7. SyncTypeOK'
  BY <1>5, <1>6 DEF SyncTypeOK
<1>8. BrokenRulesInactive'
  BY <1>6, Zenon DEF BrokenRulesInactive
<1>9. UpdatesSound'
  <2> SUFFICES ASSUME NEW d \in Editors, editing'[d] # NoRule
               PROVE  /\ table[editing'[d].rule] # NoRule
                      /\ ~editing'[d].read.raced => Sound(editing'[d].new)
    BY <1>6 DEF UpdatesSound
  <2>1. CASE d = e
    <3>1. editing'[d].rule = r /\ editing'[d].read = table[r] /\ editing'[d].new = new
      BY <1>4, <1>5, <2>1
    <3>2. table[editing'[d].rule] # NoRule
      BY <3>1
    <3>3. ~editing'[d].read.raced => Sound(editing'[d].new)
      <4>1. editing'[d].read.raced = table[r].raced
        BY <3>1
      <4> QED  BY <3>1, <4>1, Zenon
    <3> QED  BY <3>2, <3>3
  <2>2. CASE d # e
    BY <1>5, <2>2, Zenon DEF UpdatesSound
  <2> QED  BY <2>1, <2>2
<1>10. CountersBounded'
  <2>1. \A d \in Editors : editing'[d] # NoRule => editing'[d].read.version <= edits
    BY <1>4, <1>5 DEF CountersBounded
  <2> QED  BY <1>6, <2>1 DEF CountersBounded
<1> QED  BY <1>7, <1>8, <1>9, <1>10

\* The first halves of the two kinds of update.
LEMMA UpdateBegins ==
    ASSUME SyncInv, NEW e \in Editors, NEW r \in Rules, NEW s \in AllScripts, NEW a \in BOOLEAN,
           UpdateScript(e, r, s, a) \/ SwitchRule(e, r, a)
    PROVE  SyncInv'
<1>1. table[r] # NoRule /\ table[r] \in Rule
  BY DEF UpdateScript, SwitchRule, SyncInv, SyncTypeOK, Table
<1>2. CASE UpdateScript(e, r, s, a)
  <2> DEFINE parses == s # BadScript
             on == Activated(a, s)
             new == [table[r] EXCEPT !.script = s, !.parses = parses, !.active = on]
  <2>1. BeginUpdate(e, r, new)
    BY <1>2 DEF UpdateScript
  <2>2. parses \in BOOLEAN /\ on \in BOOLEAN /\ (on => parses) /\ (parses <=> s # BadScript)
    BY Zenon DEF Activated
  <2> HIDE DEF parses, on
  <2>3. new \in Rule /\ new.script = s /\ new.parses = parses /\ new.active = on
    BY <1>1, <2>2 DEF Rule
  <2> HIDE DEF new
  <2>4. Sound(new)
    BY <2>2, <2>3, Zenon DEF Sound
  <2> QED  BY <1>1, <2>1, <2>3, <2>4, BeginKeeps
<1>3. CASE SwitchRule(e, r, a)
  <2> DEFINE new == [table[r] EXCEPT !.active = a]
  <2>1. BeginUpdate(e, r, new) /\ (a => table[r].active \/ table[r].parses)
    BY <1>3 DEF SwitchRule
  <2>2. new \in Rule /\ new.script = table[r].script /\ new.parses = table[r].parses
        /\ new.active = a
    BY <1>1 DEF Rule
  <2> HIDE DEF new
  <2>3. ~table[r].raced => Sound(table[r])
    BY <1>1, Zenon DEF SyncInv, BrokenRulesInactive
  <2>4. ~table[r].raced => Sound(new)
    BY <2>1, <2>2, <2>3, Zenon DEF Sound
  <2> QED  BY <1>1, <2>1, <2>2, <2>4, BeginKeeps
<1> QED  BY <1>2, <1>3

\* The second half.  Without a race the row is still the one that was read, and what is
\* written is what was made of it.
LEMMA CommitKeeps ==
    ASSUME SyncInv, NEW e \in Editors, CommitUpdate(e)
    PROVE  SyncInv'
<1> USE SyncAssumption DEF SyncInv
<1> DEFINE r == editing[e].rule
           read == editing[e].read
           new == editing[e].new
           now == table[r]
           script == Written(read.script, new.script, now.script)
           isActive == Written(read.active, new.active, now.active)
           wasRaced == now.raced \/ now # read
           verdicts == {Written(read.parses, new.parses, now.parses)}
                         \union (IF new.script # read.script THEN {new.parses} ELSE {})
<1>1. editing[e] # NoRule /\ Edit /\ editing' = [editing EXCEPT ![e] = NoRule]
  BY DEF CommitUpdate
<1>2. PICK parses \in verdicts :
        table' = [table EXCEPT ![r] = [version |-> read.version + 1, script |-> script,
                                       parses |-> parses, active |-> isActive,
                                       raced |-> wasRaced]]
  BY Zenon DEF CommitUpdate
<1>3. editing[e] \in Update
  BY <1>1 DEF SyncTypeOK
<1>4. r \in Rules /\ read \in Rule /\ new \in Rule
  BY <1>3 DEF Update
<1>5. now # NoRule /\ (~read.raced => Sound(new)) /\ read.version <= edits
  BY <1>1, Zenon DEF UpdatesSound, CountersBounded
<1>6. now \in Rule
  BY <1>4, <1>5 DEF SyncTypeOK, Table
<1> HIDE DEF r, read, new, now
<1>7. script \in AllScripts /\ isActive \in BOOLEAN
  BY <1>4, <1>6 DEF Rule, Written
<1>8. verdicts \subseteq BOOLEAN
  BY <1>4, <1>6 DEF Rule, Written
<1>9. wasRaced \in BOOLEAN
  BY <1>6 DEF Rule
<1>10. now = read =>
         /\ script = new.script /\ isActive = new.active
         /\ verdicts = {new.parses} /\ wasRaced = now.raced
  BY <1>4 DEF Written, Rule
<1>11. read.version \in Nat \ {0} /\ edits \in Nat
  BY <1>4 DEF Rule, SyncTypeOK
<1> HIDE DEF script, isActive, verdicts, wasRaced
<1> DEFINE version == read.version + 1
<1>12. version \in Nat \ {0} /\ version <= edits + 1
  BY <1>5, <1>11
<1>13. table' = [table EXCEPT ![r] = [version |-> version, script |-> script,
                                      parses |-> parses, active |-> isActive,
                                      raced |-> wasRaced]]
  BY <1>2
<1> HIDE DEF version
<1> DEFINE row == [version |-> version, script |-> script, parses |-> parses,
                   active |-> isActive, raced |-> wasRaced]
<1>14. /\ row \in [version : Nat \ {0}, script : AllScripts, parses : BOOLEAN,
                   active : BOOLEAN, raced : BOOLEAN]
       /\ row.version = version /\ row.script = script /\ row.parses = parses
       /\ row.active = isActive /\ row.raced = wasRaced
  BY <1>2, <1>7, <1>8, <1>9, <1>12
<1>15. table' = [table EXCEPT ![r] = row]
  BY <1>13
<1> HIDE DEF row
<1>16. row.raced \/ Sound(row)
  <2>1. CASE now = read
    <3>1. parses = new.parses /\ script = new.script /\ isActive = new.active
          /\ wasRaced = read.raced
      BY <1>2, <1>10, <2>1
    <3> QED  BY <1>5, <1>14, <3>1, Zenon DEF Sound
  <2>2. CASE now # read
    BY <1>14, <2>2 DEF wasRaced
  <2> QED  BY <2>1, <2>2
<1>17. /\ editing' \in [Editors -> Update \union {NoRule}]
       /\ \A d \in Editors : editing'[d] # NoRule => editing'[d] = editing[d]
  BY <1>1 DEF SyncTypeOK
<1> QED  BY <1>1, <1>4, <1>12, <1>14, <1>15, <1>16, <1>17, TableKeeps

\* The routes.
LEMMA RuleEditKeeps ==
    ASSUME SyncInv, EditRules
    PROVE  SyncInv'
<1> USE SyncAssumption DEF SyncInv
<1>1. edits \in Nat /\ editing \in [Editors -> Update \union {NoRule}]
  BY DEF SyncTypeOK
<1>2. ASSUME NEW r \in Rules, NEW s \in AllScripts, NEW a \in BOOLEAN, CreateRule(r, s, a)
      PROVE  SyncInv'
  <2> DEFINE parses == s # BadScript
             on == Activated(a, s)
             row == [version |-> 1, script |-> s, parses |-> parses, active |-> on,
                     raced |-> FALSE]
  <2>1. Edit /\ table' = [table EXCEPT ![r] = row] /\ editing' = editing
    BY <1>2 DEF CreateRule
  <2>2. parses \in BOOLEAN /\ on \in BOOLEAN /\ (on => parses) /\ (parses <=> s # BadScript)
    BY Zenon DEF Activated
  <2> HIDE DEF parses, on
  <2>3. /\ row \in [version : Nat \ {0}, script : AllScripts, parses : BOOLEAN,
                    active : BOOLEAN, raced : BOOLEAN]
        /\ row.version <= edits + 1 /\ row.script = s /\ row.parses = parses /\ row.active = on
    BY <1>1, <2>2
  <2> HIDE DEF row
  <2>4. Sound(row)
    BY <2>2, <2>3, Zenon DEF Sound
  <2> QED  BY <1>1, <2>1, <2>3, <2>4, TableKeeps
<1>3. ASSUME NEW r \in Rules, DeleteRule(r)
      PROVE  SyncInv'
  <2>1. /\ Edit /\ table' = [table EXCEPT ![r] = NoRule]
        /\ editing' = [e \in Editors |-> IF editing[e] # NoRule /\ editing[e].rule = r
                                         THEN NoRule ELSE editing[e]]
    BY <1>3 DEF DeleteRule
  <2>2. /\ editing' \in [Editors -> Update \union {NoRule}]
        /\ \A e \in Editors : editing'[e] # NoRule =>
              editing'[e] = editing[e] /\ editing'[e].rule # r
    BY <1>1, <2>1
  <2> QED  BY <2>1, <2>2, TableKeeps
<1>4. ASSUME NEW e \in Editors, RollBack(e)
      PROVE  SyncInv'
  <2>1. /\ UNCHANGED <<table, edits, cache, lastSeen, ack, fetching, online, wsToken,
                       failures, failed>>
        /\ editing' \in [Editors -> Update \union {NoRule}]
        /\ \A d \in Editors : editing'[d] # NoRule => editing'[d] = editing[d]
    BY <1>1, <1>4 DEF RollBack, localState
  <2>2. SyncTypeOK'
    BY <2>1 DEF SyncTypeOK
  <2>3. BrokenRulesInactive'
    BY <2>1, Zenon DEF BrokenRulesInactive
  <2>4. UpdatesSound'
    BY <2>1, Zenon DEF UpdatesSound
  <2>5. CountersBounded'
    BY <2>1 DEF CountersBounded
  <2> QED  BY <2>2, <2>3, <2>4, <2>5
<1> QED  BY <1>2, <1>3, <1>4, UpdateBegins, CommitKeeps DEF EditRules

\* The local server.
LEMMA SyncLocalKeeps ==
    ASSUME SyncInv,
           \/ HeartbeatStep \/ HeartbeatHttp \/ HeartbeatFails \/ FetchFails
           \/ Offline \/ Online \/ WsTokenExpires \/ SyncRules \/ RestartSync
    PROVE  SyncInv'
<1> USE SyncAssumption DEF SyncInv
<1>1. UNCHANGED <<table, editing, edits>> /\ cache' \in {cache, table}
  BY DEF HeartbeatStep, HeartbeatWs, NoticeVersion, SameVersion, FetchRules, HeartbeatHttp,
         HeartbeatFails, FetchFails, Offline, Online, WsTokenExpires, SyncRules, RestartSync
<1>2. MaxVersion(table) \in Nat
  BY MaxVersionTyped
<1>3. lastSeen' \in Nat \union {Unknown} /\ ack' \in Nat \union {Unknown}
  BY <1>2
  DEF SyncTypeOK, HeartbeatStep, HeartbeatWs, NoticeVersion, SameVersion, FetchRules,
      HeartbeatHttp, HeartbeatFails, FetchFails, Offline, Online, WsTokenExpires, SyncRules, RestartSync
<1>4. fetching' \in BOOLEAN /\ online' \in BOOLEAN /\ wsToken' \in BOOLEAN
  BY DEF SyncTypeOK, HeartbeatStep, HeartbeatWs, NoticeVersion, SameVersion, FetchRules,
         HeartbeatHttp, HeartbeatFails, FetchFails, Offline, Online, WsTokenExpires, SyncRules, RestartSync
<1>5. \/ failures' \in {failures, 0} /\ failed' = failed
      \/ failures' \in {failures, 0} /\ failed < MaxFailures /\ failed' = failed + 1
      \/ failures' = failures + 1 /\ failed < MaxFailures /\ failed' = failed + 1
  BY DEF HeartbeatStep, HeartbeatWs, NoticeVersion, SameVersion, FetchRules,
         HeartbeatHttp, HeartbeatFails, Failure, FetchFails, Offline, Online, WsTokenExpires, SyncRules,
         RestartSync
<1>6. failures' \in 0 .. MaxFailures /\ failed' \in 0 .. MaxFailures /\ failures' <= failed'
  <2>1. failures \in 0 .. MaxFailures /\ failed \in 0 .. MaxFailures /\ failures <= failed
    BY DEF SyncTypeOK, CountersBounded
  <2> QED  BY <1>5, <2>1
<1>7. SyncTypeOK'
  BY <1>1, <1>3, <1>4, <1>6 DEF SyncTypeOK
<1>8. BrokenRulesInactive'
  BY <1>1, Zenon DEF BrokenRulesInactive
<1>10. UpdatesSound'
  BY <1>1, Zenon DEF UpdatesSound
<1>9. CountersBounded'
  BY <1>1, <1>6 DEF CountersBounded
<1> QED  BY <1>7, <1>8, <1>9, <1>10

\* Whatever updates of rules overlap, with each other and with the local server's
\* fetches: an active rule that no two raced on has a script that parses.
THEOREM SyncInvariant == SyncSpec => []SyncInv
<1>1. SyncInv /\ [SyncNext]_syncVars => SyncInv'
  <2> SUFFICES ASSUME SyncInv, [SyncNext]_syncVars  PROVE SyncInv'
    OBVIOUS
  <2>1. CASE UNCHANGED syncVars
    BY <2>1 DEF syncVars, SyncInv, SyncTypeOK, BrokenRulesInactive, UpdatesSound,
                CountersBounded
  <2> QED  BY <2>1, RuleEditKeeps, SyncLocalKeeps DEF SyncNext
<1> QED  BY <1>1, SyncInitially, PTL DEF SyncSpec

----------------------------------------------------------------------------
(* Accounts                                                                *)

LEMMA AccountInitially == AccountInit => AccountInv
<1> SUFFICES ASSUME AccountInit  PROVE AccountInv
  OBVIOUS
<1>1. AccountTypeOK
  BY AccountAssumption DEF AccountInit, AccountTypeOK, NoRow
<1>2. Stored = {} /\ Busy = {}
  BY DEF AccountInit, Stored, Busy, NoRow
<1> QED
  BY <1>1, <1>2 DEF AccountInv, SessionsUnderPassword, RequestsUnderPassword, SessionsAreVerified

\* A request that begins continues a session under the current password, unless it is
\* marked.
LEMMA BeginsKeeps ==
    ASSUME AccountInv, NEW w \in Workers, NEW kind \in {"login", "rotation", "reset"},
           NEW deletes \in SUBSET Rows, NEW pw \in 0 .. MaxPasswords,
           NEW link \in 0 .. MaxLinks, NEW late \in BOOLEAN,
           Begin(w, kind, deletes, pw, link, late),
           kind # "reset" => account = "verified" /\ (late \/ pw = password),
           UNCHANGED <<account, active, password, mailLink, resetLinks, rows, raced>>,
           attempts' \in 0 .. MaxLogins
    PROVE  AccountInv'
<1> USE DEF AccountInv
<1> DEFINE begun == [kind |-> kind, deletes |-> deletes, password |-> pw, link |-> link,
                       late |-> late]
<1>1. /\ begun \in Request /\ begun.kind = kind /\ begun.password = pw
      /\ begun.late = late
  BY DEF Request
<1>2. handling' = [handling EXCEPT ![w] = begun]
  BY DEF Begin
<1> HIDE DEF begun
<1>3. /\ handling' \in [Workers -> Request \union {Idle}]
      /\ handling'[w] = begun
      /\ \A v \in Workers \ {w} : handling'[v] = handling[v]
  BY <1>1, <1>2 DEF AccountTypeOK
<1>4. AccountTypeOK'
  BY <1>3 DEF AccountTypeOK
<1>5. Stored' = Stored /\ SessionsUnderPassword'
  BY DEF Stored, SessionsUnderPassword
<1>6. \A v \in Workers : handling'[v] # Idle =>
         /\ ~handling'[v].late /\ handling'[v].kind # "reset" => handling'[v].password = password
         /\ handling'[v].kind # "reset" => account = "verified"
  BY <1>1, <1>3 DEF RequestsUnderPassword, SessionsAreVerified, Busy
<1>7. RequestsUnderPassword' /\ SessionsAreVerified'
  BY <1>5, <1>6 DEF RequestsUnderPassword, SessionsAreVerified, Busy
<1> QED  BY <1>4, <1>5, <1>7

\* The account, its links and the limiter.
LEMMA AccountKeeps ==
    ASSUME AccountInv,
           \/ RegisterAccount \/ VerifyEmail \/ LinkExpires
           \/ LoginRefused \/ LimiterWindowMoves
           \/ ForgotPassword \/ SetActive
    PROVE  AccountInv'
<1> USE AccountAssumption DEF AccountInv
<1>1. UNCHANGED <<rows, handling, raced>>
  BY DEF RegisterAccount, VerifyEmail, LinkExpires, LoginRefused, LimiterWindowMoves,
         ForgotPassword, SetActive
<1>2. Stored' = Stored /\ Busy' = Busy
  BY <1>1 DEF Stored, Busy
<1>3. \/ UNCHANGED <<account, password>>
      \/ account' = "verified" /\ password' = password
      \/ account = "none" /\ account' = "unverified" /\ password' = 1
  BY DEF RegisterAccount, VerifyEmail, LinkExpires, LoginRefused, LimiterWindowMoves,
         ForgotPassword, SetActive
<1>4. resetLinks' \subseteq 1 .. MaxLinks
  <2>1. \/ resetLinks' \subseteq resetLinks
        \/ \E l \in 1 .. MaxLinks : resetLinks' = resetLinks \union {l}
    BY DEF RegisterAccount, VerifyEmail, LinkExpires, LoginRefused, LimiterWindowMoves,
           ForgotPassword, SetActive
  <2> QED  BY <2>1 DEF AccountTypeOK
<1>5. /\ mailLink' \in {"none", "fresh", "used", "expired"}
      /\ attempts' \in 0 .. MaxLogins
  BY DEF AccountTypeOK, RegisterAccount, VerifyEmail, LinkExpires, LoginRefused,
         LimiterWindowMoves, ForgotPassword, SetActive
<1>6. active' \in BOOLEAN
  <2>1. active' \in {active, ~active}
    BY Zenon DEF RegisterAccount, VerifyEmail, LinkExpires, LoginRefused,
       LimiterWindowMoves, ForgotPassword, SetActive
  <2> QED  BY <2>1, Zenon DEF AccountTypeOK
<1>7. AccountTypeOK'
  BY <1>1, <1>3, <1>4, <1>5, <1>6 DEF AccountTypeOK
<1>8. CASE account = "none"
  <2>1. Stored' = {} /\ \A w \in Busy : handling[w].kind = "reset"
    BY <1>2, <1>8 DEF SessionsAreVerified
  <2> QED
    BY <1>1, <1>2, <1>7, <2>1
    DEF SessionsUnderPassword, RequestsUnderPassword, SessionsAreVerified
<1>9. CASE account # "none"
  <2>1. password' = password /\ account' \in {account, "verified"}
    BY <1>3, <1>9
  <2> QED
    BY <1>1, <1>2, <1>7, <2>1
    DEF SessionsUnderPassword, RequestsUnderPassword, SessionsAreVerified
<1> QED  BY <1>8, <1>9

\* Requests begin.
LEMMA BeginStepKeeps ==
    ASSUME AccountInv, NEW w \in Workers,
           \/ BeginLogin(w)
           \/ \E i \in Rows : BeginRotation(w, i)
           \/ \E l \in 1 .. MaxLinks : BeginReset(w, l)
    PROVE  AccountInv'
<1> USE AccountAssumption
<1>1. /\ password \in 0 .. MaxPasswords /\ attempts \in 0 .. MaxLogins /\ 0 \in 0 .. MaxLinks
      /\ Stored \subseteq Rows
  BY DEF AccountInv, AccountTypeOK, Stored
<1>2. CASE BeginLogin(w)
  <2>1. attempts' \in 0 .. MaxLogins
    BY <1>1, <1>2 DEF BeginLogin
  <2>2. /\ Begin(w, "login", {}, password, 0, FALSE) /\ account = "verified"
        /\ UNCHANGED <<account, active, password, mailLink, resetLinks, rows, raced>>
    BY <1>2 DEF BeginLogin
  <2> QED  BY <1>1, <2>1, <2>2, BeginsKeeps
<1>3. ASSUME NEW i \in Rows, BeginRotation(w, i)
      PROVE  AccountInv'
  <2> DEFINE late == i \in raced
  <2>1. /\ i \in Stored /\ Begin(w, "rotation", {i}, rows[i], 0, late)
        /\ UNCHANGED <<account, active, password, mailLink, resetLinks, rows, raced, attempts>>
    BY <1>3 DEF BeginRotation
  <2>2. rows[i] \in 0 .. MaxPasswords /\ {i} \in SUBSET Rows
    BY <2>1 DEF AccountInv, AccountTypeOK, Stored, NoRow
  <2>3. account = "verified" /\ (late \/ rows[i] = password)
    BY <2>1 DEF AccountInv, SessionsAreVerified, SessionsUnderPassword
  <2>4. late \in BOOLEAN
    <3>1. CASE i \in raced
      <4>1. late = TRUE
        BY <3>1, Zenon
      <4> QED  BY <4>1, Zenon
    <3>2. CASE i \notin raced
      <4>1. late = FALSE
        BY <3>2
      <4> QED  BY <4>1, Zenon
    <3> QED  BY <3>1, <3>2
  <2> HIDE DEF late
  <2> QED  BY <1>1, <2>1, <2>2, <2>3, <2>4, BeginsKeeps
<1>4. ASSUME NEW l \in 1 .. MaxLinks, BeginReset(w, l)
      PROVE  AccountInv'
  <2>1. /\ Begin(w, "reset", Stored, password, l, FALSE)
        /\ UNCHANGED <<account, active, password, mailLink, resetLinks, rows, raced, attempts>>
    BY <1>4, Zenon DEF BeginReset
  <2>2. l \in 0 .. MaxLinks
    OBVIOUS
  <2> QED  BY <1>1, <2>1, <2>2, BeginsKeeps
<1> QED  BY <1>2, <1>3, <1>4

\* The rows after a commit that deletes some and adds others under one password.
RowsWith(added, pw, deletes) ==
    [i \in Rows |-> IF i \in added THEN pw ELSE IF i \in deletes THEN NoRow ELSE rows[i]]

\* Who is unmarked after it has been added under the present password, or was unmarked.
Marked(added, pw, deletes) ==
    /\ raced' \subseteq Rows
    /\ \A i \in Rows : i \notin raced' =>
          /\ i \in added => pw = password
          /\ i \in deletes \/ i \in added \/ i \notin raced

\* Requests end, and none begins.
OnlyEnds ==
    /\ handling' \in [Workers -> Request \union {Idle}]
    /\ \A w \in Workers : handling'[w] # Idle => handling'[w] = handling[w]

\* Requests other than a reset end; a session that they, or nobody, leave behind is one
\* under the current password, unless it is marked.
LEMMA EndsKeeps ==
    ASSUME AccountInv, NEW deletes \in SUBSET Rows, NEW added \in SUBSET Rows,
           NEW pw \in 0 .. MaxPasswords,
           rows' = RowsWith(added, pw, deletes), Marked(added, pw, deletes), OnlyEnds,
           added # {} => account' = "verified",
           account' \in {account, "verified"},
           UNCHANGED <<active, password, mailLink, resetLinks, attempts>>
    PROVE  AccountInv'
<1> USE AccountAssumption DEF AccountInv, RowsWith, Marked, OnlyEnds
<1>1. rows' \in [Rows -> 0 .. NoRow]
  BY DEF AccountTypeOK, NoRow
<1>2. AccountTypeOK'
  BY <1>1 DEF AccountTypeOK
<1>3. \A i \in Stored' : i \in added \/ (i \in Stored /\ i \notin deletes /\ rows'[i] = rows[i])
  BY DEF Stored
<1>4. SessionsUnderPassword'
  <2> SUFFICES ASSUME NEW i \in Stored', i \notin raced'  PROVE rows'[i] = password
    BY DEF SessionsUnderPassword
  <2>1. i \in Rows
    BY DEF Stored
  <2>2. CASE i \in added
    BY <2>1, <2>2
  <2>3. CASE i \notin added
    <3>1. i \in Stored /\ i \notin raced /\ rows'[i] = rows[i]
      BY <1>3, <2>1, <2>3
    <3> QED  BY <3>1 DEF SessionsUnderPassword
  <2> QED  BY <2>2, <2>3
<1>5. \A w \in Busy' : w \in Busy /\ handling'[w] = handling[w]
  BY DEF Busy
<1>6. RequestsUnderPassword'
  BY <1>5 DEF RequestsUnderPassword
<1>7. SessionsAreVerified'
  BY <1>3, <1>5 DEF SessionsAreVerified
<1> QED  BY <1>2, <1>4, <1>6, <1>7

\* Logins, the end of a session, and the ends of logins, rotations and failed requests.
LEMMA EndStepKeeps ==
    ASSUME AccountInv,
           \/ \E w \in Workers :
                 RequestFails(w) \/ \E i \in Rows : EndLogin(w, i) \/ EndRotation(w, i)
           \/ \E i \in Rows : OAuthLogin(i) \/ DropRow(i)
    PROVE  AccountInv'
<1> USE AccountAssumption
<1>1. /\ rows \in [Rows -> 0 .. NoRow] /\ raced \subseteq Rows
      /\ password \in 0 .. MaxPasswords
      /\ handling \in [Workers -> Request \union {Idle}]
  BY DEF AccountInv, AccountTypeOK
<1>2. ASSUME NEW w \in Workers, handling' = [handling EXCEPT ![w] = Idle]
      PROVE  OnlyEnds
  BY <1>1, <1>2 DEF OnlyEnds
<1>3. ASSUME NEW w \in Workers, handling[w] # Idle
      PROVE  /\ handling[w].deletes \in SUBSET Rows
             /\ handling[w].password \in 0 .. MaxPasswords
             /\ handling[w].kind # "reset" =>
                   /\ account = "verified"
                   /\ handling[w].late \/ handling[w].password = password
  BY <1>1, <1>3 DEF Request, AccountInv, RequestsUnderPassword, SessionsAreVerified, Busy
<1>4. ASSUME NEW w \in Workers, RequestFails(w)
      PROVE  AccountInv'
  <2>1. /\ handling' = [handling EXCEPT ![w] = Idle]
        /\ UNCHANGED <<account, active, password, mailLink, resetLinks, rows, raced, attempts>>
    BY <1>4 DEF RequestFails
  <2>2. rows' = RowsWith({}, password, {}) /\ Marked({}, password, {})
    BY <1>1, <2>1 DEF RowsWith, Marked
  <2> QED  BY <1>1, <1>2, <2>1, <2>2, EndsKeeps
<1>5. ASSUME NEW w \in Workers, NEW i \in Rows, EndLogin(w, i)
      PROVE  AccountInv'
  <2> DEFINE pw == handling[w].password
             late == handling[w].late
  <2>1. /\ handling[w] # Idle /\ handling[w].kind = "login" /\ NewRow(i, pw, late)
        /\ handling' = [handling EXCEPT ![w] = Idle]
        /\ UNCHANGED <<account, active, password, mailLink, resetLinks, attempts>>
    BY <1>5 DEF EndLogin
  <2>2. account = "verified" /\ (late \/ pw = password) /\ pw \in 0 .. MaxPasswords
    BY <1>3, <2>1
  <2> HIDE DEF pw, late
  <2>3. rows' = RowsWith({i}, pw, {})
    BY <1>1, <2>1 DEF NewRow, RowsWith
  <2>4. raced' = IF late THEN raced \union {i} ELSE raced
    BY <2>1 DEF NewRow
  <2>5. Marked({i}, pw, {})
    BY <1>1, <2>2, <2>4 DEF Marked
  <2> QED  BY <1>2, <2>1, <2>2, <2>3, <2>5, EndsKeeps
<1>6. ASSUME NEW w \in Workers, NEW j \in Rows, EndRotation(w, j)
      PROVE  AccountInv'
  <2> DEFINE pw == handling[w].password
             late == handling[w].late
             deletes == handling[w].deletes
  <2>1. /\ handling[w] # Idle /\ handling[w].kind = "rotation"
        /\ rows' = [i \in Rows |-> IF i = j THEN pw
                                   ELSE IF i \in deletes THEN NoRow ELSE rows[i]]
        /\ raced' = (raced \ deletes) \union (IF late THEN {j} ELSE {})
        /\ handling' = [handling EXCEPT ![w] = Idle]
        /\ UNCHANGED <<account, active, password, mailLink, resetLinks, attempts>>
    BY <1>6 DEF EndRotation
  <2>2. account = "verified" /\ (late \/ pw = password) /\ pw \in 0 .. MaxPasswords
        /\ deletes \in SUBSET Rows
    BY <1>3, <2>1
  <2> HIDE DEF pw, late, deletes
  <2>3. rows' = RowsWith({j}, pw, deletes)
    BY <2>1 DEF RowsWith
  <2>4. Marked({j}, pw, deletes)
    BY <1>1, <2>1, <2>2 DEF Marked
  <2> QED  BY <1>2, <2>1, <2>2, <2>3, <2>4, EndsKeeps
<1>7. ASSUME NEW i \in Rows, OAuthLogin(i)
      PROVE  AccountInv'
  <2>1. /\ account' = "verified" /\ NewRow(i, password, FALSE)
        /\ UNCHANGED <<active, password, mailLink, resetLinks, handling, attempts>>
    BY <1>7 DEF OAuthLogin
  <2>2. rows' = RowsWith({i}, password, {})
    BY <1>1, <2>1 DEF NewRow, RowsWith
  <2>3. Marked({i}, password, {})
    BY <1>1, <2>1 DEF NewRow, Marked
  <2>4. OnlyEnds
    BY <1>1, <2>1 DEF OnlyEnds
  <2> QED  BY <1>1, <2>1, <2>2, <2>3, <2>4, EndsKeeps
<1>8. ASSUME NEW i \in Rows, DropRow(i)
      PROVE  AccountInv'
  <2>1. /\ rows' = [rows EXCEPT ![i] = NoRow] /\ raced' = raced \ {i}
        /\ UNCHANGED <<account, active, password, mailLink, resetLinks, handling, attempts>>
    BY <1>8 DEF DropRow
  <2>2. rows' = RowsWith({}, password, {i})
    BY <1>1, <2>1 DEF RowsWith
  <2>3. Marked({}, password, {i})
    BY <1>1, <2>1 DEF Marked
  <2>4. OnlyEnds
    BY <1>1, <2>1 DEF OnlyEnds
  <2> QED  BY <1>1, <2>1, <2>2, <2>3, <2>4, EndsKeeps
<1> QED  BY <1>4, <1>5, <1>6, <1>7, <1>8

\* The commit of a reset: of the sessions only those that came after its DELETE stay,
\* and these, like the requests under way, are marked.
LEMMA ResetKeeps ==
    ASSUME AccountInv, NEW w \in Workers, EndReset(w)
    PROVE  AccountInv'
<1> USE AccountAssumption DEF AccountInv
<1> DEFINE deletes == handling[w].deletes
<1>1. /\ password < MaxPasswords /\ password' = password + 1
      /\ resetLinks' \subseteq resetLinks
      /\ rows' = [i \in Rows |-> IF i \in deletes THEN NoRow ELSE rows[i]]
      /\ raced' = Stored \ deletes
      /\ UNCHANGED <<account, active, mailLink, attempts>>
  BY DEF EndReset, RowsAfterReset
<1>2. handling' = [v \in Workers |->
                     IF v = w \/ handling[v] = Idle THEN Idle
                     ELSE [handling[v] EXCEPT !.late = TRUE]]
  BY DEF EndReset
<1> HIDE DEF deletes
<1>3. ASSUME NEW v \in Workers, handling'[v] # Idle
      PROVE  /\ handling[v] # Idle
             /\ handling'[v] \in Request /\ handling'[v].late
             /\ handling'[v].kind = handling[v].kind
  <2>1. handling[v] # Idle /\ handling'[v] = [handling[v] EXCEPT !.late = TRUE]
    BY <1>2, <1>3
  <2>2. handling[v] \in Request
    BY <2>1 DEF AccountTypeOK
  <2> QED  BY <2>1, <2>2 DEF Request
<1>4. handling' \in [Workers -> Request \union {Idle}]
  <2>1. \A v \in Workers : handling'[v] \in Request \union {Idle}
    BY <1>3
  <2>2. DOMAIN handling' = Workers /\ handling' = [v \in Workers |-> handling'[v]]
    BY <1>2
  <2> QED  BY <2>1, <2>2
<1>5. AccountTypeOK'
  <2>1. rows' \in [Rows -> 0 .. NoRow] /\ raced' \subseteq Rows
    BY <1>1 DEF AccountTypeOK, NoRow, Stored
  <2>2. password' \in 0 .. MaxPasswords
    BY <1>1 DEF AccountTypeOK
  <2> QED  BY <1>1, <1>4, <2>1, <2>2 DEF AccountTypeOK
<1>6. Stored' = Stored \ deletes
  BY <1>1 DEF Stored
<1>7. SessionsUnderPassword'
  BY <1>1, <1>6 DEF SessionsUnderPassword
<1>8. RequestsUnderPassword'
  BY <1>3 DEF RequestsUnderPassword, Busy
<1>9. SessionsAreVerified'
  BY <1>1, <1>3, <1>6 DEF SessionsAreVerified, Busy
<1> QED  BY <1>5, <1>7, <1>8, <1>9

\* Whatever logins, rotations and resets overlap: a session that no reset overlapped is
\* one under the current password, and nobody has a session before the address is
\* verified.
THEOREM AccountInvariant == AccountSpec => []AccountInv
<1>1. AccountInv /\ [AccountNext]_accountVars => AccountInv'
  <2> SUFFICES ASSUME AccountInv, [AccountNext]_accountVars  PROVE AccountInv'
    OBVIOUS
  <2>1. CASE UNCHANGED accountVars
    BY <2>1 DEF accountVars, AccountInv, AccountTypeOK, SessionsUnderPassword,
                RequestsUnderPassword, SessionsAreVerified, Stored, Busy
  <2>2. CASE AccountNext
    BY <2>2, AccountKeeps, BeginStepKeeps, EndStepKeeps, ResetKeeps DEF AccountNext
  <2> QED  BY <2>1, <2>2
<1> QED  BY <1>1, AccountInitially, PTL DEF AccountSpec

=============================================================================
