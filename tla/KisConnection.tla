---------------------------- MODULE KisConnection ----------------------------
(***************************************************************************)
(* One KisAdapter and its connection to the broker                         *)
(* (local_server/broker/kis: adapter, state_machine, reconnect, ws; the    *)
(* approval key of auth).  Three coroutines use it: the caller of connect, *)
(* the reconnect task that the state machine's callback starts, and the    *)
(* engine's subscribe_quotes.  All run on one event loop; at[p] names the  *)
(* await coroutine p is suspended at:                                      *)
(*   "sleep"   the reconnect task's back-off                               *)
(*   "token"   get_access_token       "socket"  websockets.connect         *)
(*   "key"     get_approval_key                                            *)
(* Transitions of the state machine hold a lock over no await, so they     *)
(* never wait; nor does a send, whose messages are too few to fill the     *)
(* outgoing buffer.  Names ending in "Mutant" are faulty variants of the   *)
(* definition that follows them (see TradingEngine).                       *)
(***************************************************************************)
EXTENDS Integers, FiniteSets

CONSTANTS
    Symbols,       \* stock codes the engine subscribes to
    Sockets,       \* web sockets that can be opened (bounds the run)
    MaxRetries,    \* ReconnectManager._max_retries
    None           \* "no socket"

ASSUME KisAssumption == MaxRetries \in Nat \ {0} /\ None \notin Sockets

Connectors == {"caller", "task"}        \* who runs _do_connect
Procs == Connectors \cup {"engine"}

States == {"DISCONNECTED", "CONNECTING", "CONNECTED", "AUTHENTICATED",
           "SUBSCRIBED", "ERROR"}

Steps == {"none", "sleep", "token", "socket", "key"}

\* What the owner of the adapter (start_strategy, the lifespan of main.py,
\* the reconnect request of routers/broker.py) has done with it.
Owners == {"new", "connecting", "owned", "discarded", "closing", "closed"}

VARIABLES
    state,        \* StateMachine._state
    enabled,      \* ReconnectManager._enabled
    retries,      \* ReconnectManager._retry_count
    at,           \* where each coroutine is suspended
    todo,         \* the symbols each call of KisWS.subscribe was given
    ws,           \* KisWS._ws
    connected,    \* KisWS._connected
    subscribed,   \* KisWS._subscribed
    wanted,       \* KisAdapter._subscribed_symbols
    keyCached,    \* KisAuth._approval_key is not None
    notice,       \* a transition to ERROR is scheduled by _on_ws_disconnect
    fate,         \* network: "unused", "open", "lost" or "closed" sockets
    subs,         \* network: what was subscribed over each socket
    owner

machine == <<state, enabled, retries>>
socketVars == <<ws, connected, fate>>
subVars == <<subscribed, subs>>
vars == <<machine, at, todo, socketVars, subVars, wanted, keyCached, notice, owner>>
-----------------------------------------------------------------------------
(* StateMachine and ReconnectManager.                                      *)

VALID_TRANSITIONS ==
    [DISCONNECTED  |-> {"CONNECTING"},
     CONNECTING    |-> {"CONNECTED", "ERROR", "DISCONNECTED"},
     CONNECTED     |-> {"AUTHENTICATED", "ERROR", "DISCONNECTED"},
     AUTHENTICATED |-> {"SUBSCRIBED", "ERROR", "DISCONNECTED"},
     SUBSCRIBED    |-> {"AUTHENTICATED", "ERROR", "DISCONNECTED"},
     ERROR         |-> {"DISCONNECTED", "CONNECTING", "CONNECTED"}]

\* StateMachine._validate
Allowed(from, to) == to \in VALID_TRANSITIONS[from]

IsOperational == state \in {"AUTHENTICATED", "SUBSCRIBED"}

\* transition(ERROR) where an invalid transition is ignored
ErrorState == IF Allowed(state, "ERROR") THEN "ERROR" ELSE state

\* The callback does not ask whether it may start the task.
DisabledTaskMutant ==
    IF Allowed(state, "ERROR") /\ at["task"] = "none" /\ retries < MaxRetries
    THEN "sleep" ELSE at["task"]

\* on_state_change for a transition to ERROR: a new reconnect task unless one
\* is running.  It gives up at once when the retries are used up.
StartedTask ==
    IF enabled /\ Allowed(state, "ERROR") /\ at["task"] = "none"
       /\ retries < MaxRetries
    THEN "sleep" ELSE at["task"]

\* A failed attempt is not counted.
FailedTaskMutant == UNCHANGED retries /\ at' = [at EXCEPT !["task"] = "sleep"]

\* _reconnect_loop after an exception of _do_connect
FailedTask ==
    /\ retries' = retries + 1
    /\ at' = [at EXCEPT !["task"] =
                  IF retries + 1 < MaxRetries THEN "sleep" ELSE "none"]

\* An exception in coroutine p.  The reconnect task is running when its own
\* attempt fails, so the callback then starts no other.
Fail(p) ==
    /\ state' = IF p = "engine" THEN state ELSE ErrorState
    /\ UNCHANGED <<enabled, todo>>
    /\ \/ /\ p = "caller"
          /\ at' = [at EXCEPT !["caller"] = "none", !["task"] = StartedTask]
          /\ owner' = "discarded"
          /\ UNCHANGED retries
       \/ /\ p = "task"
          /\ FailedTask
          /\ UNCHANGED owner
       \/ /\ p = "engine"
          /\ at' = [at EXCEPT !["engine"] = "none"]
          /\ UNCHANGED <<retries, owner>>

\* p returns.  In between, _do_connect starts the reconciler.
Succeed(p) ==
    /\ at' = [at EXCEPT ![p] = "none"]
    /\ retries' = IF p = "task" THEN 0 ELSE retries
    /\ owner' = IF p = "caller" THEN "owned" ELSE owner
    /\ UNCHANGED <<enabled, todo>>
-----------------------------------------------------------------------------
(* KisAdapter.connect and _do_connect.                                     *)

\* The owner tries an adapter again whose connect has failed.
ConnectMutant ==
    /\ owner \in {"new", "discarded"} /\ state \in {"DISCONNECTED", "ERROR"}
    /\ owner' = "connecting"
    /\ state' = "CONNECTED"
    /\ at' = [at EXCEPT !["caller"] = "token"]
    /\ UNCHANGED <<enabled, retries, todo, socketVars, subVars, wanted,
                   keyCached, notice>>

\* DISCONNECTED, CONNECTING, CONNECTED; then the token is awaited.
Connect ==
    /\ owner = "new"
    /\ owner' = "connecting"
    /\ state' = "CONNECTED"
    /\ at' = [at EXCEPT !["caller"] = "token"]
    /\ UNCHANGED <<enabled, retries, todo, socketVars, subVars, wanted,
                   keyCached, notice>>

\* The back-off is over: transition(CONNECTED), get_access_token.
WakeUp ==
    /\ at["task"] = "sleep"
    /\ IF Allowed(state, "CONNECTED")
       THEN /\ state' = "CONNECTED"
            /\ at' = [at EXCEPT !["task"] = "token"]
            /\ UNCHANGED <<enabled, retries, todo, owner>>
       ELSE Fail("task")
    /\ UNCHANGED <<socketVars, subVars, wanted, keyCached, notice>>

TokenArrives(p) ==
    /\ at[p] = "token"
    /\ IF Allowed(state, "AUTHENTICATED")
       THEN /\ state' = "AUTHENTICATED"
            /\ at' = [at EXCEPT ![p] = "socket"]
            /\ UNCHANGED <<enabled, retries, todo, owner>>
       ELSE Fail(p)
    /\ UNCHANGED <<socketVars, subVars, wanted, keyCached, notice>>

\* The token request or websockets.connect raises.
ConnectFails(p) ==
    /\ at[p] \in {"token", "socket"}
    /\ Fail(p)
    /\ UNCHANGED <<socketVars, subVars, wanted, keyCached, notice>>

\* The messages of KisWS.subscribe go out over socket s, for the symbols that
\* are not listed yet.
SendAll(S, s) == /\ subscribed' = subscribed \cup S
                 /\ subs' = [subs EXCEPT ![s] = @ \cup (S \ subscribed)]

\* KisWS.connect returns.  _subscribed still lists what was subscribed over
\* the socket before; the symbols in it are not subscribed again.
SocketOpens(p) ==
    /\ at[p] = "socket"
    /\ \E s \in Sockets : /\ fate[s] = "unused"
                          /\ fate' = [fate EXCEPT ![s] = "open"]
                          /\ ws' = s
    /\ connected' = TRUE
    /\ IF ~Allowed(state, "SUBSCRIBED") THEN Fail(p) /\ UNCHANGED subVars
       ELSE /\ state' = "SUBSCRIBED"
            /\ IF wanted = {} \/ keyCached
               THEN Succeed(p) /\ SendAll(wanted, ws')
               ELSE /\ at' = [at EXCEPT ![p] = "key"]
                    /\ todo' = [todo EXCEPT ![p] = wanted]
                    /\ UNCHANGED <<enabled, retries, owner, subVars>>
    /\ UNCHANGED <<wanted, keyCached, notice>>
-----------------------------------------------------------------------------
(* KisAdapter.subscribe_quotes and KisWS.subscribe.                        *)

\* The approval key is there: the symbols in S that are not listed are sent.
\* Over a socket that is gone this raises, unless there is nothing to send.
Subscribe(p, S) ==
    IF S \subseteq subscribed
    THEN Succeed(p) /\ UNCHANGED <<state, subVars>>
    ELSE IF ws # None /\ fate[ws] = "open"
    THEN Succeed(p) /\ SendAll(S, ws) /\ UNCHANGED state
    ELSE Fail(p) /\ UNCHANGED subVars

\* The engine subscribes.  The symbols are remembered for reconnects whether
\* or not the socket is there.
SubscribeQuotes ==
    /\ owner = "owned" /\ at["engine"] = "none" /\ IsOperational
    /\ \E S \in SUBSET Symbols \ {{}} :
          /\ wanted' = wanted \cup S
          /\ \/ /\ ~connected
                /\ Fail("engine") /\ UNCHANGED subVars
             \/ /\ connected /\ keyCached
                /\ Subscribe("engine", S)
             \/ /\ connected /\ ~keyCached
                /\ at' = [at EXCEPT !["engine"] = "key"]
                /\ todo' = [todo EXCEPT !["engine"] = S]
                /\ UNCHANGED <<machine, subVars, owner>>
    /\ UNCHANGED <<socketVars, keyCached, notice>>

KeyArrives(p) ==
    /\ at[p] = "key"
    /\ keyCached' = TRUE
    /\ Subscribe(p, todo[p])
    /\ UNCHANGED <<socketVars, wanted, notice>>

KeyFails(p) ==
    /\ at[p] = "key"
    /\ Fail(p)
    /\ UNCHANGED <<socketVars, subVars, wanted, keyCached, notice>>
-----------------------------------------------------------------------------
(* The network, and what KisWS and the state machine make of it.           *)

\* A socket breaks: its receive loop ends with ConnectionClosed and calls
\* _on_ws_disconnect.  A socket a failed attempt has left behind has a
\* receive loop too, and clears the flag of the present one.
SocketLost(s) ==
    /\ fate[s] = "open"
    /\ fate' = [fate EXCEPT ![s] = "lost"]
    /\ connected' = FALSE
    /\ notice' = TRUE
    /\ UNCHANGED <<machine, at, todo, ws, subVars, wanted, keyCached, owner>>

\* The server closes a socket properly: "async for" just ends.
SocketClosed(s) ==
    /\ fate[s] = "open"
    /\ fate' = [fate EXCEPT ![s] = "closed"]
    /\ UNCHANGED <<machine, at, todo, ws, connected, subVars, wanted, keyCached,
                   notice, owner>>

\* The scheduled transition runs, and the callback after it.
HandleNotice ==
    /\ notice /\ notice' = FALSE
    /\ state' = ErrorState
    /\ at' = [at EXCEPT !["task"] = StartedTask]
    /\ UNCHANGED <<enabled, retries, todo, socketVars, subVars, wanted,
                   keyCached, owner>>

\* An order fails with an authentication error: KisAuth.invalidate.
InvalidateKey ==
    /\ keyCached /\ owner = "owned"
    /\ keyCached' = FALSE
    /\ UNCHANGED <<machine, at, todo, socketVars, subVars, wanted, notice, owner>>
-----------------------------------------------------------------------------
(* The owner of the adapter.                                               *)

\* The lifespan's wait_for cancels connect after fifteen seconds.
ConnectTimesOut ==
    /\ at["caller"] # "none"
    /\ at' = [at EXCEPT !["caller"] = "none"]
    /\ owner' = "discarded"
    /\ UNCHANGED <<machine, todo, socketVars, subVars, wanted, keyCached, notice>>

\* start_strategy finds the adapter not operational and makes another.
Replace ==
    /\ owner = "owned" /\ ~IsOperational /\ at["engine"] = "none"
    /\ owner' = "discarded"
    /\ UNCHANGED <<machine, at, todo, socketVars, subVars, wanted, keyCached, notice>>

\* disconnect, up to the reconciler's end; disable cancels the reconnect task.
Disconnect ==
    /\ owner = "owned" /\ at["engine"] = "none"
    /\ enabled' = FALSE
    /\ at' = [at EXCEPT !["task"] = "none"]
    /\ owner' = "closing"
    /\ UNCHANGED <<state, retries, todo, socketVars, subVars, wanted, keyCached,
                   notice>>

\* KisWS.disconnect and StateMachine.reset
Disconnected ==
    /\ owner = "closing"
    /\ owner' = "closed"
    /\ connected' = FALSE /\ ws' = None /\ subscribed' = {}
    /\ fate' = IF ws # None /\ fate[ws] = "open"
               THEN [fate EXCEPT ![ws] = "closed"] ELSE fate
    /\ state' = "DISCONNECTED"
    /\ UNCHANGED <<enabled, retries, at, todo, subs, wanted, keyCached, notice>>
-----------------------------------------------------------------------------
Init ==
    /\ state = "DISCONNECTED" /\ enabled = TRUE /\ retries = 0
    /\ at = [p \in Procs |-> "none"] /\ todo = [p \in Procs |-> {}]
    /\ ws = None /\ connected = FALSE /\ subscribed = {} /\ wanted = {}
    /\ keyCached = FALSE /\ notice = FALSE
    /\ fate = [s \in Sockets |-> "unused"] /\ subs = [s \in Sockets |-> {}]
    /\ owner = "new"

Subscribing(p) == KeyArrives(p) \/ KeyFails(p)

Connecting(p) == TokenArrives(p) \/ ConnectFails(p) \/ SocketOpens(p)

TaskStep == WakeUp \/ Connecting("task") \/ Subscribing("task")

\* The caller of connect never subscribes: nothing is wanted before the owner
\* has the adapter (OwnerInv).
Next ==
    \/ Connect \/ Connecting("caller") \/ ConnectTimesOut
    \/ TaskStep
    \/ SubscribeQuotes \/ Subscribing("engine")
    \/ \E s \in Sockets : SocketLost(s) \/ SocketClosed(s)
    \/ HandleNotice \/ InvalidateKey
    \/ Replace \/ Disconnect \/ Disconnected

\* The back-off sleeps at most a minute and the requests of an attempt time out
\* after ten seconds.
Spec == Init /\ [][Next]_vars /\ WF_vars(TaskStep)
-----------------------------------------------------------------------------
\* Types of all variables.
TypeOK ==
    /\ state \in States /\ enabled \in BOOLEAN /\ retries \in 0..MaxRetries
    /\ at \in [Procs -> Steps] /\ todo \in [Procs -> SUBSET Symbols]
    /\ ws \in Sockets \cup {None} /\ connected \in BOOLEAN
    /\ subscribed \in SUBSET Symbols /\ wanted \in SUBSET Symbols
    /\ keyCached \in BOOLEAN /\ notice \in BOOLEAN
    /\ fate \in [Sockets -> {"unused", "open", "lost", "closed"}]
    /\ subs \in [Sockets -> SUBSET Symbols]
    /\ owner \in Owners

\* Two attempts to connect never run at the same time, although both the
\* owner and the state machine's callback start them: they would open two
\* sockets and move one state machine.
OneAttempt == at["caller"] # "none" => at["task"] = "none"

\* A reconnect task that backs off finds the state machine in ERROR when it
\* wakes up: from any other state its first transition would be refused and
\* every retry be used up without a single request.
SleepsInError == at["task"] = "sleep" => state = "ERROR"

\* A lost connection that was noticed is left alone only when the retries are
\* used up or when a wanted symbol is listed as subscribed: only then can the
\* attempt during which the loss was noticed end without sending anything and
\* count as a success.
OnlyListedSymbolsHideALoss ==
    state = "ERROR" /\ enabled /\ at["task"] = "none" =>
        retries = MaxRetries \/ wanted \cap subscribed # {}

\* An adapter that was disconnected stays so: no attempt under way, no
\* scheduled transition and no socket left behind brings it back.
ClosedStaysClosed ==
    owner = "closed" => state = "DISCONNECTED" /\ at["task"] = "none"

\* The reconnect task ends: it succeeds, or gives up after MaxRetries.
ReconnectEnds == at["task"] # "none" ~> at["task"] = "none"

\* Who may be doing what, given what the owner has done with the adapter.
OwnerInv ==
    /\ owner \in {"new", "connecting"} =>
          /\ at["task"] = "none" /\ at["engine"] = "none"
          /\ wanted = {} /\ ~notice
          /\ \A s \in Sockets : fate[s] = "unused"
    /\ at["caller"] \in {"none", "token", "socket"}
    /\ at["caller"] # "none" <=> owner = "connecting"
    /\ owner = "connecting" => state \in {"CONNECTED", "AUTHENTICATED"}
    /\ state = "DISCONNECTED" => owner \in {"new", "closed"}
    /\ enabled <=> owner \notin {"closing", "closed"}
    /\ at["engine"] # "none" => owner = "owned"

\* A reconnect task belongs to an enabled manager with retries left, and it
\* waits for the approval key only to subscribe something.
TaskInv ==
    /\ at["task"] # "none" => enabled /\ retries < MaxRetries
    /\ at["task"] = "key" => todo["task"] # {} /\ todo["task"] \subseteq wanted

\* The inductive invariant of the connection.
KisInv == /\ TypeOK /\ OwnerInv /\ TaskInv
          /\ SleepsInError /\ OnlyListedSymbolsHideALoss /\ ClosedStaysClosed

(* What documents say and the code does not do.                            *)

\* "Quotes resume after the broker reconnects" (stability spec): with an open
\* socket and no subscription under way, what is listed as subscribed is
\* subscribed over that socket.
QuotesResume ==
    state = "SUBSCRIBED" /\ (\A p \in Procs : at[p] = "none")
    /\ ws # None /\ fate[ws] = "open" => subscribed \subseteq subs[ws]

\* "WS connection lost -> StateMachine ERROR -> automatic reconnect"
\* (stability spec): an adapter in use whose socket is gone is about to learn
\* of it, reconnecting, or has given up.
LossReconnects ==
    owner = "owned" /\ ws # None /\ fate[ws] # "open" =>
        notice \/ at["task"] # "none" \/ retries = MaxRetries
=============================================================================
