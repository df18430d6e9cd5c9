-------------------------- MODULE KiwoomConnection ---------------------------
(***************************************************************************)
(* One KiwoomAdapter, the default broker's: its connection                 *)
(* (kiwoom/adapter.py, kiwoom/ws.py, with the state machine and the        *)
(* reconnect manager of kis/), and the two ways quotes come in, the web    *)
(* socket and, when that could not be opened, polling.                     *)
(*                                                                         *)
(* Unlike KisAdapter, a failing web socket is no failed connection, and    *)
(* nobody tells the state machine that a socket was lost.  at[p] names the *)
(* await at which _do_connect is suspended in the owner's call of connect  *)
(* or in the reconnect task.  Names ending in "Mutant" are faulty variants *)
(* of the definition that follows them.                                    *)
(***************************************************************************)
EXTENDS Naturals

CONSTANTS
    Symbols,       \* stock codes
    MaxRetries     \* ReconnectManager._max_retries

ASSUME KiwoomAssumption == MaxRetries \in Nat \ {0}

Connectors == {"owner", "task"}

VARIABLES
    state,         \* StateMachine._state
    retries,       \* ReconnectManager._retry_count
    at,            \* where each attempt to connect is suspended
    available,     \* _ws_available
    wsConnected,   \* KiwoomWS._connected and _ws is not None
    listed,        \* KiwoomWS._subscribed
    socket,        \* network: the socket of _ws
    sent,          \* network: what was subscribed over it
    polled,        \* _rest_poll_symbols
    poll,          \* _rest_poll_task: none, or where it is suspended
    todo,          \* symbols this round of it has still to ask for
    wanted,        \* symbols an engine has subscribed without an exception
    quoted,        \* symbols whose price was asked for in this round
    holder         \* what the owner has done with the adapter

linkVars == <<available, wsConnected, listed, socket, sent>>
pollVars == <<polled, poll, todo, quoted>>
kiwoomVars == <<state, retries, at, linkVars, pollVars, wanted, holder>>

KiwoomTypeOK ==
    /\ state \in {"DISCONNECTED", "CONNECTED", "AUTHENTICATED", "SUBSCRIBED", "ERROR"}
    /\ retries \in 0 .. MaxRetries
    /\ at \in [Connectors -> {"none", "sleep", "token", "socket", "login"}]
    /\ available \in BOOLEAN /\ wsConnected \in BOOLEAN
    /\ listed \subseteq Symbols /\ sent \subseteq Symbols
    /\ socket \in {"none", "open", "lost", "closed"}
    /\ polled \subseteq Symbols /\ todo \subseteq Symbols
    /\ wanted \subseteq Symbols /\ quoted \subseteq Symbols
    /\ poll \in {"none", "asking", "sleeping"}
    /\ holder \in {"new", "connecting", "owned", "discarded", "closed"}

KiwoomInit ==
    /\ state = "DISCONNECTED" /\ retries = 0
    /\ at = [p \in Connectors |-> "none"]
    /\ available = FALSE /\ wsConnected = FALSE
    /\ listed = {} /\ socket = "none" /\ sent = {}
    /\ polled = {} /\ poll = "none" /\ todo = {}
    /\ wanted = {} /\ quoted = {}
    /\ holder = "new"

Operational == state \in {"AUTHENTICATED", "SUBSCRIBED"}

----------------------------------------------------------------------------
(* connect and _do_connect                                                 *)

\* CONNECTING, CONNECTED; then the token is awaited.
Connect ==
    /\ holder = "new"
    /\ holder' = "connecting"
    /\ state' = "CONNECTED"
    /\ at' = [at EXCEPT !["owner"] = "token"]
    /\ UNCHANGED <<retries, linkVars, pollVars, wanted>>

\* The reconnect task's back-off is over.
BackOffEnds ==
    /\ at["task"] = "sleep"
    /\ state' = "CONNECTED"
    /\ at' = [at EXCEPT !["task"] = "token"]
    /\ UNCHANGED <<retries, linkVars, pollVars, wanted, holder>>

\* No token: ERROR, whose callback starts the reconnect task unless this attempt is the
\* task's own; the owner drops the adapter and does not disable the task.
TokenFails(p) ==
    /\ at[p] = "token"
    /\ state' = "ERROR"
    /\ IF p = "owner"
         THEN /\ at' = [owner |-> "none", task |-> "sleep"]
              /\ holder' = "discarded"
              /\ UNCHANGED retries
         ELSE /\ retries' = retries + 1
              /\ at' = [at EXCEPT !["task"] = IF retries + 1 < MaxRetries THEN "sleep" ELSE "none"]
              /\ UNCHANGED holder
    /\ UNCHANGED <<linkVars, pollVars, wanted>>

TokenArrives(p) ==
    /\ at[p] = "token"
    /\ state' = "AUTHENTICATED"
    /\ at' = [at EXCEPT ![p] = "socket"]
    /\ UNCHANGED <<retries, linkVars, pollVars, wanted, holder>>

SocketOpens(p) ==
    /\ at[p] = "socket"
    /\ socket' = "open" /\ sent' = {}
    /\ at' = [at EXCEPT ![p] = "login"]
    /\ UNCHANGED <<state, retries, available, wsConnected, listed, pollVars, wanted, holder>>

\* _do_connect after KiwoomWS.connect: SUBSCRIBED, with or without a socket.
Subscribed(p) ==
    /\ state' = "SUBSCRIBED"
    /\ at' = [at EXCEPT ![p] = "none"]
    /\ retries' = IF p = "task" THEN 0 ELSE retries
    /\ holder' = IF p = "owner" THEN "owned" ELSE holder
    /\ UNCHANGED <<pollVars, wanted>>

\* Whatever the answer to LOGIN says.
LoginAnswered(p) ==
    /\ at[p] = "login" /\ socket = "open"
    /\ wsConnected' = TRUE /\ available' = TRUE
    /\ Subscribed(p)
    /\ UNCHANGED <<listed, socket, sent>>

\* The socket is refused, breaks, or LOGIN is not answered within ten seconds: REST
\* polling.  A socket that was opened stays as it is.
WebSocketFails(p) ==
    /\ at[p] \in {"socket", "login"}
    /\ available' = FALSE
    /\ Subscribed(p)
    /\ UNCHANGED <<wsConnected, listed, socket, sent>>

\* The lifespan's wait_for cancels connect; no exception reaches the state machine.
ConnectTimesOut ==
    /\ at["owner"] # "none"
    /\ at' = [at EXCEPT !["owner"] = "none"]
    /\ holder' = "discarded"
    /\ UNCHANGED <<state, retries, linkVars, pollVars, wanted>>

----------------------------------------------------------------------------
(* Subscribing and polling                                                 *)

\* The poll task is not started.
PollStartedMutant == poll

PollStarted == IF poll = "none" THEN "asking" ELSE poll

\* KiwoomWS.subscribe sends nothing when all symbols are listed; over a socket that is
\* gone it raises, and the engine's start with it.
WsSubscribe(S) ==
    /\ S \subseteq listed \/ socket = "open"
    /\ listed' = listed \union S
    /\ sent' = sent \union (S \ listed)

\* KiwoomWS.disconnect
WsDisconnect ==
    /\ wsConnected' = FALSE /\ listed' = {} /\ sent' = {}
    /\ socket' = IF socket = "open" THEN "closed" ELSE socket

\* subscribe_quotes of an engine that starts.
SubscribeQuotes(S) ==
    /\ holder = "owned" /\ Operational
    /\ \/ /\ available /\ wsConnected
          /\ WsSubscribe(S)
          /\ wanted' = wanted \union S
          /\ UNCHANGED <<polled, poll, todo>>
       \/ /\ ~available
          /\ polled' = polled \union S
          /\ poll' = PollStarted
          /\ todo' = IF poll = "none" THEN polled' ELSE todo
          /\ wanted' = wanted \union S
          /\ UNCHANGED <<listed, sent>>
    /\ UNCHANGED <<state, retries, at, available, wsConnected, socket, quoted, holder>>

\* The first exception ends the round.
AfterMutant(S, s) == {}

After(S, s) == S \ {s}

\* One symbol of the round: its price is asked for, and the callbacks get it or the
\* exception is swallowed.  After the last one the task sleeps.
PollOne(s) ==
    /\ poll = "asking" /\ s \in todo
    /\ quoted' = quoted \union {s}
    /\ todo' = After(todo, s)
    /\ poll' = IF todo' = {} THEN "sleeping" ELSE "asking"
    /\ UNCHANGED <<state, retries, at, linkVars, polled, wanted, holder>>

\* Ten seconds later.  Nobody calls unsubscribe_quotes: the list is never empty again.
PollRound ==
    /\ poll = "sleeping"
    /\ poll' = "asking"
    /\ todo' = polled
    /\ quoted' = {}
    /\ UNCHANGED <<state, retries, at, linkVars, polled, wanted, holder>>

----------------------------------------------------------------------------
(* The network and the owner                                               *)

\* A socket breaks; the receive loop, once it runs, clears the flag.
SocketLost ==
    /\ socket = "open"
    /\ socket' = "lost"
    /\ wsConnected' = FALSE
    /\ UNCHANGED <<state, retries, at, available, listed, sent, pollVars, wanted, holder>>

\* The server closes it properly: "async for" just ends.
SocketClosed ==
    /\ socket = "open"
    /\ socket' = "closed"
    /\ UNCHANGED <<state, retries, at, available, wsConnected, listed, sent, pollVars, wanted,
                   holder>>

\* disconnect, by the reconnect request or at shutdown.  The web socket is closed if it
\* was available; the list of polled symbols stays.
Disconnect ==
    /\ holder = "owned"
    /\ holder' = "closed"
    /\ at' = [at EXCEPT !["task"] = "none"]
    /\ poll' = "none" /\ todo' = {}
    /\ IF available
         THEN WsDisconnect
         ELSE UNCHANGED <<wsConnected, listed, sent, socket>>
    /\ state' = "DISCONNECTED"
    /\ UNCHANGED <<retries, available, polled, quoted, wanted>>

----------------------------------------------------------------------------
Attempt(p) ==
    TokenArrives(p) \/ TokenFails(p) \/ SocketOpens(p) \/ LoginAnswered(p) \/ WebSocketFails(p)

Poll == PollRound \/ \E s \in Symbols : PollOne(s)

KiwoomNext ==
    \/ Connect \/ ConnectTimesOut \/ Disconnect
    \/ BackOffEnds
    \/ \E p \in Connectors : Attempt(p)
    \/ \E S \in SUBSET Symbols \ {{}} : SubscribeQuotes(S)
    \/ Poll
    \/ SocketLost \/ SocketClosed

\* Requests time out, sleeps end.
KiwoomFairness ==
    /\ WF_kiwoomVars(BackOffEnds)
    /\ \A p \in Connectors : WF_kiwoomVars(Attempt(p))
    /\ WF_kiwoomVars(Poll)

KiwoomSpec == KiwoomInit /\ [][KiwoomNext]_kiwoomVars /\ KiwoomFairness

----------------------------------------------------------------------------
\* The adapter the server uses is never connected a second time: the reconnect task only
\* ever works for adapters that were dropped.
TaskForDroppedOnly == at["task"] # "none" => holder = "discarded" /\ available = FALSE

\* A connected adapter without a web socket polls what was subscribed, and one with it
\* never polls as well, so no trade is counted twice.
OneSource ==
    /\ poll # "none" => ~available
    /\ holder = "owned" /\ polled # {} => poll # "none"
    /\ holder = "owned" => wanted = IF available THEN listed ELSE polled

\* What is listed as subscribed was subscribed over the present socket.
ListedWasSent == holder = "owned" => listed = sent

\* What an adapter can hold at each stage of its life: nothing is subscribed before
\* connect has succeeded, and the task gives up before it runs out of retries.
StagesOfLife ==
    /\ at["owner"] # "none" => holder = "connecting"
    /\ at["task"] # "none" => retries < MaxRetries
    /\ holder # "owned" => poll = "none"
    /\ holder \in {"new", "connecting"} =>
          /\ retries = 0 /\ ~available
          /\ listed = {} /\ sent = {} /\ polled = {} /\ wanted = {}

KiwoomInv == KiwoomTypeOK /\ StagesOfLife /\ TaskForDroppedOnly /\ OneSource /\ ListedWasSent

\* Without a web socket every subscribed symbol is asked for again and again, whatever
\* happens to the requests for the others.
EveryoneIsPolled ==
    \A s \in Symbols : []<>(s \in polled => s \in quoted \/ holder = "closed")

\* "WS connection lost -> StateMachine ERROR -> automatic reconnect" (stability spec): an
\* adapter in use does not stay on a dead socket for ever.
LossNoticed ==
    holder = "owned" /\ available /\ socket \in {"lost", "closed"} ~>
        holder # "owned" \/ state = "ERROR" \/ socket = "open"
=============================================================================
