--------------------------- MODULE RemoteControl ---------------------------
(***************************************************************************)
(* The relay of the cloud server for one user: commands of remote devices  *)
(* are handed to the registered WebSocket of the user's local server or    *)
(* queued in the table pending_commands and flushed when the local server  *)
(* comes back (relay_manager.py, ws_relay.py, ws_relay_client.py).         *)
(*                                                                         *)
(* A connection is one WebSocket with its handler coroutine on the server  *)
(* and the reconnecting loop of the local server at the other end.  A      *)
(* coroutine runs without interruption between two awaits: such a piece is *)
(* one action.  Names ending in "Mutant" are faulty variants of the        *)
(* definition that follows them.                                           *)
(***************************************************************************)
EXTENDS Naturals, Sequences, FiniteSets, SequencesExt, Filters

CONSTANTS
    Conns,       \* WebSocket connections, reused once their handler has ended
    NoConn,      \* no connection
    Cmds,        \* commands, each issued once by some device
    MaxCmds,     \* commands a minute that the rate limiter lets through
    MaxBackoff,  \* longest pause before a reconnect, the shortest is 1
    MaxCuts      \* bound: connections lost, reads and commits failed

ASSUME RelayAssumption ==
    /\ NoConn \notin Conns
    /\ MaxCmds \in Nat \ {0}
    /\ MaxBackoff \in Nat \ {0}
    /\ MaxCuts \in Nat

VARIABLES
    registered,  \* _local_connections[user]: the connection commands are sent to
    handler,     \* handler[c]: where the server's coroutine of c stands
    rowsLeft,    \* rowsLeft[c]: rows the flush of c has read and not yet tried
    marked,      \* marked[c]: rows the flush of c has sent, not yet committed
    link,        \* link[c]: "up", "cut" (the server has not noticed), "closed"
    wire,        \* wire[c]: commands on their way to the local server
    pending,     \* pending_commands with status 'pending', by created_at
    recent,      \* commands in the rate limiter's window of 60 seconds
    client,      \* the connection the local server believes in
    backoff,     \* its next pause
    tokenValid,  \* is the JWT that the client was started with still valid?
    accepted,    \* commands the relay has accepted
    handled,     \* handled[m]: times the local server has executed m
    lost,        \* commands that a failure took: cut connection, failed insert
    overlapped,  \* was a registration replaced or removed by another connection?
    uncommitted, \* rows sent by a flush whose commit failed
    unread,      \* rows that the last flush left alone: reading the table failed
    cuts         \* faults so far: lost connections, failed reads and commits

relayVars == <<registered, handler, rowsLeft, marked, link, wire, pending, recent, client,
               backoff, tokenValid, accepted, handled, lost, overlapped, uncommitted, unread, cuts>>

RelayTypeOK ==
    /\ registered \in Conns \union {NoConn}
    /\ handler \in [Conns -> {"none", "auth", "flush", "loop"}]
    /\ rowsLeft \in [Conns -> Seq(Cmds)]
    /\ marked \in [Conns -> SUBSET Cmds]
    /\ link \in [Conns -> {"up", "cut", "closed"}]
    /\ wire \in [Conns -> Seq(Cmds)]
    /\ pending \in Seq(Cmds)
    /\ recent \in 0 .. MaxCmds
    /\ client \in Conns \union {NoConn}
    /\ backoff \in 1 .. MaxBackoff
    /\ tokenValid \in BOOLEAN
    /\ accepted \in SUBSET Cmds
    /\ handled \in [Cmds -> Nat]
    /\ lost \in SUBSET Cmds
    /\ overlapped \in BOOLEAN
    /\ uncommitted \in SUBSET Cmds
    /\ unread \in SUBSET Cmds
    /\ cuts \in 0 .. MaxCuts

RelayInit ==
    /\ registered = NoConn
    /\ handler = [c \in Conns |-> "none"]
    /\ rowsLeft = [c \in Conns |-> <<>>]
    /\ marked = [c \in Conns |-> {}]
    /\ link = [c \in Conns |-> "closed"]
    /\ wire = [c \in Conns |-> <<>>]
    /\ pending = <<>>
    /\ recent = 0
    /\ client = NoConn
    /\ backoff = 1
    /\ tokenValid = TRUE
    /\ accepted = {}
    /\ handled = [m \in Cmds |-> 0]
    /\ lost = {}
    /\ overlapped = FALSE
    /\ uncommitted = {}
    /\ unread = {}
    /\ cuts = 0

----------------------------------------------------------------------------
(* Sending.  send_to_local looks the connection up by user at every call;  *)
(* a send into a connection whose loss nobody has noticed succeeds.        *)

CanSend(conn) == conn # NoConn /\ link[conn] # "closed"

\* The wires after message m was handed to connection conn.
Sent(conn, m) ==
    IF link[conn] = "up" THEN [wire EXCEPT ![conn] = Append(@, m)] ELSE wire

Vanished(conn, m) == IF link[conn] = "up" THEN lost ELSE lost \union {m}

\* A device sends command m while a local server is registered.  No await lies
\* between the look-up and the send.
RelayCommand(m) ==
    /\ m \notin accepted
    /\ recent < MaxCmds
    /\ CanSend(registered)
    /\ accepted' = accepted \union {m}
    /\ recent' = recent + 1
    /\ wire' = Sent(registered, m)
    /\ lost' = Vanished(registered, m)
    /\ UNCHANGED <<registered, handler, rowsLeft, marked, link, pending, client, backoff,
                   tokenValid, handled, overlapped, uncommitted, unread, cuts>>

\* The same while nobody is registered or the send raises: the command becomes a
\* row.  A failing insert is logged and swallowed, the device hears "queued".
QueueCommand(m, inserted) ==
    /\ m \notin accepted
    /\ recent < MaxCmds
    /\ ~CanSend(registered)
    /\ accepted' = accepted \union {m}
    /\ recent' = recent + 1
    /\ IF inserted
         THEN pending' = Append(pending, m) /\ UNCHANGED lost
         ELSE lost' = lost \union {m} /\ UNCHANGED pending
    /\ UNCHANGED <<registered, handler, rowsLeft, marked, link, wire, client, backoff,
                   tokenValid, handled, overlapped, uncommitted, unread, cuts>>

\* Entries of the rate limiter's window grow older than a minute.
WindowMoves ==
    /\ recent > 0
    /\ recent' = recent - 1
    /\ UNCHANGED <<registered, handler, rowsLeft, marked, link, wire, pending, client, backoff,
                   tokenValid, accepted, handled, lost, overlapped, uncommitted, unread, cuts>>

----------------------------------------------------------------------------
(* The handler of a local server's connection.                             *)

\* One row of the flush of c: sent through whatever connection is registered now.
SendRow(c, reg, m, rest, done) ==
    /\ rowsLeft' = [rowsLeft EXCEPT ![c] = rest]
    /\ IF CanSend(reg)
         THEN /\ wire' = Sent(reg, m)
              /\ lost' = Vanished(reg, m)
              /\ marked' = [marked EXCEPT ![c] = done \union {m}]
         ELSE /\ marked' = [marked EXCEPT ![c] = done]
              /\ UNCHANGED <<wire, lost>>

\* flush_pending_commands reads the pending rows and sends the first one.
ReadRows(c) ==
    /\ IF pending = <<>>
         THEN /\ handler' = [handler EXCEPT ![c] = "loop"]
              /\ UNCHANGED <<rowsLeft, marked, wire, lost>>
         ELSE /\ handler' = [handler EXCEPT ![c] = "flush"]
              /\ SendRow(c, c, Head(pending), Tail(pending), {})
    /\ unread' = {}
    /\ UNCHANGED cuts

\* The database fails: the exception is logged, the handler goes on to its receive
\* loop, and the rows wait for the next registration.
ReadFails(c) ==
    /\ cuts < MaxCuts
    /\ cuts' = cuts + 1
    /\ handler' = [handler EXCEPT ![c] = "loop"]
    /\ unread' = ToSet(pending)
    /\ UNCHANGED <<rowsLeft, marked, wire, lost>>

\* The first message holds a valid token: the connection is registered, whatever
\* was registered before, and the flush of the pending rows begins.
Register(c) ==
    /\ handler[c] = "auth"
    /\ link[c] # "closed"
    /\ tokenValid
    /\ registered' = c
    /\ overlapped' = (overlapped \/ registered # NoConn)
    /\ ReadRows(c) \/ ReadFails(c)
    /\ UNCHANGED <<link, pending, recent, client, backoff, tokenValid, accepted, handled,
                   uncommitted>>

\* A token that is refused, or no token within AUTH_TIMEOUT: the server closes.
RefuseAuth(c) ==
    /\ handler[c] = "auth"
    /\ ~tokenValid \/ link[c] # "up"
    /\ handler' = [handler EXCEPT ![c] = "none"]
    /\ link' = [link EXCEPT ![c] = "closed"]
    /\ UNCHANGED <<registered, rowsLeft, marked, wire, pending, recent, client, backoff,
                   tokenValid, accepted, handled, lost, overlapped, uncommitted, unread, cuts>>

\* The loop of flush_pending_commands goes on after an await.
FlushRow(c) ==
    /\ handler[c] = "flush"
    /\ rowsLeft[c] # <<>>
    /\ SendRow(c, registered, Head(rowsLeft[c]), Tail(rowsLeft[c]), marked[c])
    /\ UNCHANGED <<registered, handler, link, pending, recent, client, backoff, tokenValid,
                   accepted, handled, overlapped, uncommitted, unread, cuts>>

\* The commit is forgotten; or it takes the rows that were not sent as well.
UncommittedMutant(c) == pending
AllTakenMutant(c) == <<>>

\* The rows that stay 'pending' when the flush of c commits.
NotSent(c) == Without(pending, marked[c])

\* All rows tried: the sent ones become 'executed' in one commit, which may fail:
\* the exception is logged and they stay 'pending'.
FlushCommit(c) ==
    /\ handler[c] = "flush"
    /\ rowsLeft[c] = <<>>
    /\ \/ /\ pending' = NotSent(c)
          /\ UNCHANGED <<uncommitted, unread, cuts>>
       \/ /\ cuts < MaxCuts
          /\ cuts' = cuts + 1
          /\ uncommitted' = uncommitted \union marked[c]
          /\ UNCHANGED pending
    /\ marked' = [marked EXCEPT ![c] = {}]
    /\ handler' = [handler EXCEPT ![c] = "loop"]
    /\ UNCHANGED <<registered, rowsLeft, link, wire, recent, client, backoff, tokenValid,
                   accepted, handled, lost, overlapped, unread>>

\* WebSocketDisconnect in the receive loop, or an exception of a message's
\* handler (an acknowledgement broadcast to devices while one of them comes or
\* goes): unregister_local removes the USER's entry and the limiter's log.
HandlerEnds(c) ==
    /\ handler[c] = "loop"
    /\ link' = [link EXCEPT ![c] = "closed"]
    /\ handler' = [handler EXCEPT ![c] = "none"]
    /\ registered' = NoConn
    /\ overlapped' = (overlapped \/ registered \notin {c, NoConn})
    /\ recent' = 0
    /\ UNCHANGED <<rowsLeft, marked, pending, client, backoff, tokenValid, accepted, handled,
                   uncommitted, unread>>

SocketDrops(c) ==
    /\ link[c] # "up"
    /\ HandlerEnds(c)
    /\ UNCHANGED <<wire, lost, cuts>>

AckRaises(c) ==
    /\ link[c] = "up"
    /\ cuts < MaxCuts
    /\ cuts' = cuts + 1
    /\ wire' = [wire EXCEPT ![c] = <<>>]
    /\ lost' = lost \union ToSet(wire[c])
    /\ HandlerEnds(c)

\* The server's WebSocket layer notices that the peer is gone.
NoticeCut(c) ==
    /\ link[c] = "cut"
    /\ link' = [link EXCEPT ![c] = "closed"]
    /\ UNCHANGED <<registered, handler, rowsLeft, marked, wire, pending, recent, client, backoff,
                   tokenValid, accepted, handled, lost, overlapped, uncommitted, unread, cuts>>

----------------------------------------------------------------------------
(* The local server: WsRelayClient._run_loop.                              *)

\* _connect: a new WebSocket, the auth message with the token of start().
Connect(c) ==
    /\ client = NoConn
    /\ handler[c] = "none"
    /\ client' = c
    /\ link' = [link EXCEPT ![c] = "up"]
    /\ handler' = [handler EXCEPT ![c] = "auth"]
    /\ backoff' = 1
    /\ UNCHANGED <<registered, rowsLeft, marked, wire, pending, recent, tokenValid, accepted,
                   handled, lost, overlapped, uncommitted, unread, cuts>>

\* The network loses the connection; nobody has noticed yet.
Cut(c) ==
    /\ link[c] = "up"
    /\ cuts < MaxCuts
    /\ cuts' = cuts + 1
    /\ link' = [link EXCEPT ![c] = "cut"]
    /\ wire' = [wire EXCEPT ![c] = <<>>]
    /\ lost' = lost \union ToSet(wire[c])
    /\ UNCHANGED <<registered, handler, rowsLeft, marked, pending, recent, client, backoff,
                   tokenValid, accepted, handled, overlapped, uncommitted, unread>>

\* The receive loop ends: sleep for the pause, double it, connect again.
ClientNotices ==
    /\ client # NoConn
    /\ link[client] # "up"
    /\ client' = NoConn
    /\ backoff' = IF 2 * backoff < MaxBackoff THEN 2 * backoff ELSE MaxBackoff
    /\ UNCHANGED <<registered, handler, rowsLeft, marked, link, wire, pending, recent,
                   tokenValid, accepted, handled, lost, overlapped, uncommitted, unread, cuts>>

\* _handle_command: the command handler runs and its acknowledgement is sent.
ClientHandles ==
    /\ client # NoConn
    /\ wire[client] # <<>>
    /\ handled' = [handled EXCEPT ![Head(wire[client])] = @ + 1]
    /\ wire' = [wire EXCEPT ![client] = Tail(@)]
    /\ UNCHANGED <<registered, handler, rowsLeft, marked, link, pending, recent, client, backoff,
                   tokenValid, accepted, lost, overlapped, uncommitted, unread, cuts>>

\* The access token runs out; update_token is never called, so the client goes on
\* with the one of start().
TokenExpires ==
    /\ tokenValid
    /\ tokenValid' = FALSE
    /\ UNCHANGED <<registered, handler, rowsLeft, marked, link, wire, pending, recent, client,
                   backoff, accepted, handled, lost, overlapped, uncommitted, unread, cuts>>

----------------------------------------------------------------------------
ServerStep(c) ==
    \/ Register(c)
    \/ RefuseAuth(c)
    \/ FlushRow(c)
    \/ FlushCommit(c)
    \/ SocketDrops(c)
    \/ NoticeCut(c)

ClientStep ==
    \/ \E c \in Conns : Connect(c)
    \/ ClientNotices
    \/ ClientHandles

RelayNext ==
    \/ \E m \in Cmds : RelayCommand(m) \/ \E ok \in BOOLEAN : QueueCommand(m, ok)
    \/ \E c \in Conns : ServerStep(c) \/ AckRaises(c) \/ Cut(c)
    \/ ClientStep
    \/ TokenExpires
    \/ WindowMoves

RelaySpec == RelayInit /\ [][RelayNext]_relayVars

----------------------------------------------------------------------------
(* What the relay promises.                                                *)

\* A command waits in the table only while no working connection is registered
\* or while a flush that has read it is under way: _handle_command looks for a
\* connection and inserts without an await in between, and every registration
\* is followed by a flush.  Only a failure of the database leaves rows behind:
\* those whose commit failed, and those the last flush could not read.
QueuedOnlyOffline ==
    \A m \in ToSet(pending) :
        \/ registered = NoConn
        \/ link[registered] # "up"
        \/ m \in uncommitted \union unread
        \/ \E c \in Conns : handler[c] = "flush" /\ m \in ToSet(rowsLeft[c]) \union marked[c]

\* The local server executes a queued kill or arm a second time only after two
\* connections overlapped (two flushes of the same rows) or a commit failed.
TwiceOnlyAfterOverlap ==
    \A m \in Cmds : handled[m] > 1 => overlapped \/ m \in uncommitted

\* Where commands can be.  A connection whose server side has not authenticated
\* it, or that is known to be gone, carries none; only a flush holds rows; as
\* long as no two connections overlapped, only the registered one has a handler
\* past its authentication.
RelayLinks ==
    /\ registered # NoConn => handler[registered] \in {"flush", "loop"}
    /\ \A c \in Conns :
          /\ handler[c] \in {"none", "auth"} \/ link[c] # "up" => wire[c] = <<>>
          /\ handler[c] # "flush" => rowsLeft[c] = <<>> /\ marked[c] = {}
          /\ handler[c] \in {"flush", "loop"} => overlapped \/ registered = c

Reached(m) == handled[m] > 0 \/ \E c \in Conns : m \in ToSet(wire[c])

\* Rows and messages stem from accepted commands, and no command has two rows.
RelayRows ==
    /\ ToSet(pending) \subseteq accepted
    /\ IsInjective(pending)
    /\ \A c \in Conns : ToSet(rowsLeft[c]) \subseteq accepted /\ IsInjective(rowsLeft[c])
    /\ \A m \in Cmds : Reached(m) => m \in accepted

\* A command has one copy: it was executed, or it is on one wire, once; its row
\* waits for the commit of the flush that sent it, and no flush has it to send.
OneCopy(m) ==
    /\ handled[m] <= 1
    /\ \A c \in Conns : Once(wire[c], m) /\ (m \in ToSet(wire[c]) => handled[m] = 0)
    /\ Reached(m) => /\ m \in ToSet(pending) => \E c \in Conns : m \in marked[c]
                     /\ \A c \in Conns : m \notin ToSet(rowsLeft[c])

\* What holds of the relay in every state.
RelayInv ==
    /\ RelayTypeOK /\ RelayLinks /\ RelayRows
    /\ QueuedOnlyOffline
    /\ ~overlapped => \A m \in Cmds \ uncommitted : OneCopy(m)
    /\ TwiceOnlyAfterOverlap

\* Every command the relay accepts reaches the local server, unless a failure
\* took it, two connections overlapped, or the client's token ran out.  A row that
\* a flush could not read waits, and is under way again once one has read it.
CommandArrives ==
    \A m \in Cmds :
        (m \in accepted \ unread) ~>
            (handled[m] > 0 \/ m \in lost \union unread \/ overlapped \/ ~tokenValid)

=============================================================================
