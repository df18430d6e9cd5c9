--------------------------- MODULE DeviceSessions ---------------------------
(***************************************************************************)
(* The remote devices of one user at the cloud server: their WebSocket     *)
(* sessions, the ping task of each session and the expiry of its token     *)
(* (session_manager.py, ws_remote in ws_relay.py).  The tables are keyed   *)
(* by device, while a device that reconnects has two sockets for a while:  *)
(* every piece of code that finishes late finds the newer socket's entry.  *)
(* Names ending in "Mutant" are faulty variants of what follows them.      *)
(***************************************************************************)
EXTENDS Naturals, FiniteSets

CONSTANTS
    Devices,
    Channels,     \* sockets a device may have at the same time
    NoSocket,
    MaxDevices   \* MAX_DEVICES_PER_USER

ASSUME SessionAssumption ==
    /\ NoSocket \notin Channels
    /\ MaxDevices \in Nat \ {0}
    /\ IsFiniteSet(Devices)

VARIABLES
    socket,    \* socket[d][s]: "none", "open", or "dead" while its handler still runs
    sessions,  \* _sessions[user]: the socket registered for each device
    pings,     \* running ping tasks: <<device, socket>>
    pingOf,    \* _ping_tasks: the socket of the task stored for each device
    expiry,    \* _jwt_exp: "none", "valid" or "expired"
    sending    \* sends under way: <<device, socket>> pairs another task awaits

sessionVars == <<socket, sessions, pings, pingOf, expiry, sending>>

Registered == {d \in Devices : sessions[d] # NoSocket}

SessionTypeOK ==
    /\ socket \in [Devices -> [Channels -> {"none", "open", "dead"}]]
    /\ sessions \in [Devices -> Channels \union {NoSocket}]
    /\ pings \subseteq Devices \X Channels
    /\ pingOf \in [Devices -> Channels \union {NoSocket}]
    /\ expiry \in [Devices -> {"none", "valid", "expired"}]
    /\ sending \subseteq Devices \X Channels

SessionInit ==
    /\ socket = [d \in Devices |-> [s \in Channels |-> "none"]]
    /\ sessions = [d \in Devices |-> NoSocket]
    /\ pings = {}
    /\ pingOf = [d \in Devices |-> NoSocket]
    /\ expiry = [d \in Devices |-> "none"]
    /\ sending = {}

----------------------------------------------------------------------------
\* The task that is stored for the device is forgotten, not cancelled.
PingsWithoutMutant(d) == pings

\* _cancel_ping: the task stored for the device is cancelled.
PingsWithout(d) == pings \ {<<d, pingOf[d]>>}

\* The ping task ends without unregistering the device.
UnregisterMutant(d) ==
    /\ pings' = PingsWithout(d)
    /\ pingOf' = [pingOf EXCEPT ![d] = NoSocket]
    /\ UNCHANGED <<sessions, expiry>>

\* unregister: by device, whatever socket is registered.
Unregister(d) ==
    /\ sessions' = [sessions EXCEPT ![d] = NoSocket]
    /\ pings' = PingsWithout(d)
    /\ pingOf' = [pingOf EXCEPT ![d] = NoSocket]
    /\ expiry' = [expiry EXCEPT ![d] = "none"]

\* ws_remote after a valid auth message: register, which replaces a session of
\* the same device and refuses a device too many (the server closes the socket).
OpenSession(d, s) ==
    /\ socket[d][s] = "none"
    /\ IF sessions[d] = NoSocket /\ Cardinality(Registered) >= MaxDevices
         THEN UNCHANGED <<socket, sessions, pings, pingOf, expiry>>
         ELSE /\ socket' = [socket EXCEPT ![d][s] = "open"]
              /\ sessions' = [sessions EXCEPT ![d] = s]
              /\ pings' = PingsWithout(d) \union {<<d, s>>}
              /\ pingOf' = [pingOf EXCEPT ![d] = s]
              /\ expiry' = [expiry EXCEPT ![d] = "valid"]
    /\ UNCHANGED sending

\* The peer goes away; the handler has not noticed.
SocketDies(d, s) ==
    /\ socket[d][s] = "open"
    /\ socket' = [socket EXCEPT ![d][s] = "dead"]
    /\ UNCHANGED <<sessions, pings, pingOf, expiry, sending>>

\* The handler of a dead socket ends; its finally clause unregisters the device.
SessionHandlerEnds(d, s) ==
    /\ socket[d][s] = "dead"
    /\ socket' = [socket EXCEPT ![d][s] = "none"]
    /\ Unregister(d)
    /\ UNCHANGED sending

\* re_auth: the handler of any socket of the device renews the expiry, also when
\* the device has no session any more.
ReAuth(d, s) ==
    /\ socket[d][s] = "open"
    /\ expiry' = [expiry EXCEPT ![d] = "valid"]
    /\ UNCHANGED <<socket, sessions, pings, pingOf, sending>>

TokenRunsOut(d) ==
    /\ expiry[d] = "valid"
    /\ expiry' = [expiry EXCEPT ![d] = "expired"]
    /\ UNCHANGED <<socket, sessions, pings, pingOf, sending>>

\* _ping_loop after its sleep: an expired token closes the socket, a ping that
\* cannot be sent ends the session, and the task returns in both cases.
Ping(d, s) ==
    /\ <<d, s>> \in pings
    /\ expiry[d] = "expired" \/ socket[d][s] # "open"
    /\ IF expiry[d] = "expired" /\ socket[d][s] = "open"
         THEN socket' = [socket EXCEPT ![d][s] = "dead"]
         ELSE UNCHANGED socket
    /\ Unregister(d)
    /\ UNCHANGED sending

\* send_to_device or broadcast_to_devices: the socket is looked up, then awaited.
StartSend(d) ==
    /\ sessions[d] # NoSocket
    /\ sending' = sending \union {<<d, sessions[d]>>}
    /\ UNCHANGED <<socket, sessions, pings, pingOf, expiry>>

\* The send returns, or it raises and the device is unregistered.
EndSend(d, s) ==
    /\ <<d, s>> \in sending
    /\ sending' = sending \ {<<d, s>>}
    /\ IF socket[d][s] = "open"
         THEN UNCHANGED <<sessions, pings, pingOf, expiry>>
         ELSE Unregister(d)
    /\ UNCHANGED socket

\* kill_session: close, then unregister.
KillSession(d) ==
    /\ sessions[d] # NoSocket
    /\ socket' = [socket EXCEPT ![d][sessions[d]] =
                    IF @ = "open" THEN "dead" ELSE @]
    /\ Unregister(d)
    /\ UNCHANGED sending

SessionTask(d, s) == Ping(d, s) \/ SessionHandlerEnds(d, s)

SessionNext ==
    \E d \in Devices :
        \/ TokenRunsOut(d)
        \/ StartSend(d)
        \/ KillSession(d)
        \/ \E s \in Channels :
              \/ OpenSession(d, s)
              \/ SocketDies(d, s)
              \/ ReAuth(d, s)
              \/ EndSend(d, s)
              \/ SessionTask(d, s)

SessionSpec == SessionInit /\ [][SessionNext]_sessionVars

----------------------------------------------------------------------------
\* Every session has exactly one running ping task, on the session's socket, and
\* no ping task outlives its session, although registrations, handlers, failed
\* sends and the tasks themselves end each other's sessions.
OnePingPerSession ==
    /\ pings = {<<d, sessions[d]>> : d \in Registered}
    /\ pingOf = sessions

\* The number of sessions never exceeds the limit.
SessionsWithinLimit == Cardinality(Registered) <= MaxDevices

SessionInv == SessionTypeOK /\ OnePingPerSession /\ SessionsWithinLimit

\* "Concurrent sessions limited, expiry of tokens tracked": a socket the server
\* still serves is a registered session or is on its way out.
ServedSocketsHaveSessions ==
    \A d \in Devices : \A s \in Channels :
        [](socket[d][s] = "open" /\ sessions[d] # s => <>(socket[d][s] # "open"))

\* The session of a dead socket ends, and so does one whose token has run out,
\* unless the token is renewed.
BrokenSessionsEnd ==
    \A d \in Devices : \A s \in Channels :
        /\ (sessions[d] = s /\ socket[d][s] = "dead") ~> (sessions[d] # s \/ socket[d][s] = "open")
        /\ (sessions[d] = s /\ expiry[d] = "expired") ~> (sessions[d] # s \/ expiry[d] # "expired")
=============================================================================
