----------------------------- MODULE MCCloudLink -----------------------------
(***************************************************************************)
(* The five exchanges with the cloud server, model-checked side by side:   *)
(* they share no state, so a behaviour picks one of them and leaves the    *)
(* variables of the others alone.                                          *)
(***************************************************************************)
EXTENDS RemoteControl, DeviceSessions, RuleSync, TokenRotation, Accounts

VARIABLE part

cloudVars == <<part, relayVars, sessionVars, syncVars, tokenVars, accountVars>>

MCInit ==
    /\ part \in {"relay", "sessions", "rules", "tokens", "accounts"}
    /\ RelayInit
    /\ SessionInit
    /\ SyncInit
    /\ TokenInit
    /\ AccountInit

MCNext ==
    /\ UNCHANGED part
    /\ \/ /\ part = "relay"
          /\ RelayNext
          /\ UNCHANGED <<sessionVars, syncVars, tokenVars, accountVars>>
       \/ /\ part = "sessions"
          /\ SessionNext
          /\ UNCHANGED <<relayVars, syncVars, tokenVars, accountVars>>
       \/ /\ part = "rules"
          /\ SyncNext
          /\ UNCHANGED <<relayVars, sessionVars, tokenVars, accountVars>>
       \/ /\ part = "tokens"
          /\ TokenNext
          /\ UNCHANGED <<relayVars, sessionVars, syncVars, accountVars>>
       \/ /\ part = "accounts"
          /\ AccountNext
          /\ UNCHANGED <<relayVars, sessionVars, syncVars, tokenVars>>

\* Coroutines that can run do run, and the network comes back: the retry loops of
\* the code rely on nothing else.
MCFairness ==
    /\ \A c \in Conns : WF_relayVars(part = "relay" /\ ServerStep(c))
    /\ WF_relayVars(part = "relay" /\ ClientStep)
    /\ \A d \in Devices, s \in Channels :
          /\ WF_sessionVars(part = "sessions" /\ Ping(d, s))
          /\ WF_sessionVars(part = "sessions" /\ SessionHandlerEnds(d, s))
    /\ WF_syncVars(part = "rules" /\ HeartbeatStep)
    /\ WF_syncVars(part = "rules" /\ Online)

MCSpec == MCInit /\ [][MCNext]_cloudVars /\ MCFairness

\* VersionEventuallySeen in the behaviours that are about rules.
VersionSeen == part = "rules" => VersionEventuallySeen
=============================================================================
