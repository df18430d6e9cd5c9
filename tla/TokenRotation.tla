---------------------------- MODULE TokenRotation ----------------------------
(***************************************************************************)
(* One login of one user: a refresh token that is replaced at every use    *)
(* (cloud_server/api/auth.py) and its two holders, the keyring of the      *)
(* local server (heartbeat.py, routers/auth.py, main.py) and the storage   *)
(* of the browser (AuthContext.tsx, cloudClient.ts).  Inside the local     *)
(* server a lock (token_utils.py) keeps the heartbeat and /restore apart;  *)
(* between local server and browser there is none.  Names ending in        *)
(* "Mutant" are faulty variants of what follows them.                      *)
(***************************************************************************)
EXTENDS Naturals

CONSTANTS
    MaxTokens,   \* bound: refresh tokens the cloud issues
    MaxLosses    \* bound: lost answers and restarts of the local server

ASSUME TokenAssumption == MaxTokens \in Nat \ {0} /\ MaxLosses \in Nat

Refreshers == {"heartbeat", "restore"}

\* A login or refresh issues a pair of tokens; pairs are numbered in the order
\* of their issue and 0 stands for no pair.
Pairs == 0 .. MaxTokens

VARIABLES
    live,      \* refresh_tokens: pairs whose refresh token the cloud accepts
    issued,    \* pairs issued so far
    expired,   \* the access tokens of pairs 1 .. expired have run out
    keyring,   \* the pair save_cloud_tokens stored
    header,    \* the pair whose access token the heartbeat's client sends
    lock,      \* _refresh_lock: its holder or "free"
    pc,        \* pc[p]: where a refresher of the local server stands
    request,   \* request[p]: the pair it has read in the lock and refreshes
    answer,    \* answer[p]: the new pair on its way back
    restored,  \* the pair /restore answers with, 0 for an error
    browser,   \* the pair in the browser's storage
    session,   \* does the browser's sessionStorage hold its access token?
    page,      \* what the browser waits for
    posted,    \* pair on its way to POST /api/auth/token
    disturbed, \* did anything but the two refreshers touch the keyring's token?
    loggedOut, \* has the user logged out?
    losses     \* lost answers and restarts so far

tokenVars == <<live, issued, expired, keyring, header, lock, pc, request, answer,
               restored, browser, session, page, posted, disturbed, loggedOut, losses>>

cloudSide == <<live, issued, expired>>
localSide == <<keyring, header, lock, pc, request, answer, restored>>
browserSide == <<browser, session, page, posted>>
ghosts == <<disturbed, loggedOut, losses>>

TokenTypeOK ==
    /\ live \subseteq Pairs \ {0}
    /\ issued \in Pairs
    /\ expired \in Pairs
    /\ keyring \in Pairs
    /\ header \in Pairs
    /\ lock \in Refreshers \union {"free"}
    /\ pc \in [Refreshers -> {"idle", "waiting", "asking", "refused", "answered"}]
    /\ request \in [Refreshers -> Pairs]
    /\ answer \in [Refreshers -> Pairs]
    /\ restored \in Pairs
    /\ browser \in Pairs
    /\ session \in BOOLEAN
    /\ page \in {"idle", "restoring", "asking"}
    /\ posted \in Pairs
    /\ disturbed \in BOOLEAN
    /\ loggedOut \in BOOLEAN
    /\ losses \in 0 .. MaxLosses

TokenInit ==
    /\ live = {}
    /\ issued = 0
    /\ expired = 0
    /\ keyring = 0
    /\ header = 0
    /\ lock = "free"
    /\ pc = [p \in Refreshers |-> "idle"]
    /\ request = [p \in Refreshers |-> 0]
    /\ answer = [p \in Refreshers |-> 0]
    /\ restored = 0
    /\ browser = 0
    /\ session = FALSE
    /\ page = "idle"
    /\ posted = 0
    /\ disturbed = FALSE
    /\ loggedOut = FALSE
    /\ losses = 0

----------------------------------------------------------------------------
(* The cloud.                                                              *)

Valid(pair) == pair > expired

\* login: a new pair.
Issue ==
    /\ issued < MaxTokens
    /\ issued' = issued + 1
    /\ live' = live \union {issued + 1}
    /\ UNCHANGED expired

\* refresh: the old row is deleted and a new one inserted in one transaction.
Rotate(pair) ==
    /\ issued < MaxTokens
    /\ issued' = issued + 1
    /\ live' = (live \ {pair}) \union {issued + 1}
    /\ UNCHANGED expired

\* Access tokens run out an hour after their issue, in that order.
AccessExpires ==
    /\ expired < issued
    /\ expired' = expired + 1
    /\ UNCHANGED <<live, issued, localSide, browserSide, ghosts>>

----------------------------------------------------------------------------
(* The local server.                                                       *)

\* A heartbeat is refused with 401: _try_refresh asks for the lock.
HeartbeatRefused ==
    /\ ~Valid(header)
    /\ pc["heartbeat"] = "idle"
    /\ keyring # 0
    /\ pc' = [pc EXCEPT !["heartbeat"] = "waiting"]
    /\ UNCHANGED <<cloudSide, keyring, header, lock, request, answer, restored,
                   browserSide, ghosts>>

\* Nothing to refresh: no pair, or somebody has refreshed it meanwhile.
Settled == keyring = 0 \/ Valid(keyring)

\* The pair is read AGAIN in the lock and a settled one is used as it is;
\* /restore looks at it before it asks for the lock, too.
UseSettled(p) ==
    /\ pc[p] = "waiting"
    /\ Settled
    /\ lock = "free" \/ p = "restore"
    /\ IF p = "heartbeat"
         THEN /\ header' = IF keyring # 0 THEN keyring ELSE header
              /\ pc' = [pc EXCEPT ![p] = "idle"]
              /\ UNCHANGED restored
         ELSE /\ restored' = keyring
              /\ pc' = [pc EXCEPT ![p] = "answered"]
              /\ UNCHANGED header
    /\ UNCHANGED <<cloudSide, keyring, lock, request, answer, browserSide, ghosts>>

\* The heartbeat and /restore each have a lock of their own.
LockFreeMutant == TRUE

LockFree == lock = "free"

EnterLock(p) ==
    /\ pc[p] = "waiting"
    /\ LockFree
    /\ ~Settled
    /\ lock' = p
    /\ request' = [request EXCEPT ![p] = keyring]
    /\ pc' = [pc EXCEPT ![p] = "asking"]
    /\ UNCHANGED <<cloudSide, keyring, header, answer, restored, browserSide, ghosts>>

\* The cloud handles the refresh of p; its answer is on its way, or lost.
CloudRefreshes(p) ==
    /\ pc[p] = "asking"
    /\ answer[p] = 0
    /\ request[p] \in live
    /\ Rotate(request[p])
    /\ \/ /\ answer' = [answer EXCEPT ![p] = issued + 1]
          /\ UNCHANGED <<pc, ghosts>>
       \/ /\ losses < MaxLosses
          /\ losses' = losses + 1
          /\ disturbed' = TRUE
          /\ pc' = [pc EXCEPT ![p] = "refused"]
          /\ UNCHANGED <<answer, loggedOut>>
    /\ UNCHANGED <<keyring, header, lock, request, restored, browserSide>>

CloudRefuses(p) ==
    /\ pc[p] = "asking"
    /\ answer[p] = 0
    /\ request[p] \notin live
    /\ pc' = [pc EXCEPT ![p] = "refused"]
    /\ UNCHANGED <<cloudSide, keyring, header, lock, request, answer, restored,
                   browserSide, ghosts>>

\* The end of a refresh: the lock is free, /restore answers with the pair.
EndRefresh(p, pair) ==
    /\ lock' = "free"
    /\ request' = [request EXCEPT ![p] = 0]
    /\ answer' = [answer EXCEPT ![p] = 0]
    /\ IF p = "restore"
         THEN restored' = pair /\ pc' = [pc EXCEPT ![p] = "answered"]
         ELSE pc' = [pc EXCEPT ![p] = "idle"] /\ UNCHANGED restored
    /\ UNCHANGED <<cloudSide, browserSide, ghosts>>

\* The answer arrives: the pair is stored, whatever the keyring holds by now.
Refreshed(p) ==
    /\ pc[p] = "asking"
    /\ answer[p] # 0
    /\ keyring' = answer[p]
    /\ header' = answer[p]
    /\ EndRefresh(p, answer[p])

\* The refresh failed: "log in again".
RefreshRefused(p) ==
    /\ pc[p] = "refused"
    /\ EndRefresh(p, 0)
    /\ UNCHANGED <<keyring, header>>

\* POST /api/auth/token stores the browser's pair, outside the lock.
RegisterTokens ==
    /\ posted # 0
    /\ keyring' = posted
    /\ header' = posted
    /\ disturbed' = (disturbed \/ keyring \notin {0, posted})
    /\ posted' = 0
    /\ UNCHANGED <<cloudSide, lock, pc, request, answer, restored, browser, session,
                   page, loggedOut, losses>>

\* A restart of the local server: its tasks are gone, the keyring stays, and the
\* heartbeat starts with the stored access token.
RestartLocal ==
    /\ losses < MaxLosses
    /\ losses' = losses + 1
    /\ disturbed' = (disturbed \/ \E p \in Refreshers : answer[p] # 0)
    /\ pc' = [p \in Refreshers |-> "idle"]
    /\ lock' = "free"
    /\ request' = [p \in Refreshers |-> 0]
    /\ answer' = [p \in Refreshers |-> 0]
    /\ restored' = 0
    /\ header' = keyring
    /\ page' = IF page = "restoring" THEN "idle" ELSE page
    /\ UNCHANGED <<cloudSide, keyring, browser, session, posted, loggedOut>>

----------------------------------------------------------------------------
(* The browser.                                                            *)

\* login: the new pair is stored and handed to the local server.
Login ==
    /\ page = "idle"
    /\ browser = 0
    /\ Issue
    /\ browser' = issued + 1
    /\ session' = TRUE
    /\ posted' = issued + 1
    /\ UNCHANGED <<localSide, page, ghosts>>

\* The page is loaded again with a session: the pair in the browser's storage is
\* handed to the local server, however old it is.
ReloadPage ==
    /\ page = "idle"
    /\ session
    /\ posted' = browser
    /\ UNCHANGED <<cloudSide, localSide, browser, session, page, ghosts>>

\* A new window has no sessionStorage.  With a refresh token the browser refreshes
\* at the cloud by itself, without one it asks the local server.
NewWindow ==
    /\ page = "idle"
    /\ session' = FALSE
    /\ IF browser # 0
         THEN page' = "asking" /\ UNCHANGED pc
         ELSE /\ page' = "restoring"
              /\ pc["restore"] = "idle"
              /\ pc' = [pc EXCEPT !["restore"] = "waiting"]
    /\ UNCHANGED <<cloudSide, keyring, header, lock, request, answer, restored, browser,
                   posted, ghosts>>

\* A request of the page is refused with 401: the local server's /restore first.
PageRefused ==
    /\ page = "idle"
    /\ session
    /\ ~Valid(browser)
    /\ pc["restore"] = "idle"
    /\ page' = "restoring"
    /\ pc' = [pc EXCEPT !["restore"] = "waiting"]
    /\ UNCHANGED <<cloudSide, keyring, header, lock, request, answer, restored, browser,
                   session, posted, ghosts>>

\* /restore answers with a pair, or with an error: then the browser falls back on
\* its own refresh token if it has one.
Restored ==
    /\ page = "restoring"
    /\ pc["restore"] = "answered"
    /\ pc' = [pc EXCEPT !["restore"] = "idle"]
    /\ restored' = 0
    /\ IF restored # 0
         THEN browser' = restored /\ session' = TRUE /\ page' = "idle"
         ELSE /\ page' = IF browser # 0 THEN "asking" ELSE "idle"
              /\ UNCHANGED <<browser, session>>
    /\ UNCHANGED <<cloudSide, keyring, header, lock, request, answer, posted, ghosts>>

\* The browser's own refresh at the cloud; the new pair goes to the local server.
\* A refusal empties the browser's storage.
BrowserRefreshes ==
    /\ page = "asking"
    /\ page' = "idle"
    /\ IF browser \in live
         THEN /\ Rotate(browser)
              /\ browser' = issued + 1
              /\ session' = TRUE
              /\ posted' = issued + 1
              /\ disturbed' = TRUE
         ELSE /\ browser' = 0
              /\ session' = FALSE
              /\ UNCHANGED <<cloudSide, posted, disturbed>>
    /\ UNCHANGED <<localSide, loggedOut, losses>>

\* Logout: the browser forgets, the cloud deletes the browser's token, the local
\* server its pair, without waiting for a refresh in the lock.
Logout ==
    /\ page = "idle"
    /\ browser # 0
    /\ browser' = 0
    /\ session' = FALSE
    /\ live' = live \ {browser}
    /\ keyring' = 0
    /\ disturbed' = TRUE
    /\ loggedOut' = TRUE
    /\ UNCHANGED <<issued, expired, header, lock, pc, request, answer, restored, page,
                   posted, losses>>

----------------------------------------------------------------------------
LocalStep(p) ==
    \/ UseSettled(p) \/ EnterLock(p)
    \/ CloudRefreshes(p) \/ CloudRefuses(p)
    \/ Refreshed(p) \/ RefreshRefused(p)

TokenNext ==
    \/ AccessExpires
    \/ HeartbeatRefused
    \/ \E p \in Refreshers : LocalStep(p)
    \/ RegisterTokens
    \/ RestartLocal
    \/ Login \/ ReloadPage \/ NewWindow \/ PageRefused \/ Restored \/ BrowserRefreshes
    \/ Logout

TokenSpec == TokenInit /\ [][TokenNext]_tokenVars

----------------------------------------------------------------------------
\* The two refreshers of the local server never spend each other's token: as long
\* as nothing else touched it, the keyring's refresh token is one the cloud
\* accepts or the one whose successor is on its way.
KeyringStaysGood ==
    ~disturbed /\ keyring # 0 =>
        \/ keyring \in live
        \/ \E p \in Refreshers : request[p] = keyring /\ answer[p] \in live

\* A request is under way only for the holder of the lock.
RequestsHoldLock ==
    \A p \in Refreshers : pc[p] \in {"asking", "refused"} <=> lock = p

\* Undisturbed, the pair being refreshed is the keyring's, its successor is accepted,
\* and what the browser brings to an empty keyring is accepted as well.
RefreshesTheKeyring ==
    /\ \A p \in Refreshers : answer[p] # 0 => pc[p] = "asking"
    /\ ~disturbed =>
          /\ \A p \in Refreshers : pc[p] = "asking" => request[p] = keyring /\ keyring # 0
          /\ \A p \in Refreshers : answer[p] \in live \union {0}
          /\ keyring = 0 =>
                restored = 0 /\ browser \in live \union {0} /\ posted \in live \union {0}

TokenInv == TokenTypeOK /\ RequestsHoldLock /\ RefreshesTheKeyring /\ KeyringStaysGood

\* "The shared lock prevents the rotation race": while no answer is lost, nothing
\* is restarted and nobody logs out, somebody holds a pair that the cloud accepts.
HeldPairs == {keyring, browser, posted} \union {answer[p] : p \in Refreshers}

LoginSurvives ==
    issued > 0 /\ losses = 0 /\ ~loggedOut => HeldPairs \intersect live # {}
=============================================================================
