------------------------ MODULE KiwoomConnectionProofs -------------------------
(***************************************************************************)
(* KiwoomInv holds in every reachable state, for any number of symbols and *)
(* retries.  It is inductive; each lemma takes it through some actions.    *)
(***************************************************************************)
EXTENDS KiwoomConnection, TLAPS

USE DEF Connectors, linkVars, pollVars

LEMMA InitHolds ==
    ASSUME KiwoomInit
    PROVE  KiwoomInv
<1>1. /\ at \in [Connectors -> {"none", "sleep", "token", "socket", "login"}]
      /\ at["owner"] = "none" /\ at["task"] = "none"
  BY DEF KiwoomInit
<1>2. available \in BOOLEAN /\ wsConnected \in BOOLEAN
  BY Zenon DEF KiwoomInit
<1>3. KiwoomTypeOK
  BY <1>1, <1>2, KiwoomAssumption DEF KiwoomInit, KiwoomTypeOK
<1>4. StagesOfLife /\ TaskForDroppedOnly
  BY <1>1 DEF KiwoomInit, StagesOfLife, TaskForDroppedOnly
<1>5. OneSource /\ ListedWasSent
  BY DEF KiwoomInit, OneSource, ListedWasSent
<1> QED
  BY <1>3, <1>4, <1>5 DEF KiwoomInv

\* The owner's connect begins, or is given up by the one who waits for it; the reconnect
\* task wakes up.
LEMMA BeginningKeeps ==
    ASSUME KiwoomInv, Connect \/ ConnectTimesOut \/ BackOffEnds
    PROVE  KiwoomInv'
<1> USE DEF KiwoomInv, KiwoomTypeOK, StagesOfLife, TaskForDroppedOnly, OneSource,
            ListedWasSent
<1>1. CASE Connect
  BY <1>1 DEF Connect
<1>2. CASE ConnectTimesOut
  BY <1>2 DEF ConnectTimesOut
<1>3. CASE BackOffEnds
  BY <1>3 DEF BackOffEnds
<1> QED
  BY <1>1, <1>2, <1>3

\* An attempt of the owner is made while nothing is subscribed, one of the task for a
\* dropped adapter: neither can bring a second source of quotes.
LEMMA AttemptKeeps ==
    ASSUME KiwoomInv, NEW p \in Connectors, Attempt(p)
    PROVE  KiwoomInv'
<1> USE DEF KiwoomInv, KiwoomTypeOK, StagesOfLife, TaskForDroppedOnly, OneSource,
            ListedWasSent
<1>1. CASE TokenArrives(p)
  BY <1>1 DEF TokenArrives
<1>2. CASE TokenFails(p)
  <2>1. CASE p = "owner"
    BY <1>2, <2>1, KiwoomAssumption DEF TokenFails
  <2>2. CASE p = "task"
    BY <1>2, <2>2, KiwoomAssumption DEF TokenFails
  <2> QED
    BY <2>1, <2>2
<1>3. CASE SocketOpens(p)
  BY <1>3 DEF SocketOpens
<1>4. CASE LoginAnswered(p)
  BY <1>4, KiwoomAssumption DEF LoginAnswered, Subscribed
<1>5. CASE WebSocketFails(p)
  <2> available' \in BOOLEAN
    BY <1>5, Zenon DEF WebSocketFails
  <2>1. KiwoomTypeOK' /\ TaskForDroppedOnly' /\ ListedWasSent'
    BY <1>5, KiwoomAssumption DEF WebSocketFails, Subscribed
  <2>2. StagesOfLife'
    BY <1>5, KiwoomAssumption DEF WebSocketFails, Subscribed
  <2>3. OneSource'
    BY <1>5 DEF WebSocketFails, Subscribed
  <2> QED
    BY <2>1, <2>2, <2>3
<1> QED
  BY <1>1, <1>2, <1>3, <1>4, <1>5 DEF Attempt

\* Quotes of an adapter in use come from the socket or from the poll task.
LEMMA QuotesKeep ==
    ASSUME KiwoomInv,
           Poll \/ \E S \in SUBSET Symbols \ {{}} : SubscribeQuotes(S)
    PROVE  KiwoomInv'
<1> USE DEF KiwoomInv, KiwoomTypeOK, StagesOfLife, TaskForDroppedOnly, OneSource,
            ListedWasSent
<1>1. ASSUME NEW S \in SUBSET Symbols, SubscribeQuotes(S)
      PROVE  KiwoomInv'
  <2>1. CASE available
    BY <1>1, <2>1 DEF SubscribeQuotes, WsSubscribe
  <2>2. CASE ~available
    BY <1>1, <2>2 DEF SubscribeQuotes, PollStarted
  <2> QED
    BY <2>1, <2>2
<1>2. CASE PollRound
  BY <1>2 DEF PollRound
<1>3. ASSUME NEW s \in Symbols, PollOne(s)
      PROVE  KiwoomInv'
  BY <1>3 DEF PollOne, After
<1> QED
  BY <1>1, <1>2, <1>3 DEF Poll

LEMMA EndingKeeps ==
    ASSUME KiwoomInv, SocketLost \/ SocketClosed \/ Disconnect
    PROVE  KiwoomInv'
<1> USE DEF KiwoomInv, KiwoomTypeOK, StagesOfLife, TaskForDroppedOnly, OneSource,
            ListedWasSent
<1>1. CASE SocketLost
  BY <1>1 DEF SocketLost
<1>2. CASE SocketClosed
  BY <1>2 DEF SocketClosed
<1>3. CASE Disconnect
  BY <1>3 DEF Disconnect, WsDisconnect
<1> QED
  BY <1>1, <1>2, <1>3

LEMMA StutterKeeps ==
    ASSUME KiwoomInv, UNCHANGED kiwoomVars
    PROVE  KiwoomInv'
  BY DEF kiwoomVars, KiwoomInv, KiwoomTypeOK, StagesOfLife, TaskForDroppedOnly, OneSource,
         ListedWasSent

\* The adapter in use is never connected a second time by the reconnect task, its quotes
\* come from one source only, and what it lists as subscribed was sent over its socket.
THEOREM KiwoomInvariant == KiwoomSpec => []KiwoomInv
<1>1. KiwoomInit => KiwoomInv
  BY InitHolds
<1>2. KiwoomInv /\ [KiwoomNext]_kiwoomVars => KiwoomInv'
  BY BeginningKeeps, AttemptKeeps, QuotesKeep, EndingKeeps, StutterKeeps
  DEF KiwoomNext
<1> QED
  BY <1>1, <1>2, PTL DEF KiwoomSpec
=============================================================================
