----------------------------- MODULE BrokerCalls -----------------------------
(***************************************************************************)
(* What every REST call to a broker passes through: the limiter of its     *)
(* endpoint (kis/rate_limiter.py, used by both adapters), the access token *)
(* and its renewal (kis/auth.py, kiwoom/auth.py), and the classification   *)
(* of what comes back (error_classifier.py).                               *)
(*                                                                         *)
(* Time is a number of ticks; the limiter's second lasts Window ticks.  A  *)
(* call is a coroutine: each action is the code between two awaits.  A     *)
(* token is a record of how long it lives and of whether the broker still  *)
(* takes it.  Names ending in "Mutant" are faulty variants of the          *)
(* definition that follows.                                                *)
(***************************************************************************)
EXTENDS Naturals, Sequences, Filters

CONSTANTS
    Calls,       \* coroutines that may be under way at the same time
    Window,      \* a second, in ticks
    Limit,       \* calls_per_second
    Lifetime,    \* expires_in, in ticks
    Margin       \* TOKEN_REFRESH_MARGIN_SECONDS, in ticks

NoCall == "none"

ASSUME CallsAssumption ==
    /\ NoCall \notin Calls
    /\ Window \in Nat \ {0}
    /\ Limit \in Nat \ {0}
    /\ Lifetime \in Nat
    /\ Margin \in 1 .. Lifetime

Endpoints == {"order", "balance"}

\* A request is under way for less than the margin: its timeout is 5 or 10 seconds.
Timeout == Margin - 1

VARIABLES
    calls,       \* pc of each call
    endpoint,    \* the endpoint it is for
    wait,        \* ticks it still sleeps, or has been on its way
    bearer,      \* the token in its headers
    callTimes,   \* _call_times of each limiter, as ages
    granted,     \* ages of the calls let through, whatever the limiter remembers
    token,       \* _token_info
    lock,        \* the call that holds the lock of get_access_token, or none
    refused,     \* has the broker refused the cached token in an answer?
    fault        \* what went wrong with a token, so far

callVars == <<calls, endpoint, wait, bearer, callTimes, granted, token, lock, refused, fault>>

NoToken == [cached |-> FALSE, left |-> 0, good |-> FALSE]
NewToken == [cached |-> TRUE, left |-> Lifetime, good |-> TRUE]
Tokens == [cached : BOOLEAN, left : 0 .. Lifetime, good : BOOLEAN]

CallsTypeOK ==
    /\ calls \in [Calls -> {"idle", "limited", "sleeping", "headers", "fetching", "sending"}]
    /\ endpoint \in [Calls -> Endpoints]
    /\ wait \in [Calls -> 0 .. Window + Timeout]
    /\ bearer \in [Calls -> Tokens]
    /\ callTimes \in [Endpoints -> Seq(0 .. Window)]
    /\ granted \in [Endpoints -> Seq(0 .. Window - 1)]
    /\ token \in Tokens
    /\ lock \in Calls \union {NoCall}
    /\ refused \in BOOLEAN
    /\ fault \subseteq {"expired", "reused"}

\* The adapter has connected: it has a token.
CallsInit ==
    /\ calls = [c \in Calls |-> "idle"]
    /\ endpoint = [c \in Calls |-> "balance"]
    /\ wait = [c \in Calls |-> 0]
    /\ bearer = [c \in Calls |-> NoToken]
    /\ callTimes = [e \in Endpoints |-> <<>>]
    /\ granted = [e \in Endpoints |-> <<>>]
    /\ token = NewToken
    /\ lock = NoCall
    /\ refused = FALSE
    /\ fault = {}

CallGoes(c, to) == calls' = [calls EXCEPT ![c] = to]

----------------------------------------------------------------------------
(* RateLimiter.acquire                                                     *)

\* get_balance, or place_order.
BeginCall(c, e) ==
    /\ calls[c] = "idle"
    /\ endpoint' = [endpoint EXCEPT ![c] = e]
    /\ CallGoes(c, "limited")
    /\ UNCHANGED <<wait, bearer, callTimes, granted, token, lock, refused, fault>>

RecentMutant(times) == Without(times, {Window - 1, Window})

\* "now - t < 1.0"; an age stops at Window.
Recent(times) == Without(times, {Window})

\* The limiter's lock is held over no await: forget old calls, then pass or sleep until
\* the oldest one is a second old, and ask again.
Acquire(c) ==
    /\ calls[c] = "limited"
    /\ LET e == endpoint[c]
           recent == Recent(callTimes[e])
       IN  IF Len(recent) < Limit
             THEN /\ callTimes' = [callTimes EXCEPT ![e] = Append(recent, 0)]
                  /\ granted' = [granted EXCEPT ![e] = Append(@, 0)]
                  /\ CallGoes(c, "headers")
                  /\ UNCHANGED wait
             ELSE /\ callTimes' = [callTimes EXCEPT ![e] = recent]
                  /\ wait' = [wait EXCEPT ![c] = Window - recent[1]]
                  /\ CallGoes(c, "sleeping")
                  /\ UNCHANGED granted
    /\ UNCHANGED <<endpoint, bearer, token, lock, refused, fault>>

SleepEnds(c) ==
    /\ calls[c] = "sleeping"
    /\ wait[c] = 0
    /\ CallGoes(c, "limited")
    /\ UNCHANGED <<endpoint, wait, bearer, callTimes, granted, token, lock, refused, fault>>

----------------------------------------------------------------------------
(* get_access_token                                                        *)

\* The expiry is not looked at.
NeedsRefreshMutant == ~token.cached

\* _needs_refresh
NeedsRefresh == ~token.cached \/ token.left <= Margin

\* build_headers.  Without a renewal nothing is awaited under the lock.
UseToken(c) ==
    /\ calls[c] = "headers"
    /\ lock = NoCall
    /\ IF NeedsRefresh
         THEN /\ lock' = c
              /\ CallGoes(c, "fetching")
              /\ UNCHANGED <<bearer, fault>>
         ELSE /\ bearer' = [bearer EXCEPT ![c] = token]
              /\ fault' = IF refused THEN fault \union {"reused"} ELSE fault
              /\ CallGoes(c, "sending")
              /\ UNCHANGED lock
    /\ UNCHANGED <<endpoint, wait, callTimes, granted, token, refused>>

\* _fetch_token succeeds.
FetchToken(c) ==
    /\ calls[c] = "fetching"
    /\ token' = NewToken
    /\ bearer' = [bearer EXCEPT ![c] = token']
    /\ refused' = FALSE
    /\ lock' = NoCall
    /\ CallGoes(c, "sending")
    /\ UNCHANGED <<endpoint, wait, callTimes, granted, fault>>

\* It raises; the lock is released all the same.
FetchFails(c) ==
    /\ calls[c] = "fetching"
    /\ lock' = NoCall
    /\ CallGoes(c, "idle")
    /\ UNCHANGED <<endpoint, wait, bearer, callTimes, granted, token, refused, fault>>

----------------------------------------------------------------------------
(* The answer                                                              *)

\* classify_http_error: 401 is AUTH, and only AUTH needs_reauth.  Only place_order
\* classifies its exceptions; balances and quotes just raise.
Invalidates(e, status) == e = "order" /\ status = 401

\* The broker takes the token or answers 401.
Send(c) ==
    /\ calls[c] = "sending"
    /\ LET status == IF bearer[c].good THEN 200 ELSE 401
       IN  /\ token' = IF Invalidates(endpoint[c], status) THEN NoToken ELSE token
           /\ refused' = (token'.cached /\ (refused \/ (status = 401 /\ bearer[c] = token)))
    /\ fault' = IF bearer[c].left = 0 THEN fault \union {"expired"} ELSE fault
    /\ bearer' = [bearer EXCEPT ![c] = NoToken]
    /\ wait' = [wait EXCEPT ![c] = 0]
    /\ CallGoes(c, "idle")
    /\ UNCHANGED <<endpoint, callTimes, granted, lock>>

\* Another program takes a token for the same key: ours is refused from now on.
Revoke ==
    /\ token.good
    /\ token' = [token EXCEPT !.good = FALSE]
    /\ bearer' = [c \in Calls |-> [bearer[c] EXCEPT !.good = FALSE]]
    /\ UNCHANGED <<calls, endpoint, wait, callTimes, granted, lock, refused, fault>>

OlderToken(tk) ==
    IF tk.left > 1 THEN [tk EXCEPT !.left = @ - 1] ELSE [tk EXCEPT !.left = 0]

\* Ages a tick later.
Aged(times) == [i \in DOMAIN times |-> IF times[i] < Window THEN times[i] + 1 ELSE Window]

\* Time passes, for everyone; code that is ready to run does not wait for it, and a
\* request is not under way for longer than its timeout.
Tick ==
    /\ \A c \in Calls :
          /\ calls[c] # "limited"
          /\ calls[c] = "headers" => lock # NoCall
          /\ calls[c] = "sleeping" => wait[c] > 0
          /\ calls[c] = "sending" => wait[c] < Timeout
    /\ wait' = [c \in Calls |-> IF calls[c] = "sleeping" THEN wait[c] - 1
                                ELSE IF calls[c] = "sending" THEN wait[c] + 1 ELSE wait[c]]
    /\ callTimes' = [e \in Endpoints |-> Aged(callTimes[e])]
    /\ granted' = [e \in Endpoints |-> Without(Aged(granted[e]), {Window})]
    /\ token' = OlderToken(token)
    /\ bearer' = [c \in Calls |-> OlderToken(bearer[c])]
    /\ UNCHANGED <<calls, endpoint, lock, refused, fault>>

CallStep(c) ==
    Acquire(c) \/ SleepEnds(c) \/ UseToken(c) \/ FetchToken(c) \/ FetchFails(c) \/ Send(c)

CallsNext ==
    \/ \E c \in Calls, e \in Endpoints : BeginCall(c, e)
    \/ \E c \in Calls : CallStep(c)
    \/ Revoke
    \/ Tick

\* The engine asks for the balance in every cycle, before anything else.  Every request
\* ends, by its timeout if need be, and not every request for a token fails.
CallsFairness ==
    /\ \A c \in Calls :
          /\ WF_callVars(BeginCall(c, "balance"))
          /\ WF_callVars(CallStep(c))
          /\ SF_callVars(FetchToken(c))
    /\ WF_callVars(Tick)

CallsSpec == CallsInit /\ [][CallsNext]_callVars /\ CallsFairness

----------------------------------------------------------------------------
\* In no second more calls are let through to an endpoint than its limit, however
\* many coroutines wait and whatever the limiter has forgotten.
RateRespected == \A e \in Endpoints : Len(granted[e]) <= Limit

\* The limiter forgets no call before it is a second old.
LimiterRemembers == \A e \in Endpoints : Recent(callTimes[e]) = granted[e]

\* A token is renewed so early that no call carries one that expires on its way.
NeverLate == "expired" \notin fault

\* One renewal at a time ("prevents concurrent renewals").
OneRenewal == \A c \in Calls : calls[c] = "fetching" <=> lock = c

\* A call that sleeps has not been on its way, and a token that is on its way will still
\* be good when the request times out.
TokenOutlivesCall ==
    \A c \in Calls :
        /\ calls[c] \notin {"sleeping", "sending"} => wait[c] = 0
        /\ calls[c] = "sleeping" => wait[c] <= Window
        /\ calls[c] = "sending" => wait[c] <= Timeout /\ bearer[c].left + wait[c] >= Margin

CallsInv ==
    /\ CallsTypeOK /\ RateRespected /\ NeverLate /\ OneRenewal
    /\ LimiterRemembers /\ TokenOutlivesCall

\* A token the broker does not take any more is replaced in the end, if only because it
\* runs out.
TokenRecovers == ~token.good ~> token.good

\* invalidate: "drops the cached token (called when an authentication error occurs)".
\* A token the broker has refused is not sent again.
RefusedTokenDropped == "reused" \notin fault
=============================================================================
