------------------------------ MODULE Gateway ------------------------------
(***************************************************************************)
(* A request on its way through the middlewares of the API to its route    *)
(* and back (api/app.py): correlation id, metrics, rate limiter, bearer    *)
(* check, route.  Every layer awaits the next one, so requests interleave  *)
(* between layers; what they share is the logging context, the gauge, the  *)
(* limiter's window and the blacklist.  Timing and CORS keep no state.     *)
(***************************************************************************)
EXTENDS Tokens, RateLimiter, FiniteSets

CONSTANTS
  Requests,      \* requests at a time; each has a correlation id of its own
  NoId,          \* the logging context when it is empty
  MaxServed,     \* bound: requests served
  MaxRestarts    \* bound: restarts of the process

ASSUME GatewayAssumption ==
  IsFiniteSet(Requests) /\ NoId \notin Requests /\ MaxServed \in Nat /\ MaxRestarts \in Nat

VARIABLES
  request,     \* per request: what it asks, how far it is, and its answer
  context,     \* _CORRELATION, shared by all
  gauge,       \* http_active_requests
  served, restarts

gatewayVars == <<request, context, gauge, served, restarts>>
vars == <<tokenVars, limiterVars, gatewayVars>>

\* login and refresh are exempt from the limiter; "use" is any route behind the
\* bearer check, asked with a token or with none (0).
Operations == {"login", "refresh", "logout", "use"}
Exempt     == {"login", "refresh"}

NoRequest == [stage |-> "none", asks |-> "use", token |-> 0, from |-> NoId,
              status |-> "none", pair |-> {}]

Init ==
  /\ InitTokens /\ InitLimiter
  /\ request = [r \in Requests |-> NoRequest]
  /\ context = NoId /\ gauge = 0
  /\ served = 0 /\ restarts = 0

At(r, stage) == request[r].stage = stage
Goes(r, stage) == request' = [request EXCEPT ![r].stage = stage]
Answers(r, status) ==
  request' = [request EXCEPT ![r] = [NoRequest EXCEPT !.stage = "answered", !.status = status]]
KeepsCounts == UNCHANGED <<served, restarts>>

\* CorrelationIdMiddleware: the id is bound for everybody.
Arrives(r) ==
  /\ At(r, "none") /\ served < MaxServed
  /\ \E op \in Operations, a \in Addresses, tok \in held \cup {0} :
       /\ op = "login" => tok = 0
       /\ tok = 0 => op \in {"login", "use"}
       /\ request' = [request EXCEPT ![r] = [NoRequest EXCEPT !.stage = "bound", !.asks = op,
                                                              !.token = tok, !.from = a]]
  /\ context' = r
  /\ served' = served + 1
  /\ UNCHANGED <<tokenVars, limiterVars, gauge, restarts>>

\* _MetricsMiddleware
Meters(r) ==
  /\ At(r, "bound")
  /\ gauge' = gauge + 1
  /\ Goes(r, "metered")
  /\ UNCHANGED <<tokenVars, limiterVars, context>> /\ KeepsCounts

\* RateLimitMiddleware
Limits(r) ==
  /\ At(r, "metered")
  /\ LET a == request[r].from IN
     \/ request[r].asks \in Exempt /\ Goes(r, "routed") /\ UNCHANGED limiterVars
     \/ request[r].asks \notin Exempt /\ Records(a) /\ Goes(r, "routed")
     \/ request[r].asks \notin Exempt /\ Refuses(a) /\ Answers(r, "refused")
  /\ UNCHANGED <<tokenVars, context, gauge>> /\ KeepsCounts

\* 401: for what a token is, or for its time.
Denied(r) == Answers(r, "denied") /\ UNCHANGED tokenVars
DeniedExpired(r) == Answers(r, "denied") /\ FindsExpired(request[r].token)

AnswersPair(r) ==
  request' = [request EXCEPT ![r] = [NoRequest EXCEPT !.stage = "answered", !.status = "ok",
                                                      !.pair = NextPair]]

Login(r) ==
  /\ request[r].asks = "login"
  /\ \/ Len(issued) + 2 <= MaxTokens /\ LogsIn /\ AnswersPair(r)
     \/ Denied(r)

Refresh(r) ==
  /\ request[r].asks = "refresh"
  /\ LET tok == request[r].token IN
     \/ Exchangeable(tok) /\ Len(issued) + 2 <= MaxTokens /\ Exchanges(tok) /\ AnswersPair(r)
     \/ ~Exchangeable(tok) /\ Denied(r)
     \/ DeniedExpired(r)

Logout(r) == request[r].asks = "logout" /\ LogsOut(request[r].token) /\ Answers(r, "ok")

\* The bearer check, then the handler, which awaits.
Enters(r) ==
  /\ request[r].asks = "use"
  /\ \/ /\ Admits(request[r].token)
        /\ request' = [request EXCEPT ![r].stage = "inside", ![r].status = "ok"]
        /\ UNCHANGED tokenVars
     \/ ~Admits(request[r].token) /\ Denied(r)
     \/ DeniedExpired(r)

Routes(r) ==
  /\ At(r, "routed")
  /\ Login(r) \/ Refresh(r) \/ Logout(r) \/ Enters(r)
  /\ UNCHANGED <<limiterVars, context, gauge>> /\ KeepsCounts

\* The handler returns, or raises.
Handled(r) ==
  /\ At(r, "inside")
  /\ Answers(r, "ok") \/ Answers(r, "raised")
  /\ UNCHANGED <<tokenVars, limiterVars, context, gauge>> /\ KeepsCounts

\* Mutant: the gauge is decremented where the response is returned.
UnmetersReturned(r) ==
  /\ At(r, "answered")
  /\ gauge' = IF request[r].status = "raised" THEN gauge ELSE gauge - 1
  /\ Goes(r, "unmetered")
  /\ UNCHANGED <<tokenVars, limiterVars, context>> /\ KeepsCounts

\* The finally of the metrics.
Unmeters(r) ==
  /\ At(r, "answered")
  /\ gauge' = gauge - 1
  /\ Goes(r, "unmetered")
  /\ UNCHANGED <<tokenVars, limiterVars, context>> /\ KeepsCounts

\* Mutant: the context is cleared where the response is returned.
LeavesReturned(r) ==
  /\ At(r, "unmetered")
  /\ request' = [request EXCEPT ![r] = NoRequest]
  /\ context' = IF request[r].status = "raised" THEN context ELSE NoId
  /\ Delivers(request[r].pair) \/ UNCHANGED tokenVars
  /\ UNCHANGED <<limiterVars, gauge>> /\ KeepsCounts

\* The finally of the correlation id clears the context of everybody.  The
\* answer may not reach its client.
Leaves(r) ==
  /\ At(r, "unmetered")
  /\ request' = [request EXCEPT ![r] = NoRequest]
  /\ context' = NoId
  /\ Delivers(request[r].pair) \/ UNCHANGED tokenVars
  /\ UNCHANGED <<limiterVars, gauge>> /\ KeepsCounts

\* The process ends with the requests it has.
Restarts ==
  /\ restarts < MaxRestarts
  /\ restarts' = restarts + 1
  /\ TokensRestart /\ LimiterRestarts
  /\ request' = [r \in Requests |-> NoRequest]
  /\ context' = NoId /\ gauge' = 0
  /\ UNCHANGED served

Serves(r) ==
  Arrives(r) \/ Meters(r) \/ Limits(r) \/ Routes(r) \/ Handled(r) \/ Unmeters(r) \/ Leaves(r)

Next ==
  \/ \E r \in Requests : Serves(r)
  \/ Ticks /\ UNCHANGED <<tokenVars, gatewayVars>>
  \/ Restarts

Spec == Init /\ [][Next]_vars

-----------------------------------------------------------------------------
(* Properties *)

\* A token that was exchanged or logged out opens nothing more, neither a route
\* nor a new pair, while the process lives: whichever requests are on their way
\* with it.
RevokedIsOver ==
  [][\A r \in Requests : At(r, "routed") /\ request[r].asks \in {"use", "refresh"}
                           /\ request'[r].status = "ok" => request[r].token \notin over]_vars

\* A request passes the limiter exactly when fewer than MaxRequests of its
\* address passed in the last Window seconds; what was pruned made no difference.
LimitIsExact ==
  [][\A r \in Requests : At(r, "metered") /\ request[r].asks \notin Exempt /\ restarts' = restarts
                           /\ request'[r].stage # "metered"
                             => (request'[r].stage = "routed" <=> BelowLimit(request[r].from))]_vars

\* The gauge is the number of requests between the metrics and their answer,
\* refused, denied and raising ones included.
GaugeCounts ==
  gauge = Cardinality({r \in Requests : request[r].stage \in
                         {"metered", "routed", "inside", "answered"}})

\* No line is logged under the id of a request that has left, raising ones
\* included, although whoever arrives takes the context from whoever had it and
\* whoever leaves clears it for all.
ContextIsLive == \A r \in Requests : context = r => ~At(r, "none")
=============================================================================
