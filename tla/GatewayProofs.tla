--------------------------- MODULE GatewayProofs ---------------------------
(***************************************************************************)
(* Proofs about the middlewares and tokens, for any number of requests at  *)
(* a time, tokens, addresses and restarts.                                 *)
(***************************************************************************)
EXTENDS Gateway, FiniteSetTheorems, WellFoundedInduction, TLAPS

Stages   == {"none", "bound", "metered", "routed", "inside", "answered", "unmetered"}
Statuses == {"none", "ok", "refused", "denied", "raised"}

RequestRecord ==
  [stage : Stages, asks : Operations, token : Nat, from : Addresses \cup {NoId},
   status : Statuses, pair : SUBSET Nat]

Typed ==
  /\ request \in [Requests -> RequestRecord]
  /\ issued \in Seq({"access", "refresh"})
  /\ held \subseteq Nat

\* A request has no status before it has one of the route's or the limiter's.
StatusIsLate ==
  \A r \in Requests : request[r].stage \in {"bound", "metered", "routed"}
                        => request[r].status = "none"

\* What is over is on the blacklist: both are lost together.
OverIsListed == over \subseteq blacklist

Counted == {r \in Requests : request[r].stage \in {"metered", "routed", "inside", "answered"}}

GatewayInv == Typed /\ StatusIsLate /\ OverIsListed /\ GaugeCounts

\* The gauge follows one request that enters or leaves its layer.
LEMMA GaugeFollows ==
  /\ Counted \in SUBSET Requests /\ IsFiniteSet(Counted) /\ Cardinality(Counted) \in Nat
  /\ \A r \in Requests \ Counted : Cardinality(Counted \cup {r}) = Cardinality(Counted) + 1
  /\ \A r \in Counted : Cardinality(Counted \ {r}) = Cardinality(Counted) - 1
<1>1. Counted \in SUBSET Requests /\ IsFiniteSet(Counted)
  BY GatewayAssumption, FS_Subset DEF Counted
<1>2. Cardinality(Counted) \in Nat
  BY <1>1, FS_CardinalityType
<1>3. \A r \in Requests \ Counted : Cardinality(Counted \cup {r}) = Cardinality(Counted) + 1
  BY <1>1, FS_AddElement
<1>4. \A r \in Counted : Cardinality(Counted \ {r}) = Cardinality(Counted) - 1
  BY <1>1, FS_RemoveElement
<1>. QED  BY <1>1, <1>2, <1>3, <1>4

\* The invariant holds at the start.
LEMMA GatewayInit == Init => GatewayInv
<1>. SUFFICES ASSUME Init PROVE GatewayInv
  OBVIOUS
<1>1. Typed
  BY DEF Init, InitTokens, Typed, NoRequest, RequestRecord, Stages, Statuses, Operations
<1>2. StatusIsLate /\ OverIsListed
  BY DEF Init, InitTokens, NoRequest, StatusIsLate, OverIsListed
<1>3. Counted = {} /\ gauge = 0
  BY DEF Init, NoRequest, Counted
<1>4. GaugeCounts
  BY <1>3, FS_EmptySet DEF GaugeCounts, Counted
<1>. QED  BY <1>1, <1>2, <1>4 DEF GatewayInv

\* A layer that gives a request another record of the right kind, in the same
\* standing with the gauge, keeps what is said of requests.
LEMMA LayerKeeps ==
  ASSUME GatewayInv, NEW r \in Requests, NEW to \in RequestRecord,
         request' = [request EXCEPT ![r] = to],
         gauge' = gauge,
         to.stage \in {"bound", "metered", "routed"} => to.status = "none",
         to.stage \in {"metered", "routed", "inside", "answered"} <=> r \in Counted
  PROVE  /\ request' \in [Requests -> RequestRecord]
         /\ StatusIsLate' /\ GaugeCounts'
<1>1. request \in [Requests -> RequestRecord]
  BY DEF GatewayInv, Typed
<1>2. request' \in [Requests -> RequestRecord] /\ StatusIsLate'
  BY <1>1 DEF GatewayInv, StatusIsLate
<1>3. Counted' = Counted
  BY <1>1 DEF Counted
<1>. QED  BY <1>2, <1>3 DEF GatewayInv, GaugeCounts, Counted

\* The records the layers make are records, and what stands in them.
LEMMA RecordTypes ==
  ASSUME GatewayInv, NEW r \in Requests
  PROVE  /\ NoRequest \in RequestRecord /\ request[r] \in RequestRecord
         /\ NextPair \subseteq Nat
         /\ \A s \in Stages : [request[r] EXCEPT !.stage = s] \in RequestRecord
<1>1. request[r] \in RequestRecord
  BY DEF GatewayInv, Typed
<1>2. NextPair \subseteq Nat
  BY DEF GatewayInv, Typed, NextPair
<1>3. NoRequest \in RequestRecord
  BY DEF NoRequest, RequestRecord, Stages, Statuses, Operations
<1>4. \A s \in Stages : [request[r] EXCEPT !.stage = s] \in RequestRecord
  BY <1>1 DEF RequestRecord
<1>. QED  BY <1>1, <1>2, <1>3, <1>4

\* Going on to a layer with the same standing at the gauge.
LEMMA GoesKeeps ==
  ASSUME GatewayInv, NEW r \in Requests, gauge' = gauge,
         NEW s \in Stages, Goes(r, s),
         s \in {"bound", "metered", "routed"} => request[r].status = "none",
         s \in {"metered", "routed", "inside", "answered"} <=> r \in Counted
  PROVE  /\ request' \in [Requests -> RequestRecord]
         /\ StatusIsLate' /\ GaugeCounts'
<1>. DEFINE to == [request[r] EXCEPT !.stage = s]
<1>1. to \in RequestRecord /\ request[r] \in RequestRecord
  BY RecordTypes
<1>2. request \in [Requests -> RequestRecord]
  BY DEF GatewayInv, Typed
<1>3. request' = [request EXCEPT ![r] = to]
  BY <1>2 DEF Goes
<1>4. to.status = request[r].status /\ to.stage = s
  BY <1>1 DEF RequestRecord
<1>. HIDE DEF to
<1>. QED  BY <1>1, <1>3, <1>4, LayerKeeps

\* An answer given between the metrics and the route.
LEMMA AnswerKeeps ==
  ASSUME GatewayInv, NEW r \in Requests, gauge' = gauge, r \in Counted,
         (\E status \in Statuses : Answers(r, status)) \/ AnswersPair(r)
  PROVE  /\ request' \in [Requests -> RequestRecord]
         /\ StatusIsLate' /\ GaugeCounts'
<1>1. CASE \E status \in Statuses : Answers(r, status)
  <2>1. PICK status \in Statuses : Answers(r, status)
    BY <1>1
  <2>. DEFINE to == [NoRequest EXCEPT !.stage = "answered", !.status = status]
  <2>2. to \in RequestRecord /\ to.stage = "answered"
    BY DEF NoRequest, RequestRecord, Stages, Operations
  <2>3. request' = [request EXCEPT ![r] = to]
    BY <2>1 DEF Answers
  <2>. HIDE DEF to
  <2>. QED  BY <2>2, <2>3, LayerKeeps
<1>2. CASE AnswersPair(r)
  <2>. DEFINE to == [NoRequest EXCEPT !.stage = "answered", !.status = "ok", !.pair = NextPair]
  <2>1. NextPair \in SUBSET Nat
    BY RecordTypes
  <2>2. to \in RequestRecord /\ to.stage = "answered"
    <3>. HIDE DEF NextPair
    <3>. QED  BY <2>1 DEF NoRequest, RequestRecord, Stages, Statuses, Operations
  <2>3. request' = [request EXCEPT ![r] = to]
    BY <1>2 DEF AnswersPair
  <2>. HIDE DEF to
  <2>. QED  BY <2>2, <2>3, LayerKeeps
<1>. QED  BY <1>1, <1>2

\* Every step of a request keeps the invariant.
LEMMA ServesInv == ASSUME GatewayInv, NEW r \in Requests, Serves(r) PROVE GatewayInv'
<1>0. request \in [Requests -> RequestRecord] /\ request[r] \in RequestRecord
  BY DEF GatewayInv, Typed
<1>1. CASE Arrives(r)
  <2>1. PICK op \in Operations, a \in Addresses, tok \in held \cup {0} :
          request' = [request EXCEPT ![r] = [NoRequest EXCEPT !.stage = "bound", !.asks = op,
                                                              !.token = tok, !.from = a]]
    BY <1>1 DEF Arrives
  <2>. DEFINE to == [NoRequest EXCEPT !.stage = "bound", !.asks = op, !.token = tok, !.from = a]
  <2>0. tok \in Nat
    BY DEF GatewayInv, Typed
  <2>2. to \in RequestRecord /\ to.stage = "bound" /\ to.status = "none"
    BY <2>0 DEF NoRequest, RequestRecord, Stages, Statuses
  <2>3. r \notin Counted /\ gauge' = gauge /\ UNCHANGED tokenVars
    BY <1>1 DEF Arrives, At, Counted
  <2>4. request' = [request EXCEPT ![r] = to]
    BY <2>1
  <2>. HIDE DEF to
  <2>5. /\ request' \in [Requests -> RequestRecord]
        /\ StatusIsLate' /\ GaugeCounts'
    BY <2>2, <2>3, <2>4, LayerKeeps
  <2>. QED  BY <2>3, <2>5 DEF GatewayInv, Typed, OverIsListed, tokenVars
<1>2. CASE Meters(r)
  <2>1. /\ request[r].stage = "bound" /\ gauge' = gauge + 1 /\ UNCHANGED tokenVars
        /\ request' = [request EXCEPT ![r].stage = "metered"]
    BY <1>2 DEF Meters, At, Goes
  <2>2. Counted' = Counted \cup {r} /\ r \notin Counted
    BY <1>0, <2>1 DEF Counted, RequestRecord
  <2>3. GaugeCounts'
    BY <2>1, <2>2, GaugeFollows DEF GatewayInv, GaugeCounts, Counted
  <2>4. request' \in [Requests -> RequestRecord]
    BY <1>0, <2>1 DEF RequestRecord, Stages
  <2>5. StatusIsLate'
    BY <1>0, <2>1 DEF GatewayInv, StatusIsLate, RequestRecord
  <2>. QED  BY <2>1, <2>3, <2>4, <2>5 DEF GatewayInv, Typed, OverIsListed, tokenVars
<1>3. CASE Limits(r)
  <2>1. request[r].stage = "metered" /\ gauge' = gauge /\ UNCHANGED tokenVars
    BY <1>3 DEF Limits, At
  <2>2. r \in Counted /\ request[r].status = "none"
    BY <2>1 DEF Counted, GatewayInv, StatusIsLate
  <2>3. Goes(r, "routed") \/ Answers(r, "refused")
    BY <1>3 DEF Limits
  <2>4. /\ request' \in [Requests -> RequestRecord]
        /\ StatusIsLate' /\ GaugeCounts'
    BY <2>1, <2>2, <2>3, GoesKeeps, AnswerKeeps DEF Stages, Statuses
  <2>. QED  BY <2>1, <2>4 DEF GatewayInv, Typed, OverIsListed, tokenVars
<1>4. CASE Routes(r)
  <2>1. request[r].stage = "routed" /\ gauge' = gauge /\ r \in Counted
    BY <1>4 DEF Routes, At, Counted
  <2>2. issued' \in Seq({"access", "refresh"}) /\ held' = held /\ OverIsListed'
    <3>1. Login(r) \/ Refresh(r) \/ Logout(r) \/ Enters(r)
      BY <1>4 DEF Routes
    <3>2. issued \in Seq({"access", "refresh"}) /\ over \subseteq blacklist
      BY DEF GatewayInv, Typed, OverIsListed
    <3>3. MakesPair => issued' \in Seq({"access", "refresh"})
      BY <3>2 DEF MakesPair
    <3>. QED  BY <3>1, <3>2, <3>3 DEF Login, Refresh, Logout, Enters, Denied, DeniedExpired,
                LogsIn, Exchanges, LogsOut, FindsExpired, OverIsListed, tokenVars
  <2>3. \/ \E status \in Statuses : Answers(r, status)
        \/ AnswersPair(r)
        \/ request' = [request EXCEPT ![r].stage = "inside", ![r].status = "ok"]
    BY <1>4 DEF Routes, Login, Refresh, Logout, Enters, Denied, DeniedExpired, Statuses
  <2>4. ASSUME request' = [request EXCEPT ![r].stage = "inside", ![r].status = "ok"]
        PROVE  /\ request' \in [Requests -> RequestRecord]
               /\ StatusIsLate' /\ GaugeCounts'
    <3>. DEFINE to == [request[r] EXCEPT !.stage = "inside", !.status = "ok"]
    <3>1. to \in RequestRecord /\ to.stage = "inside"
      BY <1>0 DEF RequestRecord, Stages, Statuses
    <3>2. request' = [request EXCEPT ![r] = to]
      BY <1>0, <2>4
    <3>. HIDE DEF to
    <3>. QED  BY <2>1, <3>1, <3>2, LayerKeeps
  <2>5. /\ request' \in [Requests -> RequestRecord]
        /\ StatusIsLate' /\ GaugeCounts'
    BY <2>1, <2>3, <2>4, AnswerKeeps
  <2>. QED  BY <2>2, <2>5 DEF GatewayInv, Typed
<1>5. CASE Handled(r)
  <2>1. r \in Counted /\ gauge' = gauge /\ UNCHANGED tokenVars
    BY <1>5 DEF Handled, At, Counted
  <2>2. \E status \in Statuses : Answers(r, status)
    BY <1>5 DEF Handled, Statuses
  <2>3. /\ request' \in [Requests -> RequestRecord]
        /\ StatusIsLate' /\ GaugeCounts'
    BY <2>1, <2>2, AnswerKeeps
  <2>. QED  BY <2>1, <2>3 DEF GatewayInv, Typed, OverIsListed, tokenVars
<1>6. CASE Unmeters(r)
  <2>1. /\ request[r].stage = "answered" /\ gauge' = gauge - 1 /\ UNCHANGED tokenVars
        /\ request' = [request EXCEPT ![r].stage = "unmetered"]
    BY <1>6 DEF Unmeters, At, Goes
  <2>2. Counted' = Counted \ {r} /\ r \in Counted
    BY <1>0, <2>1 DEF Counted, RequestRecord
  <2>3. GaugeCounts'
    BY <2>1, <2>2, GaugeFollows DEF GatewayInv, GaugeCounts, Counted
  <2>4. request' \in [Requests -> RequestRecord]
    BY <1>0, <2>1 DEF RequestRecord, Stages
  <2>5. StatusIsLate'
    BY <1>0, <2>1 DEF GatewayInv, StatusIsLate, RequestRecord
  <2>. QED  BY <2>1, <2>3, <2>4, <2>5 DEF GatewayInv, Typed, OverIsListed, tokenVars
<1>7. CASE Leaves(r)
  <2>. DEFINE to == NoRequest
  <2>1. to \in RequestRecord /\ to.stage = "none"
    BY DEF NoRequest, RequestRecord, Stages, Statuses, Operations
  <2>2. /\ request[r].stage = "unmetered" /\ gauge' = gauge
        /\ request' = [request EXCEPT ![r] = to]
        /\ Delivers(request[r].pair) \/ UNCHANGED tokenVars
    BY <1>7 DEF Leaves, At
  <2>3. r \notin Counted
    BY <2>2 DEF Counted
  <2>. HIDE DEF to
  <2>4. /\ request' \in [Requests -> RequestRecord]
        /\ StatusIsLate' /\ GaugeCounts'
    BY <2>1, <2>2, <2>3, LayerKeeps
  <2>5. request[r].pair \subseteq Nat
    BY <1>0 DEF RequestRecord
  <2>. QED  BY <2>2, <2>4, <2>5 DEF GatewayInv, Typed, OverIsListed, Delivers, tokenVars
<1>. QED  BY <1>1, <1>2, <1>3, <1>4, <1>5, <1>6, <1>7 DEF Serves

\* Every step keeps the invariant.
LEMMA GatewayStep == GatewayInv /\ [Next]_vars => GatewayInv'
<1>. SUFFICES ASSUME GatewayInv, [Next]_vars PROVE GatewayInv'
  OBVIOUS
<1>1. CASE \E r \in Requests : Serves(r)
  BY <1>1, ServesInv
<1>2. CASE Restarts
  <2>1. /\ request' = [r \in Requests |-> NoRequest] /\ gauge' = 0
        /\ issued' = issued /\ held' = held /\ over' = {}
    BY <1>2 DEF Restarts, TokensRestart
  <2>2. Typed' /\ OverIsListed'
    BY <2>1 DEF GatewayInv, Typed, OverIsListed, NoRequest, RequestRecord, Stages, Statuses, Operations
  <2>3. StatusIsLate' /\ Counted' = {}
    BY <2>1 DEF StatusIsLate, Counted, NoRequest
  <2>4. GaugeCounts'
    BY <2>1, <2>3, FS_EmptySet DEF GaugeCounts, Counted
  <2>. QED  BY <2>2, <2>3, <2>4 DEF GatewayInv
<1>3. CASE UNCHANGED <<tokenVars, gatewayVars>>
  BY <1>3 DEF GatewayInv, Typed, StatusIsLate, OverIsListed, GaugeCounts,
       tokenVars, gatewayVars
<1>. QED  BY <1>1, <1>2, <1>3 DEF Next, vars, gatewayVars

LEMMA GatewayInvariant == Spec => []GatewayInv
BY GatewayInit, GatewayStep, PTL DEF Spec

-----------------------------------------------------------------------------
(* The logging context *)

\* Between its arrival and its leave a request keeps a stage, and all of them
\* leave the context alone.
LEMMA Underway ==
  ASSUME GatewayInv, NEW r \in Requests,
         Meters(r) \/ Limits(r) \/ Routes(r) \/ Handled(r) \/ Unmeters(r)
  PROVE  /\ context' = context
         /\ \A q \in Requests : ~At(q, "none") => ~At(q, "none")'
<1>0. request \in [Requests -> RequestRecord]
  BY DEF GatewayInv, Typed
<1>. DEFINE Puts(to) == request' = [request EXCEPT ![r] = to] /\ to.stage # "none"
<1>1. ASSUME NEW to, Puts(to) PROVE \A q \in Requests : ~At(q, "none") => ~At(q, "none")'
  BY <1>0, <1>1 DEF At
<1>2. ASSUME NEW s \in Stages \ {"none"}, Goes(r, s) PROVE \E to : Puts(to)
  <2>1. [request[r] EXCEPT !.stage = s].stage = s
    BY <1>0 DEF RequestRecord
  <2>2. request' = [request EXCEPT ![r] = [request[r] EXCEPT !.stage = s]]
    BY <1>0, <1>2 DEF Goes
  <2>. QED  BY <2>1, <2>2
<1>3. ASSUME NEW status, Answers(r, status) PROVE \E to : Puts(to)
  <2>1. [NoRequest EXCEPT !.stage = "answered", !.status = status].stage = "answered"
    BY DEF NoRequest
  <2>. QED  BY <1>3, <2>1 DEF Answers
<1>4. ASSUME AnswersPair(r) PROVE \E to : Puts(to)
  <2>1. [NoRequest EXCEPT !.stage = "answered", !.status = "ok", !.pair = NextPair].stage = "answered"
    BY DEF NoRequest
  <2>. QED  BY <1>4, <2>1 DEF AnswersPair
<1>5. ASSUME request' = [request EXCEPT ![r].stage = "inside", ![r].status = "ok"]
      PROVE  \E to : Puts(to)
  <2>1. [request[r] EXCEPT !.stage = "inside", !.status = "ok"].stage = "inside"
    BY <1>0 DEF RequestRecord
  <2>2. request' = [request EXCEPT ![r] = [request[r] EXCEPT !.stage = "inside", !.status = "ok"]]
    BY <1>0, <1>5
  <2>. QED  BY <2>1, <2>2
<1>. HIDE DEF Puts
<1>6. \/ \E s \in Stages \ {"none"} : Goes(r, s)
      \/ \E status : Answers(r, status)
      \/ AnswersPair(r)
      \/ request' = [request EXCEPT ![r].stage = "inside", ![r].status = "ok"]
  BY DEF Meters, Limits, Routes, Handled, Unmeters, Login, Refresh, Logout, Enters, Denied,
     DeniedExpired, Stages
<1>7. \E to : Puts(to)
  BY <1>2, <1>3, <1>4, <1>5, <1>6
<1>8. context' = context
  BY DEF Meters, Limits, Routes, Handled, Unmeters
<1>. QED  BY <1>1, <1>7, <1>8

\* The context names a request that is underway, whoever took it from whom.
THEOREM ContextLives == Spec => []ContextIsLive
<1>1. Init => ContextIsLive
  BY GatewayAssumption DEF Init, ContextIsLive
<1>2. GatewayInv /\ ContextIsLive /\ [Next]_vars => ContextIsLive'
  <2>. SUFFICES ASSUME GatewayInv, ContextIsLive, [Next]_vars PROVE ContextIsLive'
    OBVIOUS
  <2>1. ASSUME NEW r \in Requests, Arrives(r) PROVE ContextIsLive'
    <3>1. PICK op \in Operations, a \in Addresses, tok \in held \cup {0} :
            request' = [request EXCEPT ![r] = [NoRequest EXCEPT !.stage = "bound", !.asks = op,
                                                                !.token = tok, !.from = a]]
      BY <2>1 DEF Arrives
    <3>. DEFINE to == [NoRequest EXCEPT !.stage = "bound", !.asks = op, !.token = tok, !.from = a]
    <3>2. to.stage = "bound" /\ request' = [request EXCEPT ![r] = to]
      BY <3>1 DEF NoRequest
    <3>3. request'[r].stage = "bound" /\ context' = r
      <4>. HIDE DEF to
      <4>. QED  BY <2>1, <3>2 DEF GatewayInv, Typed, Arrives
    <3>. QED  BY <3>3 DEF ContextIsLive, At
  <2>2. ASSUME NEW r \in Requests,
               Meters(r) \/ Limits(r) \/ Routes(r) \/ Handled(r) \/ Unmeters(r)
        PROVE  ContextIsLive'
    BY <2>2, Underway DEF ContextIsLive
  <2>3. CASE Restarts \/ \E r \in Requests : Leaves(r)
    BY <2>3, GatewayAssumption DEF Restarts, Leaves, ContextIsLive
  <2>4. CASE UNCHANGED gatewayVars
    BY <2>4 DEF gatewayVars, ContextIsLive, At
  <2>. QED  BY <2>1, <2>2, <2>3, <2>4 DEF Next, Serves, vars
<1>. QED  BY <1>1, <1>2, GatewayInvariant, PTL DEF Spec

-----------------------------------------------------------------------------
\* The gauge counts the requests between the metrics and their answer.
THEOREM GaugeIsExact == Spec => []GaugeCounts
BY GatewayInvariant, PTL DEF GatewayInv

\* A token that was exchanged or logged out opens nothing more in its process.
THEOREM RevokedStaysOver == Spec => RevokedIsOver
<1>. DEFINE Refused(r) ==
       At(r, "routed") /\ request[r].asks \in {"use", "refresh"} /\ request'[r].status = "ok"
         => request[r].token \notin over
<1>1. GatewayInv /\ [Next]_vars => [\A r \in Requests : Refused(r)]_vars
  <2>. SUFFICES ASSUME GatewayInv, Next, NEW r \in Requests, At(r, "routed"),
                       request[r].asks \in {"use", "refresh"}, request'[r].status = "ok"
                PROVE  request[r].token \notin over
    OBVIOUS
  <2>0. /\ request \in [Requests -> RequestRecord] /\ over \subseteq blacklist
        /\ request[r].status = "none" /\ request[r].stage = "routed"
    BY DEF GatewayInv, Typed, OverIsListed, StatusIsLate, At
  <2>1. CASE \E q \in Requests : Serves(q)
    <3>1. PICK q \in Requests : Serves(q)
      BY <2>1
    <3>2. q = r
      <4>1. \A p \in Requests \ {q} : request'[p] = request[p]
        BY <2>0, <3>1 DEF Serves, Arrives, Meters, Limits, Routes, Handled, Unmeters, Leaves,
             Login, Refresh, Logout, Enters, Denied, DeniedExpired, Goes, Answers, AnswersPair
      <4>. QED  BY <2>0, <4>1
    <3>3. Routes(r)
      BY <2>0, <3>1, <3>2 DEF Serves, Arrives, Meters, Limits, Handled, Unmeters, Leaves, At
    <3>4. ~Denied(r) /\ ~DeniedExpired(r)
      BY <2>0 DEF Denied, DeniedExpired, Answers, NoRequest
    <3>5. Verifies(request[r].token)
      BY <3>3, <3>4 DEF Routes, Login, Refresh, Logout, Enters, Exchangeable, Admits
    <3>. QED  BY <2>0, <3>5 DEF Verifies
  <2>2. CASE Ticks /\ UNCHANGED <<tokenVars, gatewayVars>>
    BY <2>0, <2>2 DEF gatewayVars
  <2>3. CASE Restarts
    BY <2>3 DEF Restarts, NoRequest
  <2>. QED  BY <2>1, <2>2, <2>3 DEF Next
<1>. QED  BY <1>1, GatewayInvariant, PTL DEF Spec, RevokedIsOver

-----------------------------------------------------------------------------
(* The times a list keeps *)

Kept(k, times, cutoff) ==
  k = [n \in 0 .. Len(times) |->
         IF n = 0 THEN <<>>
         ELSE IF times[n] > cutoff THEN Append(k[n - 1], times[n]) ELSE k[n - 1]]

LEMMA KeptExists ==
  ASSUME NEW times, Len(times) \in Nat, NEW cutoff
  PROVE  \E k : Kept(k, times, cutoff)
<1>. DEFINE Upto(k, m) == k = [n \in 0 .. m |->
              IF n = 0 THEN <<>>
              ELSE IF times[n] > cutoff THEN Append(k[n - 1], times[n]) ELSE k[n - 1]]
            Bad == {m \in Nat : ~\E k : Upto(k, m)}
<1>1. Upto([n \in 0 .. 0 |-> <<>>], 0)
  OBVIOUS
<1>2. ASSUME NEW m \in Nat, NEW k, Upto(k, m) PROVE \E h : Upto(h, m + 1)
  <2>. DEFINE next == IF times[m + 1] > cutoff THEN Append(k[m], times[m + 1]) ELSE k[m]
              h == [n \in 0 .. m + 1 |-> IF n = m + 1 THEN next ELSE k[n]]
  <2>1. \A n \in 0 .. m : k[n] = IF n = 0 THEN <<>>
          ELSE IF times[n] > cutoff THEN Append(k[n - 1], times[n]) ELSE k[n - 1]
    BY <1>2
  <2>2. \A n \in 0 .. m + 1 : h[n] = IF n = 0 THEN <<>>
          ELSE IF times[n] > cutoff THEN Append(h[n - 1], times[n]) ELSE h[n - 1]
    <3>. SUFFICES ASSUME NEW n \in 0 .. m + 1
                  PROVE  h[n] = IF n = 0 THEN <<>>
                           ELSE IF times[n] > cutoff THEN Append(h[n - 1], times[n]) ELSE h[n - 1]
      OBVIOUS
    <3>1. CASE n = m + 1
      <4>1. h[n] = next /\ h[n - 1] = k[m]
        BY <3>1
      <4>. HIDE DEF h
      <4>. QED  BY <3>1, <4>1
    <3>2. CASE n # m + 1
      <4>1. h[n] = k[n] /\ n \in 0 .. m /\ (n # 0 => h[n - 1] = k[n - 1])
        BY <3>2
      <4>. HIDE DEF h
      <4>. QED  BY <2>1, <4>1
    <3>. QED  BY <3>1, <3>2
  <2>3. h = [n \in 0 .. m + 1 |-> h[n]]
    OBVIOUS
  <2>. HIDE DEF h
  <2>4. Upto(h, m + 1)
    BY <2>2, <2>3
  <2>. QED  BY <2>4
<1>3. Bad = {}
  <2>. SUFFICES ASSUME Bad # {} PROVE FALSE
    OBVIOUS
  <2>1. PICK m \in Bad : \A n \in Bad : <<n, m>> \notin OpToRel(<, Nat)
    <3>1. Bad \in SUBSET Nat
      OBVIOUS
    <3>. HIDE DEF Bad
    <3>. QED  BY <3>1, WFMin, NatLessThanWellFounded, Zenon
  <2>2. m # 0
    BY <1>1
  <2>3. m - 1 \in Nat /\ <<m - 1, m>> \in OpToRel(<, Nat)
    BY <2>2 DEF OpToRel
  <2>4. PICK k : Upto(k, m - 1)
    BY <2>1, <2>3
  <2>5. \E h : Upto(h, (m - 1) + 1)
    BY <1>2, <2>3, <2>4
  <2>6. (m - 1) + 1 = m
    OBVIOUS
  <2>7. m \in Nat /\ ~\E h : Upto(h, m)
    OBVIOUS
  <2>. HIDE DEF Upto
  <2>. QED  BY <2>5, <2>6, <2>7
<1>. QED  BY <1>3 DEF Kept

LEMMA SinceIs ==
  ASSUME NEW times \in Seq(Int), NEW cutoff
  PROVE  \E k : Kept(k, times, cutoff) /\ Since(times, cutoff) = k[Len(times)]
<1>. DEFINE k == CHOOSE h : Kept(h, times, cutoff)
<1>0. Len(times) \in Nat
  OBVIOUS
<1>1. Kept(k, times, cutoff)
  BY <1>0, KeptExists
<1>2. Since(times, cutoff) = k[Len(times)]
  BY Zenon DEF Since, Kept
<1>. QED  BY <1>1, <1>2

\* One step of the filter.
LEMMA KeptNext ==
  ASSUME NEW times \in Seq(Int), NEW cutoff, NEW k, Kept(k, times, cutoff)
  PROVE  /\ k[0] = <<>>
         /\ \A n \in 1 .. Len(times) :
              k[n] = IF times[n] > cutoff THEN Append(k[n - 1], times[n]) ELSE k[n - 1]
<1>1. Len(times) \in Nat
  OBVIOUS
<1>2. \A n \in 0 .. Len(times) :
        k[n] = IF n = 0 THEN <<>>
               ELSE IF times[n] > cutoff THEN Append(k[n - 1], times[n]) ELSE k[n - 1]
  BY Zenon DEF Kept
<1>. HIDE DEF Kept
<1>3. k[0] = <<>>
  BY <1>1, <1>2
<1>4. \A n \in 1 .. Len(times) : n \in 0 .. Len(times) /\ n # 0
  BY <1>1
<1>. QED  BY <1>2, <1>3, <1>4

\* An induction on how much of a list is read.
LEMMA Least ==
  ASSUME NEW Bad \in SUBSET Nat, Bad # {}
  PROVE  \E m \in Bad : m # 0 => m - 1 \in Nat \ Bad
<1>1. PICK m \in Bad : \A n \in Bad : <<n, m>> \notin OpToRel(<, Nat)
  BY WFMin, NatLessThanWellFounded, Zenon
<1>2. m # 0 => m - 1 \in Nat /\ <<m - 1, m>> \in OpToRel(<, Nat)
  BY DEF OpToRel
<1>. QED  BY <1>1, <1>2

\* What is kept is later than the cutoff, and no later than the list was.
Between(times, cutoff, top) ==
  times \in Seq(Int) /\ \A i \in 1 .. Len(times) : cutoff < times[i] /\ times[i] <= top

LEMMA KeptBetween ==
  ASSUME NEW times \in Seq(Int), NEW cutoff \in Int, NEW top \in Int,
         \A i \in 1 .. Len(times) : times[i] <= top,
         NEW k, Kept(k, times, cutoff)
  PROVE  \A n \in 0 .. Len(times) : Between(k[n], cutoff, top)
<1>. DEFINE Bad == {n \in Nat : n <= Len(times) /\ ~Between(k[n], cutoff, top)}
<1>1. Between(<<>>, cutoff, top)
  BY DEF Between
<1>2. \A s : \A t \in Int : Between(s, cutoff, top) /\ cutoff < t /\ t <= top
                              => Between(Append(s, t), cutoff, top)
  BY DEF Between
<1>3. Bad = {}
  <2>. SUFFICES ASSUME Bad # {} PROVE FALSE
    OBVIOUS
  <2>1. PICK n \in Bad : n # 0 => n - 1 \in Nat \ Bad
    <3>1. Bad \in SUBSET Nat
      OBVIOUS
    <3>. HIDE DEF Bad
    <3>. QED  BY <3>1, Least
  <2>2. n # 0
    BY <1>1, KeptNext
  <2>3. n \in 1 .. Len(times) /\ times[n] \in Int /\ times[n] <= top
    BY <2>2
  <2>4. Between(k[n - 1], cutoff, top)
    BY <2>1, <2>2, <2>3
  <2>5. k[n] = IF times[n] > cutoff THEN Append(k[n - 1], times[n]) ELSE k[n - 1]
    BY <2>3, KeptNext
  <2>6. Between(k[n], cutoff, top)
    BY <1>2, <2>3, <2>4, <2>5
  <2>. QED  BY <2>6
<1>4. Len(times) \in Nat
  OBVIOUS
<1>. QED  BY <1>3, <1>4

LEMMA SinceBetween ==
  ASSUME NEW times \in Seq(Int), NEW cutoff \in Int, NEW top \in Int,
         \A i \in 1 .. Len(times) : times[i] <= top
  PROVE  Between(Since(times, cutoff), cutoff, top)
<1>1. PICK k : Kept(k, times, cutoff) /\ Since(times, cutoff) = k[Len(times)]
  BY SinceIs
<1>2. Len(times) \in 0 .. Len(times)
  OBVIOUS
<1>. QED  BY <1>1, <1>2, KeptBetween

\* A time put behind a list is kept behind what is kept of the list.
LEMMA SinceAppend ==
  ASSUME NEW times \in Seq(Int), NEW t \in Int, NEW cutoff \in Int
  PROVE  Since(Append(times, t), cutoff) =
           IF t > cutoff THEN Append(Since(times, cutoff), t) ELSE Since(times, cutoff)
<1>. DEFINE more == Append(times, t)
<1>1. /\ more \in Seq(Int) /\ Len(more) = Len(times) + 1 /\ more[Len(times) + 1] = t
      /\ Len(times) \in Nat /\ \A i \in 1 .. Len(times) : more[i] = times[i]
  OBVIOUS
<1>. HIDE DEF more
<1>2. PICK k : Kept(k, times, cutoff) /\ Since(times, cutoff) = k[Len(times)]
  BY SinceIs
<1>3. PICK h : Kept(h, more, cutoff) /\ Since(more, cutoff) = h[Len(more)]
  BY <1>1, SinceIs
<1>. DEFINE Bad == {n \in Nat : n <= Len(times) /\ h[n] # k[n]}
<1>4. Bad = {}
  <2>. SUFFICES ASSUME Bad # {} PROVE FALSE
    OBVIOUS
  <2>1. PICK n \in Bad : n # 0 => n - 1 \in Nat \ Bad
    <3>1. Bad \in SUBSET Nat
      OBVIOUS
    <3>. HIDE DEF Bad
    <3>. QED  BY <3>1, Least
  <2>2. n # 0
    BY <1>1, <1>2, <1>3, KeptNext
  <2>3. n \in 1 .. Len(times) /\ n \in 1 .. Len(more) /\ more[n] = times[n]
    BY <1>1, <2>2
  <2>4. h[n - 1] = k[n - 1]
    BY <2>1, <2>2, <2>3
  <2>5. k[n] = IF times[n] > cutoff THEN Append(k[n - 1], times[n]) ELSE k[n - 1]
    BY <1>2, <2>3, KeptNext
  <2>6. h[n] = IF more[n] > cutoff THEN Append(h[n - 1], more[n]) ELSE h[n - 1]
    BY <1>1, <1>3, <2>3, KeptNext
  <2>. QED  BY <2>3, <2>4, <2>5, <2>6
<1>5. h[Len(times)] = k[Len(times)]
  BY <1>1, <1>4
<1>6. h[Len(more)] = IF t > cutoff THEN Append(h[Len(times)], t) ELSE h[Len(times)]
  <2>1. Len(more) \in 1 .. Len(more) /\ Len(more) - 1 = Len(times) /\ more[Len(more)] = t
    BY <1>1
  <2>2. h[Len(more)] = IF more[Len(more)] > cutoff
                       THEN Append(h[Len(more) - 1], more[Len(more)]) ELSE h[Len(more) - 1]
    BY <1>1, <1>3, <2>1, KeptNext
  <2>. QED  BY <2>1, <2>2
<1>. QED  BY <1>2, <1>3, <1>5, <1>6 DEF more

LEMMA SinceNone == ASSUME NEW cutoff PROVE Since(<<>>, cutoff) = <<>>
<1>1. <<>> \in Seq(Int) /\ Len(<<>>) = 0
  OBVIOUS
<1>2. PICK k : Kept(k, <<>>, cutoff) /\ Since(<<>>, cutoff) = k[Len(<<>>)]
  BY <1>1, SinceIs
<1>. QED  BY <1>1, <1>2, KeptNext

\* Pruning a list, and later again, is pruning it later.
LEMMA SinceTwice ==
  ASSUME NEW times \in Seq(Int), NEW a \in Int, NEW b \in Int, a <= b
  PROVE  Since(Since(times, a), b) = Since(times, b)
<1>1. PICK k : Kept(k, times, a) /\ Since(times, a) = k[Len(times)]
  BY SinceIs
<1>2. PICK h : Kept(h, times, b) /\ Since(times, b) = h[Len(times)]
  BY SinceIs
<1>. DEFINE Bad == {n \in Nat : n <= Len(times) /\ ~(k[n] \in Seq(Int) /\ Since(k[n], b) = h[n])}
<1>3. Bad = {}
  <2>. SUFFICES ASSUME Bad # {} PROVE FALSE
    OBVIOUS
  <2>1. PICK n \in Bad : n # 0 => n - 1 \in Nat \ Bad
    <3>1. Bad \in SUBSET Nat
      OBVIOUS
    <3>. HIDE DEF Bad
    <3>. QED  BY <3>1, Least
  <2>2. n # 0
    <3>1. k[0] = <<>> /\ h[0] = <<>> /\ Since(<<>>, b) = <<>> /\ <<>> \in Seq(Int)
      BY <1>1, <1>2, KeptNext, SinceNone
    <3>. QED  BY <3>1
  <2>3. n \in 1 .. Len(times) /\ times[n] \in Int
    BY <2>2
  <2>4. k[n - 1] \in Seq(Int) /\ Since(k[n - 1], b) = h[n - 1]
    BY <2>1, <2>2, <2>3
  <2>5. k[n] = IF times[n] > a THEN Append(k[n - 1], times[n]) ELSE k[n - 1]
    BY <1>1, <2>3, KeptNext
  <2>6. h[n] = IF times[n] > b THEN Append(h[n - 1], times[n]) ELSE h[n - 1]
    BY <1>2, <2>3, KeptNext
  <2>7. Since(Append(k[n - 1], times[n]), b) =
          IF times[n] > b THEN Append(h[n - 1], times[n]) ELSE h[n - 1]
    BY <2>3, <2>4, SinceAppend
  <2>8. k[n] \in Seq(Int)
    BY <2>3, <2>4, <2>5
  <2>9. Since(k[n], b) = h[n]
    <3>1. CASE times[n] > a
      BY <2>5, <2>6, <2>7, <3>1
    <3>2. CASE ~(times[n] > a)
      BY <2>3, <2>4, <2>5, <2>6, <3>2
    <3>. QED  BY <3>1, <3>2
  <2>. QED  BY <2>8, <2>9
<1>4. Len(times) \in Nat
  OBVIOUS
<1>. QED  BY <1>1, <1>2, <1>3, <1>4

-----------------------------------------------------------------------------
(* The limiter *)

Listed(a) == IF a \in DOMAIN window THEN window[a] ELSE <<>>

\* The last time of a list is its latest, and none is ahead of the clock.
Ordered(times) ==
  /\ times \in Seq(Int)
  /\ \A i \in 1 .. Len(times) : times[i] <= times[Len(times)] /\ times[i] <= clock

\* What was admitted within the window is what the lists would keep now.
LimiterInv ==
  /\ clock \in Nat
  /\ admitted = [a \in Addresses |-> admitted[a]]
  /\ \A a \in Addresses : Ordered(Listed(a)) /\ admitted[a] = Since(Listed(a), clock - Window)

\* A request at the limiter comes from a known address.
FromIsKnown ==
  \A r \in Requests : request[r].stage \in {"bound", "metered"} => request[r].from \in Addresses

LimitInv == LimiterInv /\ FromIsKnown /\ restarts \in Nat

\* A list that is dropped had nothing to keep.
LEMMA DroppedIsOld ==
  ASSUME LimiterInv, NEW a \in Addresses
  PROVE  /\ Timestamps(a) = admitted[a]
         /\ a \in DOMAIN CleanWindow => CleanWindow[a] = Listed(a)
         /\ a \notin DOMAIN CleanWindow => admitted[a] = <<>>
<1>. DEFINE list == Listed(a)
            cutoff == clock - Window
<1>1. /\ list \in Seq(Int) /\ admitted[a] = Since(list, cutoff)
      /\ \A i \in 1 .. Len(list) : list[i] <= list[Len(list)]
      /\ cutoff \in Int
  BY LimiterAssumption DEF LimiterInv, Ordered
<1>2. a \in DOMAIN CleanWindow => a \in DOMAIN window /\ CleanWindow[a] = list
  BY DEF CleanWindow, Listed
<1>3. a \notin DOMAIN CleanWindow => list = <<>> \/ ~(list[Len(list)] >= cutoff)
  BY DEF CleanWindow, Listed, Last
<1>. HIDE DEF list, cutoff
<1>4. ASSUME a \notin DOMAIN CleanWindow PROVE Since(list, cutoff) = <<>>
  <2>1. CASE list = <<>>
    BY <2>1, SinceNone
  <2>2. CASE list # <<>>
    <3>1. list[Len(list)] \in Int /\ list[Len(list)] < cutoff
      BY <1>1, <1>3, <1>4, <2>2
    <3>2. \A i \in 1 .. Len(list) : list[i] <= cutoff
      BY <1>1, <3>1
    <3>. DEFINE kept == Since(list, cutoff)
    <3>3. kept \in Seq(Int) /\ \A i \in 1 .. Len(kept) : cutoff < kept[i] /\ kept[i] <= cutoff
      BY <1>1, <3>2, SinceBetween DEF Between
    <3>. HIDE DEF kept
    <3>4. Len(kept) = 0
      BY <1>1, <3>3
    <3>5. kept = <<>>
      BY <3>3, <3>4
    <3>. QED  BY <3>5 DEF kept
  <2>. QED  BY <2>1, <2>2
<1>5. Timestamps(a) = Since(IF a \in DOMAIN CleanWindow THEN CleanWindow[a] ELSE <<>>, cutoff)
  BY Zenon DEF Timestamps, cutoff
<1>6. Timestamps(a) = admitted[a]
  BY <1>1, <1>2, <1>4, <1>5, SinceNone
<1>. QED  BY <1>1, <1>2, <1>4, <1>6 DEF list

\* What is admitted is in order, and what it keeps is itself.
LEMMA AdmittedIs ==
  ASSUME LimiterInv, NEW a \in Addresses
  PROVE  /\ Ordered(admitted[a])
         /\ Since(admitted[a], clock - Window) = admitted[a]
         /\ \A cutoff \in Int : clock - Window <= cutoff =>
              Since(admitted[a], cutoff) = Since(Listed(a), cutoff)
<1>. DEFINE list == Listed(a)
            from == clock - Window
            kept == Since(list, from)
<1>1. /\ list \in Seq(Int) /\ admitted[a] = kept /\ from \in Int /\ clock \in Int
      /\ \A i \in 1 .. Len(list) : list[i] <= list[Len(list)] /\ list[i] <= clock
  BY LimiterAssumption DEF LimiterInv, Ordered
<1>. HIDE DEF list, from
<1>2. \A cutoff \in Int : from <= cutoff => Since(kept, cutoff) = Since(list, cutoff)
  BY <1>1, SinceTwice
<1>3. kept \in Seq(Int) /\ \A i \in 1 .. Len(kept) : kept[i] <= clock
  BY <1>1, SinceBetween DEF Between
<1>4. \A i \in 1 .. Len(kept) : kept[i] <= kept[Len(kept)]
  <2>1. CASE list = <<>>
    BY <2>1, SinceNone
  <2>2. CASE list # <<>>
    <3>1. PICK k : Kept(k, list, from) /\ kept = k[Len(list)]
      BY <1>1, SinceIs
    <3>2. Len(list) \in 1 .. Len(list) /\ list[Len(list)] \in Int
      BY <1>1, <2>2
    <3>. DEFINE top == list[Len(list)]
    <3>3. kept = IF top > from THEN Append(k[Len(list) - 1], top) ELSE k[Len(list) - 1]
      BY <1>1, <3>1, <3>2, KeptNext
    <3>4. \A i \in 1 .. Len(kept) : from < kept[i] /\ kept[i] <= top
      BY <1>1, <3>2, SinceBetween DEF Between
    <3>. HIDE DEF kept, top
    <3>5. CASE top > from
      <4>1. k[Len(list) - 1] \in Seq(Int)
        <5>1. Len(list) - 1 \in 0 .. Len(list)
          BY <3>2
        <5>2. Between(k[Len(list) - 1], from, clock)
          BY <1>1, <3>1, <5>1, KeptBetween
        <5>. QED  BY <5>2 DEF Between
      <4>2. kept[Len(kept)] = top
        BY <3>2, <3>3, <3>5, <4>1 DEF top
      <4>. QED  BY <3>4, <4>2
    <3>6. CASE ~(top > from)
      <4>1. \A i \in 1 .. Len(kept) : FALSE
        BY <1>1, <1>3, <3>2, <3>4, <3>6 DEF kept, top
      <4>. QED  BY <4>1
    <3>. QED  BY <3>5, <3>6
  <2>. QED  BY <2>1, <2>2
<1>5. Ordered(kept)
  BY <1>3, <1>4 DEF Ordered
<1>6. Since(kept, from) = kept
  BY <1>1, <1>2
<1>. HIDE DEF kept
<1>. QED  BY <1>1, <1>2, <1>5, <1>6 DEF list, from

\* What the lists are once one of them is stored.
LEMMA StoresWhat ==
  ASSUME LimiterInv, NEW a \in Addresses, NEW times, Stores(a, times)
  PROVE  \A b \in Addresses :
           Listed(b)' = IF b = a THEN times
                        ELSE IF b \in DOMAIN CleanWindow THEN Listed(b) ELSE <<>>
<1>1. /\ DOMAIN window' = DOMAIN CleanWindow \cup {a}
      /\ \A b \in DOMAIN CleanWindow \cup {a} :
           window'[b] = IF b = a THEN times ELSE CleanWindow[b]
  <2>. DEFINE clean == CleanWindow
  <2>1. window' = [b \in DOMAIN clean \cup {a} |-> IF b = a THEN times ELSE clean[b]]
    BY DEF Stores
  <2>. HIDE DEF clean
  <2>2. /\ DOMAIN window' = DOMAIN clean \cup {a}
        /\ \A b \in DOMAIN clean \cup {a} : window'[b] = IF b = a THEN times ELSE clean[b]
    BY <2>1
  <2>. QED  BY <2>2 DEF clean
<1>2. \A b \in Addresses : b \in DOMAIN CleanWindow => CleanWindow[b] = Listed(b)
  BY DroppedIsOld
<1>3. \A b : Listed(b)' = IF b \in DOMAIN window' THEN window'[b] ELSE <<>>
  BY DEF Listed
<1>. HIDE DEF Listed
<1>. QED  BY <1>1, <1>2, <1>3

\* A decision that stores the kept times, or one more, keeps the invariant.
LEMMA DecisionKeeps ==
  ASSUME LimiterInv, NEW a \in Addresses, Records(a) \/ Refuses(a)
  PROVE  LimiterInv'
<1>. DEFINE cutoff == clock - Window
            mine   == admitted[a]
            more   == Append(mine, clock)
            times  == IF Records(a) THEN more ELSE mine
<1>1. /\ clock \in Nat /\ clock' = clock /\ cutoff \in Int /\ clock > cutoff
      /\ admitted = [b \in Addresses |-> admitted[b]]
  BY LimiterAssumption DEF LimiterInv, Records, Refuses
<1>2. Ordered(mine) /\ Since(mine, cutoff) = mine
  BY AdmittedIs
<1>3. Ordered(more) /\ Since(more, cutoff) = more
  <2>1. mine \in Seq(Int) /\ \A i \in 1 .. Len(mine) : mine[i] <= clock
    BY <1>2 DEF Ordered
  <2>. HIDE DEF mine, cutoff
  <2>2. Since(more, cutoff) = more
    BY <1>1, <1>2, <2>1, SinceAppend
  <2>3. Ordered(more)
    BY <1>1, <2>1 DEF Ordered
  <2>. QED  BY <2>2, <2>3
<1>4. /\ Stores(a, times)
      /\ admitted' = IF Records(a) THEN [admitted EXCEPT ![a] = more] ELSE admitted
  <2>1. Timestamps(a) = mine
    BY DroppedIsOld
  <2>. QED  BY <2>1 DEF Records, Refuses
<1>5. Ordered(times) /\ Since(times, cutoff) = times
  BY <1>2, <1>3
<1>6. admitted' = [b \in Addresses |-> admitted'[b]] /\ admitted'[a] = times
      /\ \A b \in Addresses \ {a} : admitted'[b] = admitted[b]
  BY <1>1, <1>4
<1>. HIDE DEF times, mine, more
<1>7. ASSUME NEW b \in Addresses
      PROVE  Ordered(Listed(b))' /\ admitted'[b] = Since(Listed(b)', clock' - Window)
  <2>2. Listed(b)' = IF b = a THEN times
                     ELSE IF b \in DOMAIN CleanWindow THEN Listed(b) ELSE <<>>
    BY <1>4, StoresWhat
  <2>3. Ordered(Listed(b)) /\ admitted[b] = Since(Listed(b), cutoff)
    BY DEF LimiterInv
  <2>4. b \notin DOMAIN CleanWindow => admitted[b] = <<>>
    BY DroppedIsOld
  <2>5. Ordered(<<>>) /\ Since(<<>>, cutoff) = <<>>
    BY SinceNone DEF Ordered
  <2>. DEFINE now == Listed(b)'
  <2>6. Ordered(now) /\ admitted'[b] = Since(now, cutoff)
    <3>. HIDE DEF now
    <3>1. now = IF b = a THEN times ELSE IF b \in DOMAIN CleanWindow THEN Listed(b) ELSE <<>>
      BY <2>2 DEF now
    <3>. QED  BY <1>5, <1>6, <2>3, <2>4, <2>5, <3>1
  <2>7. Ordered(Listed(b))'
    <3>1. /\ now \in Seq(Int)
          /\ \A i \in 1 .. Len(now) : now[i] <= now[Len(now)] /\ now[i] <= clock'
      <4>. HIDE DEF now
      <4>. QED  BY <1>1, <2>6 DEF Ordered
    <3>. QED  BY <3>1 DEF Ordered
  <2>. QED  BY <1>1, <2>6, <2>7
<1>. QED  BY <1>1, <1>6, <1>7 DEF LimiterInv

LEMMA LimiterRestsKeeps ==
  ASSUME LimiterInv, UNCHANGED limiterVars
  PROVE  LimiterInv'
<1>1. clock' = clock /\ window' = window /\ admitted' = admitted
  BY DEF limiterVars
<1>2. ASSUME NEW a \in Addresses
      PROVE  Ordered(Listed(a))' /\ admitted'[a] = Since(Listed(a)', clock' - Window)
  <2>1. Listed(a)' = Listed(a)
    BY <1>1 DEF Listed
  <2>2. Ordered(Listed(a)) /\ admitted[a] = Since(Listed(a), clock - Window)
    BY DEF LimiterInv
  <2>3. Ordered(Listed(a))'
    BY <1>1, <2>1, <2>2 DEF Ordered
  <2>. QED  BY <1>1, <2>1, <2>2, <2>3
<1>. QED  BY <1>1, <1>2 DEF LimiterInv

LEMMA TicksKeeps ==
  ASSUME LimiterInv, Ticks
  PROVE  LimiterInv'
<1>1. /\ clock \in Nat /\ clock' = clock + 1 /\ window' = window
      /\ admitted' = [a \in Addresses |-> Since(admitted[a], clock' - Window)]
  BY DEF LimiterInv, Ticks
<1>2. ASSUME NEW a \in Addresses
      PROVE  Ordered(Listed(a))' /\ admitted'[a] = Since(Listed(a)', clock' - Window)
  <2>1. Listed(a)' = Listed(a)
    BY <1>1 DEF Listed
  <2>2. Ordered(Listed(a))
    BY DEF LimiterInv
  <2>. DEFINE list == Listed(a)
  <2>3. \A i \in 1 .. Len(list) : list[i] <= list[Len(list)] /\ list[i] <= clock'
    <3>. HIDE DEF list
    <3>1. \A i \in 1 .. Len(list) : list[i] \in Int
      BY <2>2 DEF Ordered, list
    <3>. QED  BY <1>1, <2>2, <3>1 DEF Ordered, list
  <2>4. Ordered(Listed(a))'
    BY <2>1, <2>2, <2>3 DEF Ordered
  <2>5. clock' - Window \in Int /\ clock - Window <= clock' - Window
    BY <1>1, LimiterAssumption
  <2>6. Since(admitted[a], clock' - Window) = Since(Listed(a), clock' - Window)
    BY <2>5, AdmittedIs
  <2>7. admitted'[a] = Since(admitted[a], clock' - Window)
    BY <1>1
  <2>. QED  BY <2>1, <2>4, <2>6, <2>7
<1>3. admitted' = [a \in Addresses |-> admitted'[a]] /\ clock' \in Nat
  BY <1>1
<1>. QED  BY <1>2, <1>3 DEF LimiterInv

LEMMA EmptyLists ==
  ASSUME NEW a
  PROVE  /\ (window = [b \in {} |-> <<>>]) => Listed(a) = <<>>
         /\ (window' = [b \in {} |-> <<>>]) => Listed(a)' = <<>>
BY DEF Listed

LEMMA LimitStart == Init => LimitInv
<1>. SUFFICES ASSUME Init PROVE LimitInv
  OBVIOUS
<1>1. clock = 0 /\ admitted = [a \in Addresses |-> <<>>] /\ window = [a \in {} |-> <<>>]
  BY DEF Init, InitLimiter
<1>2. \A a \in Addresses : Listed(a) = <<>>
  BY <1>1, EmptyLists
<1>3. Ordered(<<>>)
  BY DEF Ordered
<1>4. LimiterInv
  BY <1>1, <1>2, <1>3, SinceNone DEF LimiterInv
<1>5. FromIsKnown
  BY DEF Init, NoRequest, FromIsKnown
<1>6. restarts \in Nat
  BY DEF Init
<1>. QED  BY <1>4, <1>5, <1>6 DEF LimitInv

LEMMA RestartKeeps ==
  ASSUME LimiterInv, LimiterRestarts
  PROVE  LimiterInv'
<1>1. /\ clock \in Nat /\ clock' = clock /\ admitted' = [a \in Addresses |-> <<>>]
      /\ window' = [a \in {} |-> <<>>]
  BY DEF LimiterInv, LimiterRestarts
<1>2. \A a \in Addresses : Listed(a)' = <<>>
  BY <1>1, EmptyLists
<1>3. \A a \in Addresses : admitted'[a] = Since(<<>>, clock' - Window) /\ admitted'[a] = <<>>
  BY <1>1, SinceNone
<1>4. ASSUME NEW a \in Addresses PROVE Ordered(Listed(a))'
  <2>. DEFINE now == Listed(a)'
  <2>1. /\ now \in Seq(Int)
        /\ \A i \in 1 .. Len(now) : now[i] <= now[Len(now)] /\ now[i] <= clock'
    <3>1. now = <<>>
      BY <1>2
    <3>. HIDE DEF now
    <3>. QED  BY <3>1
  <2>. QED  BY <2>1 DEF Ordered
<1>. QED  BY <1>1, <1>2, <1>3, <1>4 DEF LimiterInv

\* Where a request comes from is settled on its arrival.
LEMMA FromStays ==
  ASSUME GatewayInv, FromIsKnown, [Next]_vars
  PROVE  FromIsKnown'
<1>0. request \in [Requests -> RequestRecord]
  BY DEF GatewayInv, Typed
<1>1. ASSUME NEW q \in Requests, Serves(q), NEW r \in Requests,
             request'[r].stage \in {"bound", "metered"}
      PROVE  request'[r].from \in Addresses
  <2>1. request[r] \in RequestRecord /\ request[q] \in RequestRecord
    BY <1>0
  <2>2. CASE Arrives(q)
    <3>1. PICK op \in Operations, a \in Addresses, tok \in held \cup {0} :
            request' = [request EXCEPT ![q] = [NoRequest EXCEPT !.stage = "bound", !.asks = op,
                                                                !.token = tok, !.from = a]]
      BY <2>2 DEF Arrives
    <3>. DEFINE to == [NoRequest EXCEPT !.stage = "bound", !.asks = op, !.token = tok, !.from = a]
    <3>2. to.from = a
      BY DEF NoRequest
    <3>3. request'[r] = IF r = q THEN to ELSE request[r]
      BY <1>0, <3>1
    <3>. HIDE DEF to
    <3>. QED  BY <1>1, <3>2, <3>3 DEF FromIsKnown
  <2>3. CASE Meters(q)
    <3>1. request[q].stage = "bound" /\ request' = [request EXCEPT ![q].stage = "metered"]
      BY <2>3 DEF Meters, At, Goes
    <3>2. request'[r].from = request[r].from /\ (r # q => request'[r] = request[r])
      BY <1>0, <3>1 DEF RequestRecord
    <3>. QED  BY <1>1, <3>1, <3>2 DEF FromIsKnown
  <2>4. ASSUME NEW to, request' = [request EXCEPT ![q] = to], to.stage \notin {"bound", "metered"}
        PROVE  request'[r].from \in Addresses
    <3>1. request'[r] = IF r = q THEN to ELSE request[r]
      BY <1>0, <2>4
    <3>. QED  BY <1>1, <2>4, <3>1 DEF FromIsKnown
  <2>5. ASSUME NEW stage, Goes(q, stage), stage \notin {"bound", "metered"}
        PROVE  request'[r].from \in Addresses
    <3>. DEFINE to == [request[q] EXCEPT !.stage = stage]
    <3>1. to.stage = stage
      BY <2>1 DEF RequestRecord
    <3>2. request' = [request EXCEPT ![q] = to]
      BY <1>0, <2>5 DEF Goes
    <3>. HIDE DEF to
    <3>. QED  BY <2>4, <2>5, <3>1, <3>2
  <2>6. ASSUME (\E status : Answers(q, status)) \/ AnswersPair(q)
        PROVE  request'[r].from \in Addresses
    <3>1. ASSUME NEW status, Answers(q, status) PROVE request'[r].from \in Addresses
      <4>. DEFINE to == [NoRequest EXCEPT !.stage = "answered", !.status = status]
      <4>1. to.stage = "answered"
        BY DEF NoRequest
      <4>2. request' = [request EXCEPT ![q] = to]
        BY <3>1, Zenon DEF Answers
      <4>. HIDE DEF to
      <4>. QED  BY <2>4, <4>1, <4>2
    <3>2. CASE AnswersPair(q)
      <4>. DEFINE to == [NoRequest EXCEPT !.stage = "answered", !.status = "ok",
                                          !.pair = NextPair]
      <4>1. to.stage = "answered"
        BY DEF NoRequest
      <4>2. request' = [request EXCEPT ![q] = to]
        BY <3>2, Zenon DEF AnswersPair
      <4>. HIDE DEF to
      <4>. QED  BY <2>4, <4>1, <4>2
    <3>. QED  BY <2>6, <3>1, <3>2
  <2>7. CASE Limits(q)
    <3>1. Goes(q, "routed") \/ Answers(q, "refused")
      BY <2>7 DEF Limits
    <3>. QED  BY <2>5, <2>6, <3>1
  <2>8. CASE Routes(q)
    <3>1. \/ (\E status : Answers(q, status)) \/ AnswersPair(q)
          \/ request' = [request EXCEPT ![q].stage = "inside", ![q].status = "ok"]
      BY <2>8 DEF Routes, Login, Refresh, Logout, Enters, Denied, DeniedExpired
    <3>2. CASE request' = [request EXCEPT ![q].stage = "inside", ![q].status = "ok"]
      <4>. DEFINE to == [request[q] EXCEPT !.stage = "inside", !.status = "ok"]
      <4>1. to.stage = "inside"
        BY <2>1 DEF RequestRecord
      <4>2. request' = [request EXCEPT ![q] = to]
        BY <1>0, <3>2
      <4>. HIDE DEF to
      <4>. QED  BY <2>4, <4>1, <4>2
    <3>. QED  BY <2>6, <3>1, <3>2
  <2>9. CASE Handled(q)
    BY <2>6, <2>9 DEF Handled
  <2>10. CASE Unmeters(q)
    BY <2>5, <2>10 DEF Unmeters
  <2>11. CASE Leaves(q)
    <3>. DEFINE to == NoRequest
    <3>1. to.stage = "none"
      BY DEF NoRequest
    <3>2. request' = [request EXCEPT ![q] = to]
      BY <2>11 DEF Leaves
    <3>. HIDE DEF to
    <3>. QED  BY <2>4, <3>1, <3>2
  <2>. QED  BY <1>1, <2>2, <2>3, <2>7, <2>8, <2>9, <2>10, <2>11 DEF Serves
<1>2. CASE \E q \in Requests : Serves(q)
  BY <1>1, <1>2 DEF FromIsKnown
<1>3. CASE Restarts
  BY <1>3 DEF Restarts, NoRequest, FromIsKnown
<1>4. CASE UNCHANGED <<tokenVars, gatewayVars>>
  BY <1>4 DEF gatewayVars, FromIsKnown
<1>. QED  BY <1>2, <1>3, <1>4 DEF Next, vars

LEMMA LimitStep == GatewayInv /\ LimitInv /\ [Next]_vars => LimitInv'
<1>. SUFFICES ASSUME GatewayInv, LimiterInv, FromIsKnown, restarts \in Nat, [Next]_vars
              PROVE  LimiterInv' /\ restarts' \in Nat
  BY FromStays DEF LimitInv
<1>0. restarts' \in Nat
  <2>1. restarts' = restarts \/ restarts' = restarts + 1
    BY Zenon DEF Next, Serves, Arrives, Meters, Limits, Routes, Handled, Unmeters, Leaves,
                 KeepsCounts, Restarts, gatewayVars, vars
  <2>. QED  BY <2>1
<1>1. ASSUME NEW r \in Requests, Serves(r) PROVE LimiterInv'
  <2>1. CASE UNCHANGED limiterVars
    BY <2>1, LimiterRestsKeeps
  <2>2. CASE At(r, "metered") /\ LET a == request[r].from IN Records(a) \/ Refuses(a)
    BY <2>2, DecisionKeeps DEF At, FromIsKnown
  <2>. QED  BY <1>1, <2>1, <2>2
            DEF Serves, Arrives, Meters, Limits, Routes, Handled, Unmeters, Leaves
<1>2. CASE Ticks
  BY <1>0, <1>2, TicksKeeps
<1>3. CASE Restarts
  BY <1>0, <1>3, RestartKeeps DEF Restarts
<1>4. CASE UNCHANGED vars
  BY <1>0, <1>4, LimiterRestsKeeps DEF vars
<1>. QED  BY <1>0, <1>1, <1>2, <1>3, <1>4 DEF Next

LEMMA LimitInvariant == Spec => [](GatewayInv /\ LimitInv)
BY GatewayInvariant, LimitStart, LimitStep, PTL DEF Spec

\* A request passes the limiter exactly when fewer than MaxRequests requests of its
\* address passed in the last Window seconds: the two rules the lists are pruned
\* by, and the lists that are dropped, never change a verdict.
THEOREM LimitHolds == Spec => LimitIsExact
<1>. DEFINE Exact(r) ==
       At(r, "metered") /\ request[r].asks \notin Exempt /\ restarts' = restarts
         /\ request'[r].stage # "metered"
           => (request'[r].stage = "routed" <=> BelowLimit(request[r].from))
<1>1. GatewayInv /\ LimitInv /\ [Next]_vars => [\A r \in Requests : Exact(r)]_vars
  <2>. SUFFICES ASSUME GatewayInv, LimitInv, Next, NEW r \in Requests, At(r, "metered"),
                       request[r].asks \notin Exempt, restarts' = restarts,
                       request'[r].stage # "metered"
                PROVE  request'[r].stage = "routed" <=> BelowLimit(request[r].from)
    OBVIOUS
  <2>0. /\ request \in [Requests -> RequestRecord] /\ request[r].stage = "metered"
        /\ ~Restarts
    BY DEF GatewayInv, Typed, LimitInv, At, Restarts
  <2>1. PICK q \in Requests : Serves(q)
    BY <2>0 DEF Next, gatewayVars
  <2>2. q = r
    <3>1. \A p \in Requests \ {q} : request'[p] = request[p]
      BY <2>0, <2>1 DEF Serves, Arrives, Meters, Limits, Routes, Handled, Unmeters, Leaves,
           Login, Refresh, Logout, Enters, Denied, DeniedExpired, Goes, Answers, AnswersPair
    <3>. QED  BY <2>0, <3>1
  <2>. DEFINE a == request[r].from
  <2>3. /\ a \in Addresses
        /\ (Records(a) /\ Goes(r, "routed")) \/ (Refuses(a) /\ Answers(r, "refused"))
    BY <2>0, <2>1, <2>2 DEF Serves, Arrives, Meters, Limits, Routes, Handled, Unmeters, Leaves, At,
         LimitInv, FromIsKnown
  <2>4. Timestamps(a) = admitted[a] /\ Len(admitted[a]) \in Nat
    BY <2>3, DroppedIsOld, AdmittedIs DEF LimitInv, Ordered
  <2>5. CASE Records(a) /\ Goes(r, "routed")
    <3>1. request'[r].stage = "routed"
      BY <2>0, <2>5 DEF Goes, RequestRecord
    <3>. QED  BY <2>4, <2>5, <3>1 DEF Records, BelowLimit
  <2>6. CASE Refuses(a) /\ Answers(r, "refused")
    <3>1. request'[r].stage = "answered"
      BY <2>0, <2>6 DEF Answers, NoRequest
    <3>. QED  BY <2>4, <2>6, <3>1, LimiterAssumption DEF Refuses, BelowLimit
  <2>. QED  BY <2>3, <2>5, <2>6
<1>. QED  BY <1>1, LimitInvariant, PTL DEF Spec, LimitIsExact
=============================================================================
