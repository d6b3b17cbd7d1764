-------------------------- MODULE LLMRouterProofs --------------------------
(***************************************************************************)
(* Proofs about the router, for any chain of providers, any number of      *)
(* clients, any threshold and cooldown, and requests of any length.        *)
(***************************************************************************)
EXTENDS LLMRouter, WellFoundedInduction, TLAPS

\* What a hop's health may be.
Earned(h, hop) ==
  /\ hop \in Health
  /\ hop.age # Closed => hop.failures = Threshold
  /\ h \in Reliable => hop.failures = 0

\* What a request may be: a stream is suspended at an error only of a hop that
\* can fail.
Plausible(r) ==
  /\ r \in Request
  /\ r.kind # "chat" /\ r.at # 0 => r.at \in Streaming
  /\ r.event # "none" => r.kind # "chat" /\ r.at \in Streaming
  /\ r.event = "error" => r.at \notin Reliable

Safe(r, result) ==
  result \in Outcomes /\ (N \in Reliable \cap Streaming /\ r.kind # "socket" => result # "error")

HealthInv  == health \in [Hops -> Health] /\ \A h \in Hops : Earned(h, health[h])
RequestInv ==
  /\ request \in [Clients -> Request] /\ outcome \in [Clients -> Outcomes]
  /\ \A c \in Clients : Plausible(request[c]) /\ Safe(request[c], outcome[c])
RouterInv == HealthInv /\ RequestInv

-----------------------------------------------------------------------------
\* The smaller of two numbers.
LEMMA MinOfTwo == \A a, b \in Int : Min({a, b}) = IF a <= b THEN a ELSE b
<1>. SUFFICES ASSUME NEW a \in Int, NEW b \in Int PROVE Min({a, b}) = IF a <= b THEN a ELSE b
  OBVIOUS
<1>1. \E x \in {a, b} : \A y \in {a, b} : x <= y
  OBVIOUS
<1>2. Min({a, b}) \in {a, b} /\ \A y \in {a, b} : Min({a, b}) <= y
  BY <1>1 DEF Min
<1>. QED  BY <1>2

\* The least of some hops is one of them.
LEMMA LeastHop == ASSUME NEW S \in SUBSET Hops, S # {} PROVE Min(S) \in S
<1>1. S \in SUBSET Nat
  <2>1. \A h \in Hops : h \in Nat
    BY RouterAssumption DEF Hops
  <2>. QED  BY <2>1
<1>2. \E x \in S : \A y \in S : x <= y
  <2>1. PICK x \in S : \A y \in S : <<y, x>> \notin OpToRel(<, Nat)
    BY <1>1, WFMin, NatLessThanWellFounded, Zenon
  <2>2. \A y \in S : ~ (y < x)
    BY <1>1, <2>1 DEF OpToRel
  <2>. QED  BY <1>1, <2>2
<1>. QED  BY <1>2 DEF Min

\* Half-opening forgives an opening, and no failure.
LEMMA HalfOpenedEarned ==
  ASSUME NEW h, NEW hop, Earned(h, hop), NEW lag PROVE Earned(h, HalfOpened(hop, lag))
<1>1. [hop EXCEPT !.age = Closed] \in Health
      /\ [hop EXCEPT !.age = Closed].age = Closed
      /\ [hop EXCEPT !.age = Closed].failures = hop.failures
  BY RouterAssumption DEF Earned, Health, Closed, Oldest
<1>. QED  BY <1>1 DEF Earned, HalfOpened

\* A success forgives everything.
LEMMA SucceededEarned == ASSUME NEW h, NEW hop, Earned(h, hop) PROVE Earned(h, Succeeded(hop))
<1>1. Threshold \in Nat /\ Closed \in Closed .. Oldest
  BY RouterAssumption DEF Closed, Oldest
<1>. DEFINE once == [hop EXCEPT !.failures = 0]
<1>2. once \in Health /\ once.failures = 0
  BY <1>1 DEF Earned, Health
<1>. HIDE DEF once
<1>. DEFINE twice == [once EXCEPT !.age = Closed]
<1>3. twice \in Health /\ twice.failures = 0 /\ twice.age = Closed
  BY <1>1, <1>2 DEF Health
<1>4. Succeeded(hop) = twice
  BY DEF Succeeded, once
<1>. HIDE DEF twice
<1>. QED  BY <1>3, <1>4 DEF Earned

\* A failure of a hop that can fail.
LEMMA FailedEarned ==
  ASSUME NEW h, h \notin Reliable, NEW hop, Earned(h, hop) PROVE Earned(h, Failed(hop))
<1>1. hop.failures \in 0 .. Threshold /\ hop.age \in Closed .. Oldest
  BY DEF Earned, Health
<1>2. Threshold \in Nat /\ Threshold > 0 /\ Oldest \in Nat /\ Closed = -1
  BY RouterAssumption DEF Oldest, Closed
<1>. DEFINE failures == Min({hop.failures + 1, Threshold})
<1>3. failures = IF hop.failures + 1 <= Threshold THEN hop.failures + 1 ELSE Threshold
  BY <1>1, <1>2, MinOfTwo
<1>4. failures \in 0 .. Threshold /\ (hop.failures = Threshold => failures = Threshold)
  BY <1>1, <1>2, <1>3
<1>. HIDE DEF failures
<1>. DEFINE age == IF failures >= Threshold /\ hop.age = Closed THEN 0 ELSE hop.age
<1>5. age \in Closed .. Oldest /\ (age # Closed => failures = Threshold)
  BY <1>1, <1>2, <1>4 DEF Earned
<1>6. Failed(hop) = [failures |-> failures, age |-> age]
  BY DEF Failed, failures
<1>. HIDE DEF age
<1>. QED  BY <1>4, <1>5, <1>6 DEF Earned, Health

-----------------------------------------------------------------------------
\* One client's request gives way to another, as plausible, with its outcome.
LEMMA RequestChanges ==
  ASSUME RequestInv, NEW c \in Clients, NEW r, NEW result,
         Plausible(r), Safe(r, result),
         request' = [request EXCEPT ![c] = r], outcome' = [outcome EXCEPT ![c] = result]
  PROVE  RequestInv'
<1>1. r \in Request /\ result \in Outcomes
  BY DEF Plausible, Safe
<1>2. request' \in [Clients -> Request] /\ outcome' \in [Clients -> Outcomes]
  BY <1>1 DEF RequestInv
<1>3. \A d \in Clients : \/ request'[d] = r /\ outcome'[d] = result
                         \/ request'[d] = request[d] /\ outcome'[d] = outcome[d]
  BY DEF RequestInv
<1>4. \A d \in Clients : Plausible(request'[d]) /\ Safe(request'[d], outcome'[d])
  BY <1>3 DEF RequestInv
<1>5. (\A d \in Clients : Plausible(request[d]) /\ Safe(request[d], outcome[d]))'
  BY <1>4 DEF Plausible, Safe, Outcomes, Request, RequestKinds, RequestEvents
<1>. QED  BY <1>2, <1>5 DEF RequestInv, Outcomes, Request, RequestKinds, RequestEvents

\* A request that ends.
LEMMA EndKeeps ==
  ASSUME RequestInv, NEW c \in Clients, NEW result \in Outcomes, End(c, result),
         result = "error" => request[c].kind = "socket" \/ N \notin Reliable \cap Streaming
  PROVE  RequestInv'
<1>. DEFINE r == [NoRequest EXCEPT !.kind = request[c].kind]
<1>1. request[c] \in Request
  BY DEF RequestInv
<1>2. r \in Request /\ r.event = "none" /\ r.kind = request[c].kind /\ r.at = 0
  BY <1>1, RouterAssumption DEF NoRequest, Request, RequestEvents
<1>3. request' = [request EXCEPT ![c] = r] /\ outcome' = [outcome EXCEPT ![c] = result]
  BY DEF End
<1>. HIDE DEF r
<1>4. Plausible(r) /\ Safe(r, result)
  BY <1>2 DEF Plausible, Safe
<1>. QED  BY <1>3, <1>4, RequestChanges

\* The loop runs on over a chain whose openings are earned.
LEMMA RunOnKeeps ==
  ASSUME RouterInv, NEW c \in Clients, NEW r \in Request, NEW from \in 1 .. (N + 1),
         NEW chain \in [Hops -> Health], \A h \in Hops : Earned(h, chain[h]),
         N \in Reliable => from <= N,
         RunOn(c, r, from, chain)
  PROVE  RouterInv'
<1>. DEFINE takers == {h \in from .. N : Takes(h, r, chain)}
            next   == IF takers = {} THEN N ELSE Min(takers)
<1>1. health' = [h \in Hops |-> IF h \in from .. next THEN HalfOpened(chain[h], r.lag) ELSE chain[h]]
  BY DEF RunOn
<1>2. IF takers = {} THEN End(c, "error")
      ELSE /\ request' = [request EXCEPT ![c] = [r EXCEPT !.at = next, !.event = "none"]]
           /\ outcome' = [outcome EXCEPT ![c] = "none"]
  BY DEF RunOn
<1>3. \A h \in Hops : Earned(h, health'[h])
  BY <1>1, HalfOpenedEarned
<1>4. HealthInv'
  <2>1. health' \in [Hops -> Health]
    BY <1>1, <1>3 DEF Earned
  <2>. QED  BY <1>3, <2>1 DEF HealthInv, Earned, Health, Hops, Oldest, Closed
<1>5. CASE takers = {}
  <2>1. N \notin Reliable \cap Streaming
    <3>. SUFFICES ASSUME N \in Reliable \cap Streaming PROVE FALSE
      OBVIOUS
    <3>1. N \in from .. N /\ N \in Hops
      BY RouterAssumption DEF Hops
    <3>2. chain[N].age = Closed
      BY <3>1, RouterAssumption DEF Earned
    <3>3. Takes(N, r, chain)
      BY <3>2 DEF Takes, IsOpen
    <3>. QED  BY <3>1, <3>3, <1>5
  <2>2. End(c, "error")
    BY <1>2, <1>5
  <2>. QED  BY <1>4, <2>1, <2>2, EndKeeps DEF RouterInv, Outcomes
<1>6. CASE takers # {}
  <2>1. takers \in SUBSET Hops
    BY DEF Hops
  <2>2. next \in 1 .. N /\ (r.kind = "chat" \/ next \in Streaming)
    <3>1. next = Min(takers)
      BY <1>6
    <3>2. Min(takers) \in takers
      BY <1>6, <2>1, LeastHop
    <3>3. next \in Hops /\ Takes(next, r, chain)
      BY <2>1, <3>1, <3>2
    <3>. QED  BY <3>3 DEF Takes, Hops
  <2>. HIDE DEF next
  <2>. DEFINE called == [r EXCEPT !.at = next, !.event = "none"]
  <2>3. called \in Request /\ called.event = "none" /\ called.at = next /\ called.kind = r.kind
    <3>1. next \in 0 .. N
      BY <2>2, RouterAssumption
    <3>. DEFINE moved == [r EXCEPT !.at = next]
    <3>2. moved \in Request /\ moved.at = next /\ moved.kind = r.kind
      BY <3>1 DEF Request
    <3>3. called = [moved EXCEPT !.event = "none"]
      OBVIOUS
    <3>. HIDE DEF moved, called
    <3>. QED  BY <3>2, <3>3 DEF Request, RequestEvents
  <2>4. request' = [request EXCEPT ![c] = called] /\ outcome' = [outcome EXCEPT ![c] = "none"]
    BY <1>2, <1>6
  <2>. HIDE DEF called
  <2>5. Plausible(called) /\ Safe(called, "none")
    BY <2>2, <2>3 DEF Plausible, Safe, Outcomes
  <2>. QED  BY <1>4, <2>4, <2>5, RequestChanges DEF RouterInv
<1>. QED  BY <1>5, <1>6

\* The outcome of a call is recorded at its hop, and nowhere else.
LEMMA RecordedEarned ==
  ASSUME RouterInv, NEW c \in Clients, InFlight(c)
  PROVE  /\ request[c].at \in Hops
         /\ LET chain == Recorded(c, Succeeded)
            IN chain \in [Hops -> Health] /\ \A h \in Hops : Earned(h, chain[h])
         /\ request[c].at \notin Reliable =>
              LET chain == Recorded(c, Failed)
              IN chain \in [Hops -> Health] /\ \A h \in Hops : Earned(h, chain[h])
<1>1. request[c].at \in Hops
  BY DEF InFlight, RouterInv, RequestInv, Request, Hops
<1>2. Earned(request[c].at, health[request[c].at])
  BY <1>1 DEF RouterInv, HealthInv
<1>. DEFINE up   == Succeeded(health[request[c].at])
            down == Failed(health[request[c].at])
<1>3. Earned(request[c].at, up)
  BY <1>2, SucceededEarned
<1>4. request[c].at \notin Reliable => Earned(request[c].at, down)
  BY <1>2, FailedEarned
<1>5. Recorded(c, Succeeded) = [health EXCEPT ![request[c].at] = up]
      /\ Recorded(c, Failed) = [health EXCEPT ![request[c].at] = down]
  BY DEF Recorded
<1>. HIDE DEF up, down
<1>. QED  BY <1>1, <1>3, <1>4, <1>5 DEF RouterInv, HealthInv, Earned

\* A success is recorded, and its request ends.
LEMMA SuccessKeeps ==
  ASSUME RouterInv, NEW c \in Clients, InFlight(c), health' = Recorded(c, Succeeded), End(c, "ok")
  PROVE  RouterInv'
<1>1. RequestInv'
  BY EndKeeps DEF RouterInv, Outcomes
<1>2. health' \in [Hops -> Health] /\ \A h \in Hops : Earned(h, health'[h])
  BY RecordedEarned
<1>. QED  BY <1>1, <1>2 DEF RouterInv, HealthInv, Earned, Health, Hops, Oldest, Closed

\* A failure is recorded, and the next hop is tried.
LEMMA FailureKeeps ==
  ASSUME RouterInv, NEW c \in Clients, InFlight(c), request[c].at \notin Reliable,
         RunOn(c, request[c], request[c].at + 1, Recorded(c, Failed))
  PROVE  RouterInv'
<1>1. request[c].at \in 1 .. N /\ request[c] \in Request
  BY RecordedEarned DEF Hops, RouterInv, RequestInv
<1>2. request[c].at + 1 \in 1 .. (N + 1) /\ (N \in Reliable => request[c].at + 1 <= N)
  BY <1>1, RouterAssumption
<1>. QED  BY <1>1, <1>2, RecordedEarned, RunOnKeeps

-----------------------------------------------------------------------------
LEMMA RouterInit == Init => RouterInv
<1>. SUFFICES ASSUME Init PROVE RouterInv
  OBVIOUS
<1>1. \A h \in Hops : Earned(h, health[h])
  BY RouterAssumption DEF Init, Earned, Health, Closed, Oldest
<1>2. health \in [Hops -> Health]
  BY RouterAssumption DEF Init, Health, Closed, Oldest
<1>3. NoRequest \in Request /\ NoRequest.event = "none" /\ NoRequest.at = 0
  BY RouterAssumption DEF NoRequest, Request, RequestKinds, RequestEvents
<1>4. \A c \in Clients : Plausible(request[c]) /\ Safe(request[c], outcome[c])
  BY <1>3 DEF Init, Plausible, Safe, Outcomes
<1>5. request \in [Clients -> Request] /\ outcome \in [Clients -> Outcomes]
  BY <1>3 DEF Init, Outcomes
<1>. QED  BY <1>1, <1>2, <1>4, <1>5 DEF RouterInv, HealthInv, RequestInv

\* A request begins: it is not yet suspended anywhere.
LEMMA BeginInv ==
  ASSUME RouterInv, NEW c \in Clients, NEW kind \in RequestKinds, Begin(c, kind) PROVE RouterInv'
<1>. DEFINE r == [NoRequest EXCEPT !.kind = kind]
<1>1. r \in Request
  BY RouterAssumption DEF NoRequest, Request, RequestEvents
<1>2. RunOn(c, r, 1, health)
  BY DEF Begin
<1>3. 1 \in 1 .. (N + 1) /\ 1 <= N
  BY RouterAssumption
<1>. HIDE DEF r
<1>. QED  BY <1>1, <1>2, <1>3, RunOnKeeps DEF RouterInv, HealthInv

\* What a provider or a consumer does.
LEMMA ProceedsInv == ASSUME RouterInv, NEW c \in Clients, Proceeds(c) PROVE RouterInv'
<1>1. CASE CallSucceeds(c)
  BY <1>1, SuccessKeeps DEF CallSucceeds
<1>2. CASE CallFails(c)
  BY <1>2, FailureKeeps DEF CallFails
<1>3. CASE ResumeDone(c)
  BY <1>3, SuccessKeeps DEF ResumeDone
<1>4. CASE ResumeError(c)
  <2>1. request[c].at \notin Reliable
    BY <1>4 DEF ResumeError, RouterInv, RequestInv, Plausible
  <2>. QED  BY <1>4, <2>1, FailureKeeps DEF ResumeError
<1>5. CASE Leaves(c) \/ Disconnects(c)
  <2>1. PICK result \in Outcomes : End(c, result) /\ request[c].kind = "socket" /\ UNCHANGED health
    BY <1>5 DEF Leaves, Disconnects, Outcomes
  <2>2. RequestInv'
    BY <2>1, EndKeeps DEF RouterInv
  <2>. QED  BY <2>1, <2>2 DEF RouterInv, HealthInv, Earned
<1>. QED  BY <1>1, <1>2, <1>3, <1>4, <1>5 DEF Proceeds

\* A stream is suspended at its last event.
LEMMA YieldsInv ==
  ASSUME RouterInv, NEW c \in Clients, NEW event \in {"done", "error"}, Yields(c, event)
  PROVE  RouterInv'
<1>. DEFINE r == [request[c] EXCEPT !.event = event]
<1>1. request[c] \in Request
  BY DEF RouterInv, RequestInv
<1>2. r \in Request /\ r.event = event /\ r.kind = request[c].kind /\ r.at = request[c].at
  BY <1>1 DEF Request, RequestEvents
<1>3. request' = [request EXCEPT ![c] = r] /\ outcome' = [outcome EXCEPT ![c] = outcome[c]]
  BY DEF Yields, RouterInv, RequestInv
<1>. HIDE DEF r
<1>4. Plausible(r)
  BY <1>2 DEF Plausible, Yields, InFlight, RouterInv, RequestInv
<1>5. Safe(r, outcome[c])
  BY <1>2 DEF Safe, RouterInv, RequestInv
<1>. QED  BY <1>3, <1>4, <1>5, RequestChanges DEF RouterInv, Yields, HealthInv, Earned

\* select_for_task, and the clock.
LEMMA SelectInv == ASSUME RouterInv, SelectForTask PROVE RouterInv'
<1>1. \A h \in Hops : health'[h] = HalfOpened(health[h], 0)
  BY DEF SelectForTask
<1>2. \A h \in Hops : Earned(h, health'[h])
  BY <1>1, HalfOpenedEarned DEF RouterInv, HealthInv
<1>3. health' \in [Hops -> Health]
  BY <1>2 DEF SelectForTask, Earned
<1>4. HealthInv'
  BY <1>2, <1>3 DEF HealthInv, Earned, Health, Hops, Oldest, Closed
<1>5. UNCHANGED <<request, outcome>>
  BY DEF SelectForTask
<1>. QED  BY <1>4, <1>5 DEF RouterInv, RequestInv, Plausible, Safe

LEMMA TickInv == ASSUME RouterInv, Tick PROVE RouterInv'
<1>. DEFINE aged(hop)   == [hop EXCEPT !.age = Min({@ + 1, Oldest})]
            lagged(r)   == [r EXCEPT !.lag = @ + 1]
<1>1. ASSUME NEW h \in Hops PROVE Earned(h, health'[h])
  <2>1. health'[h] = IF health[h].age = Closed THEN health[h] ELSE aged(health[h])
    BY DEF Tick
  <2>2. Earned(h, health[h])
    BY DEF RouterInv, HealthInv
  <2>3. health[h].age \in Closed .. Oldest /\ Oldest \in Nat /\ Closed = -1
    BY <2>2, RouterAssumption DEF Earned, Health, Oldest, Closed
  <2>4. CASE health[h].age # Closed
    <3>. DEFINE older == Min({health[h].age + 1, Oldest})
    <3>1. older = IF health[h].age + 1 <= Oldest THEN health[h].age + 1 ELSE Oldest
      BY <2>3, MinOfTwo
    <3>2. older \in Closed .. Oldest
      BY <2>3, <2>4, <3>1
    <3>3. health'[h] = [health[h] EXCEPT !.age = older]
      BY <2>1, <2>4
    <3>. HIDE DEF older
    <3>. QED  BY <2>2, <2>4, <3>2, <3>3 DEF Earned, Health
  <2>. QED  BY <2>1, <2>2, <2>4
<1>2. health' \in [Hops -> Health]
  BY <1>1 DEF Tick, Earned
<1>3. HealthInv'
  BY <1>1, <1>2 DEF HealthInv, Earned, Health, Hops, Oldest, Closed
<1>4. ASSUME NEW c \in Clients PROVE Plausible(request'[c]) /\ Safe(request'[c], outcome[c])
  <2>1. request'[c] = IF InFlight(c) THEN lagged(request[c]) ELSE request[c]
    BY DEF Tick
  <2>2. Plausible(request[c]) /\ Safe(request[c], outcome[c]) /\ request[c] \in Request
    BY DEF RouterInv, RequestInv
  <2>3. CASE InFlight(c)
    <3>1. request[c].lag + 1 \in 0 .. MaxLag
      BY <2>2, <2>3, RouterAssumption DEF Tick, Request
    <3>2. lagged(request[c]) \in Request /\ lagged(request[c]).kind = request[c].kind
          /\ lagged(request[c]).at = request[c].at /\ lagged(request[c]).event = request[c].event
      BY <2>2, <3>1 DEF Request
    <3>. HIDE DEF lagged
    <3>. QED  BY <2>1, <2>2, <2>3, <3>2 DEF Plausible, Safe
  <2>. QED  BY <2>1, <2>2, <2>3
<1>5. request' \in [Clients -> Request]
  BY <1>4 DEF Tick, Plausible
<1>6. outcome' = outcome
  BY DEF Tick
<1>7. RequestInv'
  BY <1>4, <1>5, <1>6 DEF RouterInv, RequestInv, Plausible, Safe, Request, RequestKinds,
       RequestEvents, Outcomes
<1>. QED  BY <1>3, <1>7 DEF RouterInv

\* Every step keeps the invariant.
LEMMA RouterStep == RouterInv /\ [Next]_vars => RouterInv'
<1>. SUFFICES ASSUME RouterInv, [Next]_vars PROVE RouterInv'
  OBVIOUS
<1>1. CASE Begins
  BY <1>1, BeginInv DEF Begins
<1>2. CASE \E c \in Clients : Proceeds(c)
  BY <1>2, ProceedsInv
<1>3. CASE \E c \in Clients, event \in {"done", "error"} : Yields(c, event)
  BY <1>3, YieldsInv
<1>4. CASE SelectForTask
  BY <1>4, SelectInv
<1>5. CASE Tick
  BY <1>5, TickInv
<1>6. CASE UNCHANGED vars
  BY <1>6 DEF vars, RouterInv, HealthInv, RequestInv, Earned, Plausible, Safe
<1>. QED  BY <1>1, <1>2, <1>3, <1>4, <1>5, <1>6 DEF Next

LEMMA RouterInvariant == Spec => []RouterInv
BY RouterInit, RouterStep, PTL DEF Spec

LEMMA RouterTypes == RouterInv => TypeOK
BY DEF RouterInv, HealthInv, RequestInv, TypeOK, Plausible, Safe

LEMMA RouterEarns == RouterInv => OpenIsEarned
BY DEF RouterInv, HealthInv, Earned, OpenIsEarned

LEMMA RouterCatches == RouterInv => SafetyNet
BY DEF RouterInv, RequestInv, Safe, SafetyNet

-----------------------------------------------------------------------------
\* The variables keep their types, and only streams of hops that stream are
\* suspended at an event.
THEOREM TypeHolds == Spec => []TypeOK
BY RouterInvariant, RouterTypes, PTL

\* An open circuit has its threshold of unforgiven failures; a reliable
\* provider has none.
THEOREM OpeningsAreEarned == Spec => []OpenIsEarned
BY RouterInvariant, RouterEarns, PTL

\* On a chain that ends with a reliable provider, no chat and no stream that is
\* read to its end fails.
THEOREM NetHolds == Spec => []SafetyNet
BY RouterInvariant, RouterCatches, PTL

\* The hop the loop calls next was closed, or open for its cooldown.
LEMMA RunOnSpares ==
  ASSUME NEW c \in Clients, NEW r \in Request, NEW from \in 1 .. (N + 1),
         request \in [Clients -> Request], NEW chain \in [Hops -> Health],
         RunOn(c, r, from, chain),
         NEW d \in Clients, NEW h \in Hops, request'[d].at = h, request[d].at # h
  PROVE  d = c /\ h >= from /\ (chain[h].age = Closed \/ chain[h].age >= Cooldown)
<1>. DEFINE takers == {k \in from .. N : Takes(k, r, chain)}
            next   == IF takers = {} THEN N ELSE Min(takers)
<1>1. CASE takers = {}
  <2>1. request' = [request EXCEPT ![c] = [NoRequest EXCEPT !.kind = request[c].kind]]
    BY <1>1 DEF RunOn, End
  <2>2. request'[c].at = 0
    BY <2>1 DEF NoRequest
  <2>. QED  BY <2>1, <2>2 DEF Hops
<1>2. CASE takers # {}
  <2>1. request' = [request EXCEPT ![c] = [r EXCEPT !.at = next, !.event = "none"]]
    BY <1>2 DEF RunOn
  <2>2. takers \in SUBSET Hops
    BY DEF Hops
  <2>3. next \in takers
    BY <1>2, <2>2, LeastHop
  <2>. HIDE DEF next
  <2>. DEFINE moved == [r EXCEPT !.at = next]
  <2>4. moved.at = next
    BY DEF Request
  <2>5. request' = [request EXCEPT ![c] = [moved EXCEPT !.event = "none"]]
    BY <2>1
  <2>. HIDE DEF moved
  <2>6. d = c
    BY <2>5
  <2>7. h = next
    BY <2>4, <2>5, <2>6
  <2>8. h \in from .. N /\ ~ IsOpen(chain[h], r.lag)
    BY <2>3, <2>7 DEF Takes
  <2>9. chain[h] \in Health /\ r.lag \in 0 .. MaxLag
    BY DEF Request
  <2>10. chain[h].age = Closed \/ chain[h].age - r.lag >= Cooldown
    BY <2>8 DEF IsOpen, Elapsed
  <2>11. chain[h].age \in Int
    BY <2>9, RouterAssumption DEF Health, Closed, Oldest
  <2>. QED  BY <2>6, <2>8, <2>9, <2>10, <2>11, RouterAssumption
<1>. QED  BY <1>1, <1>2

\* A broken provider gets no new call before its cooldown has elapsed, however
\* old the reading of the clock a request decides with.
THEOREM BreakerHolds == Spec => BrokenGetsNoCall
<1>. DEFINE Spared(c, h) ==
       request'[c].at = h /\ request[c].at # h =>
         health[h].age = Closed \/ health[h].age >= Cooldown
<1>1. RouterInv /\ [Next]_vars => [\A c \in Clients : \A h \in Hops : Spared(c, h)]_vars
  <2>. SUFFICES ASSUME RouterInv, Next, NEW d \in Clients, NEW h \in Hops,
                       request'[d].at = h, request[d].at # h
                PROVE  health[h].age = Closed \/ health[h].age >= Cooldown
    OBVIOUS
  <2>0. request \in [Clients -> Request] /\ health \in [Hops -> Health]
    BY DEF RouterInv, RequestInv, HealthInv
  <2>1. CASE Begins
    <3>1. PICK c \in Clients, kind \in RequestKinds : Begin(c, kind)
      BY <2>1 DEF Begins
    <3>. DEFINE r == [NoRequest EXCEPT !.kind = kind]
    <3>2. r \in Request
      BY RouterAssumption DEF NoRequest, Request, RequestEvents
    <3>3. RunOn(c, r, 1, health) /\ 1 \in 1 .. (N + 1)
      BY <3>1, RouterAssumption DEF Begin
    <3>. HIDE DEF r
    <3>. QED  BY <2>0, <3>2, <3>3, RunOnSpares
  <2>2. ASSUME NEW c \in Clients, InFlight(c),
               RunOn(c, request[c], request[c].at + 1, Recorded(c, Failed)),
               request[c].at \notin Reliable
        PROVE  health[h].age = Closed \/ health[h].age >= Cooldown
    <3>1. request[c].at \in 1 .. N /\ request[c] \in Request
      BY <2>0, <2>2, RecordedEarned DEF Hops
    <3>. DEFINE chain == Recorded(c, Failed)
    <3>2. chain \in [Hops -> Health] /\ request[c].at + 1 \in 1 .. (N + 1)
      BY <2>2, <3>1, RecordedEarned, RouterAssumption
    <3>. DEFINE down == Failed(health[request[c].at])
    <3>3. chain = [health EXCEPT ![request[c].at] = down]
      BY DEF Recorded
    <3>. HIDE DEF chain, down
    <3>4. h >= request[c].at + 1 /\ (chain[h].age = Closed \/ chain[h].age >= Cooldown)
      BY <2>0, <2>2, <3>1, <3>2, RunOnSpares DEF chain
    <3>5. h # request[c].at
      BY <3>1, <3>4
    <3>. QED  BY <2>0, <3>3, <3>4, <3>5
  <2>3. CASE \E c \in Clients : Proceeds(c)
    <3>1. PICK c \in Clients : Proceeds(c)
      BY <2>3
    <3>2. CASE CallFails(c)
      BY <2>2, <3>2 DEF CallFails
    <3>3. CASE ResumeError(c)
      <4>1. request[c].at \notin Reliable
        BY <3>3 DEF ResumeError, RouterInv, RequestInv, Plausible
      <4>. QED  BY <2>2, <3>3, <4>1 DEF ResumeError
    <3>4. CASE \E result \in Outcomes : End(c, result)
      <4>1. request' = [request EXCEPT ![c] = [NoRequest EXCEPT !.kind = request[c].kind]]
        BY <3>4 DEF End
      <4>2. request'[c].at = 0
        BY <2>0, <4>1 DEF NoRequest
      <4>. QED  BY <2>0, <4>1, <4>2 DEF Hops
    <3>. QED  BY <3>1, <3>2, <3>3, <3>4
         DEF Proceeds, CallSucceeds, ResumeDone, Leaves, Disconnects, Outcomes
  <2>4. CASE \E c \in Clients, event \in {"done", "error"} : Yields(c, event)
    <3>1. PICK c \in Clients, event \in {"done", "error"} : Yields(c, event)
      BY <2>4
    <3>2. request' = [request EXCEPT ![c].event = event]
      BY <3>1 DEF Yields
    <3>3. request'[d].at = request[d].at
      BY <2>0, <3>2 DEF Request
    <3>. QED  BY <3>3
  <2>5. CASE SelectForTask
    BY <2>5 DEF SelectForTask
  <2>6. CASE Tick
    <3>1. request'[d] = IF InFlight(d) THEN [request[d] EXCEPT !.lag = @ + 1] ELSE request[d]
      BY <2>6 DEF Tick
    <3>2. request'[d].at = request[d].at
      BY <2>0, <3>1 DEF Request
    <3>. QED  BY <3>2
  <2>. QED  BY <2>1, <2>3, <2>4, <2>5, <2>6 DEF Next
<1>. QED  BY <1>1, RouterInvariant, PTL DEF Spec, BrokenGetsNoCall
=============================================================================
