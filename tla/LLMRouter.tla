----------------------------- MODULE LLMRouter -----------------------------
(***************************************************************************)
(* LLMRouter (llm/router.py): an ordered chain of providers, a circuit     *)
(* breaker per provider, and clients whose requests interleave at every    *)
(* await and at every yield of a stream.                                   *)
(*                                                                         *)
(* Time is relative.  The router compares a clock only with opened_at, so  *)
(* the state holds the AGE of an opening; and a request reads the clock    *)
(* once, so the state holds how far that reading LAGS behind the clock.    *)
(***************************************************************************)
EXTENDS Integers, FiniteSetsExt

CONSTANTS
  Clients,    \* tasks sharing the router
  N,          \* length of the chain
  Streaming,  \* hops whose capabilities support streaming
  Reliable,   \* hops that always answer: MockLLMClient
  Threshold,  \* failure_threshold
  Cooldown,   \* cooldown_seconds, in ticks
  MaxLag      \* bound: ticks a request may last before its call times out

Hops   == 1 .. N
Closed == -1                \* opened_at is None
Oldest == Cooldown + MaxLag \* ages beyond it are not told apart

ASSUME RouterAssumption ==
  /\ N \in Nat \ {0} /\ Threshold \in Nat \ {0} /\ Cooldown \in Nat \ {0} /\ MaxLag \in Nat
  /\ Streaming \subseteq Hops /\ Reliable \subseteq Hops

\* A request is a chat(), a stream read to its end, or a stream its consumer
\* leaves at the first "done" or "error": the WebSocket route.
RequestKinds == {"chat", "drained", "socket"}
RequestEvents == {"none", "done", "error"}
Outcomes == {"none", "ok", "error", "left"}

VARIABLES
  health,   \* per hop: consecutive failures (capped) and age of the opening
  request,  \* per client: kind, hop being called (0: none), lag of its clock
            \* reading, the event its stream is suspended at
  outcome   \* per client: what its last request ended with

vars == <<health, request, outcome>>

NoRequest == [kind |-> "chat", at |-> 0, lag |-> 0, event |-> "none"]

Init ==
  /\ health  = [h \in Hops |-> [failures |-> 0, age |-> Closed]]
  /\ request = [c \in Clients |-> NoRequest]
  /\ outcome = [c \in Clients |-> "none"]

InFlight(c) == request[c].at # 0

-----------------------------------------------------------------------------
(* The breaker *)

\* The cooldown has elapsed, by a clock reading that lags.
Elapsed(hop, lag) == hop.age # Closed /\ hop.age - lag >= Cooldown
IsOpen(hop, lag)  == hop.age # Closed /\ ~ Elapsed(hop, lag)

\* Mutant: the elapsed opening is left in place.
StaysOpened(hop, lag) == hop

\* _is_open clears an opening whose cooldown has elapsed: one more failure, on
\* top of those it keeps, opens the circuit again.
HalfOpened(hop, lag) == IF Elapsed(hop, lag) THEN [hop EXCEPT !.age = Closed] ELSE hop

\* Mutant: a success clears the failures and not the opening.
SucceededStillOpen(hop) == [hop EXCEPT !.failures = 0]

Succeeded(hop) == [hop EXCEPT !.failures = 0, !.age = Closed]

\* A failure opens a closed circuit; an open one keeps its opening time.
Failed(hop) ==
  LET failures == Min({hop.failures + 1, Threshold})
  IN [failures |-> failures,
      age |-> IF failures >= Threshold /\ hop.age = Closed THEN 0 ELSE hop.age]

-----------------------------------------------------------------------------
(* The loop over the hops *)

End(c, result) ==
  /\ request' = [request EXCEPT ![c] = [NoRequest EXCEPT !.kind = request[c].kind]]
  /\ outcome' = [outcome EXCEPT ![c] = result]

\* Mutant: an open circuit counts as a hop to call.
TakesBroken(h, r, chain) == r.kind = "chat" \/ h \in Streaming

\* Mutant: a stream is asked of a provider that cannot stream.
TakesAny(h, r, chain) == ~ IsOpen(chain[h], r.lag)

\* Is hop h called by a request, rather than skipped?
Takes(h, r, chain) ==
  /\ ~ IsOpen(chain[h], r.lag)
  /\ r.kind = "chat" \/ h \in Streaming

\* The loop runs on from hop `from`, up to the call of the first hop it takes;
\* every hop it looks at may half-open.  No hop left: the request fails.
RunOn(c, r, from, chain) ==
  LET takers == {h \in from .. N : Takes(h, r, chain)}
      next   == IF takers = {} THEN N ELSE Min(takers)
  IN /\ health' = [h \in Hops |-> IF h \in from .. next THEN HalfOpened(chain[h], r.lag)
                                  ELSE chain[h]]
     /\ IF takers = {} THEN End(c, "error")
        ELSE /\ request' = [request EXCEPT ![c] = [r EXCEPT !.at = next, !.event = "none"]]
             /\ outcome' = [outcome EXCEPT ![c] = "none"]

\* chat() or chat_stream() is called: the clock is read, once.
Begin(c, kind) ==
  /\ ~ InFlight(c)
  /\ RunOn(c, [NoRequest EXCEPT !.kind = kind], 1, health)

\* The health after the outcome of c's call is recorded.
Recorded(c, Outcome(_)) == [health EXCEPT ![request[c].at] = Outcome(@)]

\* The provider answered; or its stream ended without a last event.
CallSucceeds(c) ==
  /\ InFlight(c) /\ request[c].event = "none"
  /\ health' = Recorded(c, Succeeded)
  /\ End(c, "ok")

\* The provider raised, or its answer was empty.
CallFails(c) ==
  /\ InFlight(c) /\ request[c].event = "none" /\ request[c].at \notin Reliable
  /\ RunOn(c, request[c], request[c].at + 1, Recorded(c, Failed))

-----------------------------------------------------------------------------
(* Streams *)

\* The generator yields the provider's last event, and is suspended there.
\* What follows the yield runs only if the consumer asks for more.
Yields(c, event) ==
  /\ InFlight(c) /\ request[c].kind # "chat" /\ request[c].event = "none"
  /\ event = "error" => request[c].at \notin Reliable
  /\ request' = [request EXCEPT ![c].event = event]
  /\ UNCHANGED <<health, outcome>>

\* The consumer asks for more after "done": the success is recorded.
ResumeDone(c) ==
  /\ InFlight(c) /\ request[c].kind = "drained" /\ request[c].event = "done"
  /\ health' = Recorded(c, Succeeded)
  /\ End(c, "ok")

\* Mutant: "return" for "break".
ResumeErrorReturns(c) ==
  /\ InFlight(c) /\ request[c].kind = "drained" /\ request[c].event = "error"
  /\ health' = Recorded(c, Failed)
  /\ End(c, "error")

\* ... after "error": the failure is recorded, and the next hop is tried.
ResumeError(c) ==
  /\ InFlight(c) /\ request[c].kind = "drained" /\ request[c].event = "error"
  /\ RunOn(c, request[c], request[c].at + 1, Recorded(c, Failed))

\* The socket's consumer leaves its loop: the generator never runs again.
Leaves(c) ==
  /\ InFlight(c) /\ request[c].kind = "socket" /\ request[c].event # "none"
  /\ End(c, IF request[c].event = "done" THEN "ok" ELSE "error")
  /\ UNCHANGED health

\* The socket is gone while the stream is read.
Disconnects(c) ==
  /\ InFlight(c) /\ request[c].kind = "socket"
  /\ End(c, "left")
  /\ UNCHANGED health

-----------------------------------------------------------------------------
\* select_for_task calls nothing, but half-opens every elapsed circuit.
SelectForTask ==
  /\ health' = [h \in Hops |-> HalfOpened(health[h], 0)]
  /\ UNCHANGED <<request, outcome>>

\* The clock advances, while no call has reached its timeout.
Tick ==
  /\ \A c \in Clients : InFlight(c) => request[c].lag < MaxLag
  /\ health' = [h \in Hops |-> IF health[h].age = Closed THEN health[h]
                               ELSE [health[h] EXCEPT !.age = Min({@ + 1, Oldest})]]
  /\ request' = [c \in Clients |-> IF InFlight(c) THEN [request[c] EXCEPT !.lag = @ + 1]
                                   ELSE request[c]]
  /\ UNCHANGED outcome

\* What ends the wait of a request: its provider, or its consumer.
Proceeds(c) ==
  \/ CallSucceeds(c) \/ CallFails(c)
  \/ ResumeDone(c) \/ ResumeError(c) \/ Leaves(c) \/ Disconnects(c)

Begins == \E c \in Clients, kind \in RequestKinds : Begin(c, kind)

Next ==
  \/ Begins
  \/ \E c \in Clients : Proceeds(c) \/ \E event \in {"done", "error"} : Yields(c, event)
  \/ SelectForTask
  \/ Tick

\* The clock advances; provider calls time out and sockets are read or dropped.
Fairness == WF_vars(Tick) /\ \A c \in Clients : WF_vars(Proceeds(c))

Spec == Init /\ [][Next]_vars /\ Fairness

-----------------------------------------------------------------------------
(* Properties *)

Health  == [failures : 0 .. Threshold, age : Closed .. Oldest]
Request == [kind : RequestKinds, at : 0 .. N, lag : 0 .. MaxLag, event : RequestEvents]

\* Types of the variables; only streams, and of hops that stream, are suspended
\* at an event.
TypeOK ==
  /\ health  \in [Hops -> Health]
  /\ request \in [Clients -> Request]
  /\ outcome \in [Clients -> Outcomes]
  /\ \A c \in Clients : request[c].event # "none" =>
       request[c].kind # "chat" /\ request[c].at \in Streaming

\* An open circuit has its threshold of failures, none of them forgiven by a
\* success since, and reliable providers are never broken.
OpenIsEarned ==
  \A h \in Hops : /\ health[h].age # Closed => health[h].failures = Threshold
                  /\ h \in Reliable => health[h].failures = 0

\* The breaker's promise: a broken provider gets no new call until its cooldown
\* has elapsed by the clock, however stale the reading a request decides with.
BrokenGetsNoCall ==
  [][\A c \in Clients : \A h \in Hops :
       request'[c].at = h /\ request[c].at # h =>
         health[h].age = Closed \/ health[h].age >= Cooldown]_vars

\* "The mock hop is a last-resort guarantee": a chat, or a stream that is read
\* to its end, succeeds on any chain that ends with a reliable provider.
SafetyNet ==
  N \in Reliable \cap Streaming =>
    \A c \in Clients : request[c].kind # "socket" => outcome[c] # "error"

\* A broken primary is tried again: if requests keep coming, its circuit closes.
PrimaryTriedAgain ==
  []<><<Begins>>_vars => (health[1].age # Closed ~> health[1].age = Closed)

=============================================================================
