---------------------------- MODULE RateLimiter ----------------------------
(***************************************************************************)
(* The sliding-window limiter (api/middleware.py): per client address the  *)
(* times of its admitted requests, pruned by two rules: a list whose last  *)
(* time is too old is dropped, and what is too old in a list is.  The      *)
(* clock does not run backwards; one decision is not suspended.            *)
(***************************************************************************)
EXTENDS Integers, Sequences, SequencesExt

CONSTANTS
  Addresses,     \* what _client_ip tells apart
  MaxRequests,   \* max_requests
  Window,        \* window_seconds
  MaxClock       \* bound: the clock

ASSUME LimiterAssumption ==
  MaxRequests \in Nat \ {0} /\ Window \in Nat \ {0} /\ MaxClock \in Nat

VARIABLES
  clock,
  window,      \* _window: times by address, for some addresses
  admitted     \* history variable: by address, when the requests of the last Window
               \* seconds were admitted

limiterVars == <<clock, window, admitted>>

InitLimiter ==
  /\ clock = 0
  /\ window = [a \in {} |-> <<>>]
  /\ admitted = [a \in Addresses |-> <<>>]

\* What is later than cutoff, in its order.
Since(times, cutoff) ==
  LET kept[n \in 0 .. Len(times)] ==
        IF n = 0 THEN <<>>
        ELSE IF times[n] > cutoff THEN Append(kept[n - 1], times[n]) ELSE kept[n - 1]
  IN kept[Len(times)]

Ticks ==
  /\ clock < MaxClock
  /\ clock' = clock + 1
  /\ admitted' = [a \in Addresses |-> Since(admitted[a], clock' - Window)]
  /\ UNCHANGED window

\* Mutant: a list is dropped when its first time is too old.
CleanWindowFirst ==
  [a \in {b \in DOMAIN window : window[b] = <<>> \/ window[b][1] >= clock - Window}
     |-> window[a]]

\* _clean_window, for every address.
CleanWindow ==
  [a \in {b \in DOMAIN window : window[b] = <<>> \/ Last(window[b]) >= clock - Window}
     |-> window[a]]

\* The list of an address, created when there is none, without its old times.
Timestamps(a) ==
  Since(IF a \in DOMAIN CleanWindow THEN CleanWindow[a] ELSE <<>>, clock - Window)

Stores(a, times) ==
  window' = [b \in DOMAIN CleanWindow \cup {a} |-> IF b = a THEN times ELSE CleanWindow[b]]

\* What the limit is meant to be, whatever is pruned from the lists.
BelowLimit(a) == Len(admitted[a]) < MaxRequests

\* A refused request is not recorded.
Refuses(a) ==
  /\ Len(Timestamps(a)) >= MaxRequests
  /\ Stores(a, Timestamps(a))
  /\ UNCHANGED <<clock, admitted>>

Records(a) ==
  /\ Len(Timestamps(a)) < MaxRequests
  /\ Stores(a, Append(Timestamps(a), clock))
  /\ admitted' = [admitted EXCEPT ![a] = Append(@, clock)]
  /\ UNCHANGED clock

LimiterRestarts ==
  /\ window' = [a \in {} |-> <<>>]
  /\ admitted' = [a \in Addresses |-> <<>>]
  /\ UNCHANGED clock
=============================================================================
