------------------------- MODULE TaskServiceProofs -------------------------
(***************************************************************************)
(* Proofs about the queued goals, for any number of goals, workers,        *)
(* retries, deaths and restarts.                                           *)
(***************************************************************************)
EXTENDS TaskService, FiniteSetTheorems, TLAPS

QueueTyped ==
  /\ broker \in [Messages -> Nat]
  /\ held \in [Workers -> Messages \cup {NoMessage}]
  /\ stage \in [Workers -> {"idle", "running", "acking"}]
  /\ \A w \in Workers : stage[w] # "idle" => held[w] \in Messages

GoalsTyped ==
  /\ post \in [Submissions -> {"idle", "running", "saving", "done"}]
  /\ answer \in [Submissions -> {"none", "queued", "task", "error", "lost"}]
  /\ result \in [Submissions -> {"none", "success", "failure"}]
  /\ runs \in [Submissions -> Nat]

Typed == QueueTyped /\ GoalsTyped

\* A message that is being acknowledged carries nothing any more: its job has a
\* result or a message of its own.
Running(s) == \E w \in Workers : stage[w] = "running" /\ held[w].job = s
Carried(s) == result[s] # "none" \/ InBroker(s) \/ Running(s)
JobsCarried == \A s \in Submissions : answer[s] = "queued" => Carried(s)

\* While nothing went wrong with a goal, it is in one place only: not yet
\* posted, or in one copy of its first message, or run.
Untroubled(s) ==
  /\ runs[s] <= 1
  /\ post[s] = "idle" => runs[s] = 0
  /\ \A m \in Messages : m.job = s /\ broker[m] > 0 =>
       broker[m] = 1 /\ m = First(s) /\ runs[s] = 0 /\ post[s] # "idle"
GoalsOnce == \A s \in Submissions : s \notin trouble => Untroubled(s)

ServiceInv == Typed /\ JobsCarried /\ GoalsOnce

\* The message a goal is first queued as, and the one of a retry.
LEMMA MessageTypes ==
  /\ \A s \in Submissions : First(s) \in Messages /\ First(s).job = s
  /\ \A m \in Messages : /\ m.job \in Submissions /\ m.retries \in 0 .. MaxRetries
                         /\ m.retries < MaxRetries =>
                              /\ [m EXCEPT !.retries = @ + 1] \in Messages
                              /\ [m EXCEPT !.retries = @ + 1].job = m.job
BY ServiceAssumption DEF First, Messages

\* The invariant holds at the start.
LEMMA ServiceInit == Init => ServiceInv
<1>. SUFFICES ASSUME Init PROVE ServiceInv
  OBVIOUS
<1>1. Typed
  BY DEF Init, Typed, QueueTyped, GoalsTyped
<1>2. JobsCarried
  BY DEF Init, JobsCarried
<1>3. GoalsOnce
  BY DEF Init, GoalsOnce, Untroubled
<1>. QED  BY <1>1, <1>2, <1>3 DEF ServiceInv

\* A step of the POST handler keeps it.
LEMMA HandlesInv == ASSUME ServiceInv, NEW s \in Submissions, Handles(s) PROVE ServiceInv'
<1>. USE DEF ServiceInv, Typed
<1>1. CASE Queued(s)
  <2>. USE <1>1, MessageTypes DEF Queued, Enqueued, Answer, postVars, workerVars, counters
  <2>1. Typed'
    BY DEF QueueTyped, GoalsTyped
  <2>2. broker'[First(s)] > 0
    BY DEF QueueTyped
  <2>3. JobsCarried'
    BY <2>2 DEF JobsCarried, Carried, InBroker, Running, QueueTyped, GoalsTyped
  <2>4. GoalsOnce'
    BY DEF GoalsOnce, Untroubled, QueueTyped, GoalsTyped
  <2>. QED  BY <2>1, <2>3, <2>4
<1>2. CASE FallsBack(s)
  <2>. USE <1>2, MessageTypes DEF FallsBack, Enqueued, RunInline, workerVars, counters
  <2>1. Typed'
    BY DEF QueueTyped, GoalsTyped
  <2>2. \A t \in Submissions : InBroker(t) => InBroker(t)'
    BY DEF InBroker, QueueTyped
  <2>3. JobsCarried'
    BY <2>2 DEF JobsCarried, Carried, Running
  <2>4. GoalsOnce'
    BY DEF GoalsOnce, Untroubled, QueueTyped, GoalsTyped
  <2>. QED  BY <2>1, <2>3, <2>4
<1>3. CASE InlineReturns(s) \/ InlineRaises(s) \/ SaveEnds(s)
  <2>. USE <1>3 DEF InlineReturns, InlineRaises, SaveEnds, Answer, workerVars, counters
  <2>1. /\ UNCHANGED <<workerVars, broker, result, runs, trouble>>
        /\ post[s] # "idle"
        /\ \E p \in {"saving", "done"} : post' = [post EXCEPT ![s] = p]
        /\ answer' = answer \/ \E a \in {"task", "error"} : answer' = [answer EXCEPT ![s] = a]
    OBVIOUS
  <2>. QED  BY <2>1 DEF QueueTyped, GoalsTyped, JobsCarried, Carried, InBroker, Running, GoalsOnce, Untroubled, workerVars
<1>. QED  BY <1>1, <1>2, <1>3 DEF Handles

\* A delivery keeps it: the goal is run where it was carried.
LEMMA DeliversInv == ASSUME ServiceInv, NEW w \in Workers, Delivers(w) PROVE ServiceInv'
<1>. USE MessageTypes DEF ServiceInv, Typed, postVars, counters
<1>1. PICK m \in Messages :
        /\ broker[m] > 0
        /\ broker' = [broker EXCEPT ![m] = @ - 1]
        /\ held' = [held EXCEPT ![w] = m]
        /\ runs' = [runs EXCEPT ![m.job] = @ + 1]
  BY DEF Delivers
<1>2. /\ stage[w] = "idle" /\ stage' = [stage EXCEPT ![w] = "running"]
      /\ UNCHANGED <<post, answer, result, trouble>>
  BY DEF Delivers
<1>0. m.job \in Submissions
  OBVIOUS
<1>3. QueueTyped'
  BY <1>1, <1>2 DEF QueueTyped
<1>4. GoalsTyped'
  BY <1>0, <1>1, <1>2 DEF GoalsTyped
<1>5. \A s \in Submissions : Running(s) => Running(s)'
  BY <1>1, <1>2 DEF Running, QueueTyped
<1>6. \A s \in Submissions : InBroker(s) => InBroker(s)' \/ Running(s)'
  <2>. SUFFICES ASSUME NEW s \in Submissions, InBroker(s) PROVE InBroker(s)' \/ Running(s)'
    OBVIOUS
  <2>1. PICK n \in Messages : n.job = s /\ broker[n] > 0
    BY DEF InBroker
  <2>2. CASE n = m
    BY <2>1, <2>2, <1>1, <1>2 DEF Running, QueueTyped
  <2>3. CASE n # m
    BY <2>1, <2>3, <1>1 DEF InBroker, QueueTyped
  <2>. QED  BY <2>2, <2>3
<1>7. JobsCarried'
  BY <1>2, <1>5, <1>6 DEF JobsCarried, Carried
<1>8. GoalsOnce'
  BY <1>1, <1>2 DEF GoalsOnce, Untroubled, QueueTyped, GoalsTyped
<1>. QED  BY <1>3, <1>4, <1>7, <1>8

\* So does a step of a worker that runs, and its death.
LEMMA WorksInv == ASSUME ServiceInv, NEW w \in Workers, Works(w) \/ Dies(w) PROVE ServiceInv'
<1>. USE MessageTypes DEF ServiceInv, Typed, postVars, counters
<1>1. CASE RunReturns(w)
  <2>. USE <1>1 DEF RunReturns
  <2>0. stage[w] # "idle"
    OBVIOUS
  <2>1. held[w] \in Messages /\ held[w].job \in Submissions
    BY <2>0 DEF QueueTyped
  <2>2. QueueTyped' /\ GoalsTyped'
    BY <2>1 DEF QueueTyped, GoalsTyped
  <2>3. \A s \in Submissions : Carried(s) => Carried(s)'
    BY <2>1 DEF Carried, InBroker, Running, GoalsTyped, QueueTyped
  <2>4. JobsCarried' /\ GoalsOnce'
    BY <2>3 DEF JobsCarried, GoalsOnce, Untroubled
  <2>. QED  BY <2>2, <2>4
<1>2. CASE RunRaises(w)
  <2>. USE <1>2 DEF RunRaises, Enqueued
  <2>0. stage[w] # "idle"
    OBVIOUS
  <2>1. held[w] \in Messages /\ held[w].job \in Submissions
    BY <2>0 DEF QueueTyped
  <2>2. QueueTyped' /\ GoalsTyped' /\ Carried(held[w].job)'
    <3>1. CASE held[w].retries < MaxRetries
      <4>1. PICK n \in Messages : n.job = held[w].job /\ broker' = [broker EXCEPT ![n] = @ + 1]
        BY <2>1, <3>1
      <4>2. QueueTyped' /\ broker'[n] > 0
        BY <4>1 DEF QueueTyped
      <4>3. GoalsTyped'
        BY <3>1 DEF GoalsTyped
      <4>4. InBroker(held[w].job)'
        BY <4>1, <4>2 DEF InBroker
      <4>. QED  BY <4>2, <4>3, <4>4 DEF Carried
    <3>2. CASE ~ (held[w].retries < MaxRetries)
      BY <2>1, <3>2 DEF QueueTyped, GoalsTyped, Carried
    <3>. QED  BY <3>1, <3>2
  <2>4. \A s \in Submissions : s # held[w].job /\ Carried(s) => Carried(s)'
    <3>1. \A m \in Messages : broker[m] > 0 => broker'[m] > 0
      BY <2>1 DEF QueueTyped
    <3>2. \A s \in Submissions : s # held[w].job => result'[s] = result[s]
      BY <2>1 DEF GoalsTyped
    <3>. QED  BY <2>1, <3>1, <3>2 DEF Carried, InBroker, Running, GoalsTyped, QueueTyped
  <2>5. JobsCarried'
    BY <2>2, <2>4 DEF JobsCarried
  <2>6. GoalsOnce'
    <3>. SUFFICES ASSUME NEW s \in Submissions, s \notin trouble' PROVE Untroubled(s)'
      BY DEF GoalsOnce
    <3>1. s # held[w].job /\ s \notin trouble
      OBVIOUS
    <3>2. \A m \in Messages : m.job = s => broker'[m] = broker[m]
      BY <2>1, <3>1 DEF QueueTyped
    <3>. QED  BY <3>1, <3>2 DEF GoalsOnce, Untroubled
  <2>. QED  BY <2>2, <2>5, <2>6
<1>3. CASE Acknowledges(w)
  <2>. USE <1>3 DEF Acknowledges
  <2>1. QueueTyped' /\ GoalsTyped'
    BY DEF QueueTyped, GoalsTyped
  <2>2. \A s \in Submissions : Carried(s) => Carried(s)'
    BY DEF Carried, InBroker, Running, QueueTyped
  <2>3. JobsCarried' /\ GoalsOnce'
    BY <2>2 DEF JobsCarried, GoalsOnce, Untroubled
  <2>. QED  BY <2>1, <2>3
<1>4. CASE Dies(w)
  <2>. USE <1>4 DEF Dies, Enqueued
  <2>1. held[w] \in Messages /\ held[w].job \in Submissions
    BY DEF QueueTyped
  <2>2. QueueTyped' /\ GoalsTyped'
    BY <2>1 DEF QueueTyped, GoalsTyped
  <2>3. \A m \in Messages : broker[m] > 0 => broker'[m] > 0
    BY <2>1 DEF QueueTyped
  <2>4. broker'[held[w]] > 0
    BY <2>1 DEF QueueTyped
  <2>5. \A s \in Submissions : Carried(s) => Carried(s)'
    BY <2>1, <2>3, <2>4 DEF Carried, InBroker, Running, QueueTyped
  <2>6. GoalsOnce'
    <3>. SUFFICES ASSUME NEW s \in Submissions, s \notin trouble' PROVE Untroubled(s)'
      BY DEF GoalsOnce
    <3>1. s # held[w].job /\ s \notin trouble
      OBVIOUS
    <3>2. \A m \in Messages : m.job = s => broker'[m] = broker[m]
      BY <2>1, <3>1 DEF QueueTyped
    <3>. QED  BY <3>1, <3>2 DEF GoalsOnce, Untroubled
  <2>7. JobsCarried'
    BY <2>5 DEF JobsCarried
  <2>. QED  BY <2>2, <2>6, <2>7
<1>. QED  BY <1>1, <1>2, <1>3, <1>4 DEF Works

\* Every step keeps the invariant.
LEMMA ServiceStep == ServiceInv /\ [Next]_vars => ServiceInv'
<1>. SUFFICES ASSUME ServiceInv, [Next]_vars PROVE ServiceInv'
  OBVIOUS
<1>1. CASE \E s \in Submissions : Handles(s)
  BY <1>1, HandlesInv
<1>2. CASE \E w \in Workers : Works(w) \/ Dies(w)
  BY <1>2, WorksInv
<1>3. CASE Consumes
  BY <1>3, DeliversInv DEF Consumes
<1>4. CASE ApiRestarts
  <2>1. /\ UNCHANGED <<workerVars, broker, result, runs, trouble>>
        /\ post' = [s \in Submissions |->
                      IF post[s] \in {"running", "saving"} THEN "done" ELSE post[s]]
        /\ answer' = [s \in Submissions |->
                      IF post[s] \in {"running", "saving"} THEN "lost" ELSE answer[s]]
    BY <1>4 DEF ApiRestarts
  <2>. QED  BY <2>1 DEF ServiceInv, Typed, QueueTyped, GoalsTyped, JobsCarried, Carried,
                 InBroker, Running, GoalsOnce, Untroubled, workerVars
<1>5. CASE UNCHANGED <<postVars, workerVars, broker, result, runs, trouble, counters>>
  BY <1>5 DEF ServiceInv, Typed, QueueTyped, GoalsTyped, JobsCarried, Carried,
       InBroker, Running, GoalsOnce, Untroubled, workerVars, postVars
<1>. QED  BY <1>1, <1>2, <1>3, <1>4, <1>5 DEF Next, vars

LEMMA ServiceInvariant == Spec => []ServiceInv
BY ServiceInit, ServiceStep, PTL DEF Spec

\* A job the API has accepted is in the broker or on a worker until it has a
\* result, for any number of workers, deaths, retries and goals.
THEOREM NothingIsLost == Spec => []NoJobLost
<1>1. ServiceInv => NoJobLost
  BY DEF ServiceInv, JobsCarried, Carried, Running, NoJobLost, OnWorker
<1>. QED  BY <1>1, ServiceInvariant, PTL

\* Without a failure a goal runs once, whatever the workers do.
THEOREM RunsOnce == Spec => []RunsOnceUnlessTrouble
<1>1. ServiceInv => RunsOnceUnlessTrouble
  BY DEF ServiceInv, Typed, GoalsTyped, GoalsOnce, Untroubled, RunsOnceUnlessTrouble
<1>. QED  BY <1>1, ServiceInvariant, PTL

-----------------------------------------------------------------------------
(* How often a goal runs.  Every copy of a message is worth the runs it can *)
(* still lead to: its own, and one for each retry it has left; the message  *)
(* of a running worker is worth its retries only.  What a goal has run and  *)
(* what its messages are worth is paid for by the first message and by the  *)
(* deaths, each of which brings back one message at most.  The worth is     *)
(* counted as the size of a set, one element for every run still to come.   *)

\* The runs a message can still lead to, and what remains while it runs.
Worth(m)  == MaxRetries + 1 - m.retries
Tickets(x, k, n) == {<<x, k, j>> : j \in 1 .. n}

InQueue(g) ==
  {t \in Messages \X Nat \X Nat :
     t[1].job = g /\ t[2] \in 1 .. broker[t[1]] /\ t[3] \in 1 .. Worth(t[1])}

OnHand(g) ==
  {t \in Workers \X {0} \X Nat :
     /\ stage[t[1]] = "running" /\ held[t[1]].job = g
     /\ t[3] \in 1 .. (Worth(held[t[1]]) - 1)}

Finite(g) == IsFiniteSet(InQueue(g)) /\ IsFiniteSet(OnHand(g))
Owed(g)   == Cardinality(InQueue(g)) + Cardinality(OnHand(g))
Own(g)    == IF inline[g] # 0 THEN 1 ELSE 0
Paid(g)   == runs[g] + Owed(g) <= (MaxRetries + 1) * (crashes + 1) + Own(g)
Unheld(g) == OnHand(g) = {} /\ \A w \in Workers : stage[w] # "idle" => held[w].job # g
Unposted(g) == post[g] = "idle" => runs[g] = 0 /\ InQueue(g) = {} /\ Unheld(g)

RunsInv ==
  /\ crashes \in Nat /\ inline \in [Submissions -> Nat]
  /\ \A g \in Submissions : Finite(g) /\ Paid(g) /\ Unposted(g)

\* A copy of a message has as many tickets as runs it can lead to.
LEMMA TicketCount ==
  ASSUME NEW x, NEW k, NEW n \in Nat
  PROVE  IsFiniteSet(Tickets(x, k, n)) /\ Cardinality(Tickets(x, k, n)) = n
<1>1. IsFiniteSet(1 .. n) /\ Cardinality(1 .. n) = n
  BY FS_Interval
<1>2. ExistsBijection(1 .. n, Tickets(x, k, n))
  <2>. DEFINE f == [j \in 1 .. n |-> <<x, k, j>>]
  <2>1. f \in Bijection(1 .. n, Tickets(x, k, n))
    BY DEF Tickets, Bijection, Injection, Surjection, IsInjective
  <2>. QED  BY <2>1 DEF ExistsBijection
<1>. QED  BY <1>1, <1>2, FS_Bijection

\* What tickets add to a set, and what taking them away leaves.
LEMMA AddTickets ==
  ASSUME NEW S, NEW T, IsFiniteSet(S), NEW x, NEW k, NEW n \in Nat,
         T \subseteq S \cup Tickets(x, k, n)
  PROVE  IsFiniteSet(T) /\ Cardinality(T) <= Cardinality(S) + n
<1>. DEFINE D == Tickets(x, k, n)
<1>0. IsFiniteSet(D) /\ Cardinality(D) = n
  BY TicketCount
<1>. HIDE DEF D
<1>1. IsFiniteSet(S \cup D) /\ Cardinality(S \cup D) = Cardinality(S) + Cardinality(D) - Cardinality(S \cap D)
  BY <1>0, FS_Union
<1>2. IsFiniteSet(S \cap D)
  BY <1>0, FS_Intersection
<1>3. Cardinality(S \cap D) \in Nat /\ Cardinality(S) \in Nat /\ Cardinality(S \cup D) \in Nat
  BY <1>1, <1>2, FS_CardinalityType
<1>4. T \in SUBSET (S \cup D)
  BY DEF D
<1>5. IsFiniteSet(T) /\ Cardinality(T) <= Cardinality(S \cup D)
  BY <1>1, <1>4, FS_Subset
<1>6. Cardinality(T) \in Nat
  BY <1>5, FS_CardinalityType
<1>. QED  BY <1>0, <1>1, <1>3, <1>5, <1>6

LEMMA DropTickets ==
  ASSUME NEW S, NEW T, IsFiniteSet(S), NEW x, NEW k, NEW n \in Nat,
         Tickets(x, k, n) \subseteq S, T \subseteq S \ Tickets(x, k, n)
  PROVE  IsFiniteSet(T) /\ Cardinality(T) <= Cardinality(S) - n
<1>. DEFINE D == Tickets(x, k, n)
<1>0. IsFiniteSet(D) /\ Cardinality(D) = n /\ S \cap D = D
  BY TicketCount
<1>. HIDE DEF D
<1>1. IsFiniteSet(S \ D) /\ Cardinality(S \ D) = Cardinality(S) - Cardinality(S \cap D)
  BY FS_Difference, Zenon
<1>2. IsFiniteSet(S \ D)
  BY FS_Difference, Zenon
<1>4. T \in SUBSET (S \ D)
  BY DEF D
<1>5. IsFiniteSet(T) /\ Cardinality(T) <= Cardinality(S \ D)
  BY <1>2, <1>4, FS_Subset
<1>. QED  BY <1>0, <1>1, <1>5

\* The worth of a message.
LEMMA WorthType == \A m \in Messages : Worth(m) \in Nat \ {0} /\ Worth(m) <= MaxRetries + 1
BY ServiceAssumption DEF Worth, Messages

\* A copy that enters the broker is worth its own runs.
LEMMA QueueGains ==
  ASSUME QueueTyped, NEW g \in Submissions, IsFiniteSet(InQueue(g)), NEW m \in Messages,
         broker' = [broker EXCEPT ![m] = @ + 1]
  PROVE  /\ IsFiniteSet(InQueue(g)')
         /\ Cardinality(InQueue(g)') <= Cardinality(InQueue(g)) + (IF m.job = g THEN Worth(m) ELSE 0)
<1>. USE WorthType DEF QueueTyped
<1>1. CASE m.job = g
  <2>1. InQueue(g)' \subseteq InQueue(g) \cup Tickets(m, broker[m] + 1, Worth(m))
    BY <1>1 DEF InQueue, Tickets
  <2>. QED  BY <1>1, <2>1, AddTickets
<1>2. CASE m.job # g
  <2>1. InQueue(g)' = InQueue(g)
    BY <1>2 DEF InQueue
  <2>. QED  BY <1>2, <2>1, FS_CardinalityType
<1>. QED  BY <1>1, <1>2

\* A copy that is delivered takes its worth out of it.
LEMMA QueueLoses ==
  ASSUME QueueTyped, NEW g \in Submissions, IsFiniteSet(InQueue(g)), NEW m \in Messages,
         broker[m] > 0, broker' = [broker EXCEPT ![m] = @ - 1]
  PROVE  /\ IsFiniteSet(InQueue(g)')
         /\ Cardinality(InQueue(g)') <= Cardinality(InQueue(g)) - (IF m.job = g THEN Worth(m) ELSE 0)
<1>. USE WorthType DEF QueueTyped
<1>1. CASE m.job = g
  <2>1. /\ InQueue(g)' \subseteq InQueue(g) \ Tickets(m, broker[m], Worth(m))
        /\ Tickets(m, broker[m], Worth(m)) \subseteq InQueue(g)
    BY <1>1 DEF InQueue, Tickets
  <2>. QED  BY <1>1, <2>1, DropTickets
<1>2. CASE m.job # g
  <2>1. InQueue(g)' = InQueue(g)
    BY <1>2 DEF InQueue
  <2>. QED  BY <1>2, <2>1, FS_CardinalityType
<1>. QED  BY <1>1, <1>2

\* A worker that takes a message holds the retries it has left.
LEMMA HandGains ==
  ASSUME QueueTyped, NEW g \in Submissions, IsFiniteSet(OnHand(g)), NEW w \in Workers,
         NEW m \in Messages, stage' = [stage EXCEPT ![w] = "running"],
         held' = [held EXCEPT ![w] = m]
  PROVE  /\ IsFiniteSet(OnHand(g)')
         /\ Cardinality(OnHand(g)') <= Cardinality(OnHand(g)) + (IF m.job = g THEN Worth(m) - 1 ELSE 0)
<1>. USE WorthType DEF QueueTyped
<1>0. Worth(m) - 1 \in Nat
  OBVIOUS
<1>1. CASE m.job = g
  <2>1. OnHand(g)' \subseteq OnHand(g) \cup Tickets(w, 0, Worth(m) - 1)
    BY <1>1 DEF OnHand, Tickets
  <2>. QED  BY <1>0, <1>1, <2>1, AddTickets
<1>2. CASE m.job # g
  <2>1. OnHand(g)' \in SUBSET OnHand(g)
    BY <1>2 DEF OnHand
  <2>. QED  BY <1>2, <2>1, FS_Subset, FS_CardinalityType
<1>. QED  BY <1>1, <1>2

\* A worker that ends its run, or dies in it, gives up what it held.
LEMMA HandLoses ==
  ASSUME QueueTyped, NEW g \in Submissions, IsFiniteSet(OnHand(g)), NEW w \in Workers,
         stage[w] = "running", stage'[w] # "running",
         \A v \in Workers \ {w} : stage'[v] = stage[v] /\ held'[v] = held[v]
  PROVE  /\ IsFiniteSet(OnHand(g)')
         /\ Cardinality(OnHand(g)') <=
              Cardinality(OnHand(g)) - (IF held[w].job = g THEN Worth(held[w]) - 1 ELSE 0)
<1>. USE WorthType DEF QueueTyped
<1>0. held[w] \in Messages /\ Worth(held[w]) - 1 \in Nat
  OBVIOUS
<1>1. CASE held[w].job = g
  <2>1. /\ OnHand(g)' \subseteq OnHand(g) \ Tickets(w, 0, Worth(held[w]) - 1)
        /\ Tickets(w, 0, Worth(held[w]) - 1) \subseteq OnHand(g)
    BY <1>0, <1>1 DEF OnHand, Tickets
  <2>. QED  BY <1>0, <1>1, <2>1, DropTickets
<1>2. CASE held[w].job # g
  <2>1. OnHand(g)' \in SUBSET OnHand(g)
    BY <1>2 DEF OnHand
  <2>. QED  BY <1>2, <2>1, FS_Subset, FS_CardinalityType
<1>. QED  BY <1>1, <1>2

\* Nothing else changes what the workers hold.
LEMMA HandSame ==
  ASSUME NEW g \in Submissions,
         \A v \in Workers : \/ stage'[v] = stage[v] /\ held'[v] = held[v]
                            \/ stage[v] # "running" /\ stage'[v] # "running"
  PROVE  OnHand(g)' = OnHand(g)
BY DEF OnHand

LEMMA QueueSame == ASSUME NEW g \in Submissions, broker' = broker PROVE InQueue(g)' = InQueue(g)
BY DEF InQueue

\* What the deaths pay for, and the numbers of the inequality.
LEMMA DeathPays ==
  \A c \in Nat : /\ (MaxRetries + 1) * (c + 1) \in Nat
                 /\ (MaxRetries + 1) * (c + 1) >= MaxRetries + 1
                 /\ (MaxRetries + 1) * ((c + 1) + 1) = (MaxRetries + 1) * (c + 1) + (MaxRetries + 1)
BY ServiceAssumption, SMT

LEMMA OwedType ==
  ASSUME NEW g \in Submissions, Finite(g)
  PROVE  /\ Cardinality(InQueue(g)) \in Nat /\ Cardinality(OnHand(g)) \in Nat
         /\ InQueue(g) = {} => Cardinality(InQueue(g)) = 0
         /\ OnHand(g) = {} => Cardinality(OnHand(g)) = 0
BY FS_CardinalityType, FS_EmptySet DEF Finite

\* At the start nothing has run and nothing waits.
LEMMA RunsInit == Init => RunsInv
<1>. SUFFICES ASSUME Init PROVE RunsInv
  OBVIOUS
<1>1. \A g \in Submissions : InQueue(g) = {} /\ OnHand(g) = {}
  BY DEF Init, InQueue, OnHand
<1>2. \A g \in Submissions : Unheld(g)
  BY <1>1 DEF Init, Unheld
<1>3. \A g \in Submissions : Finite(g) /\ Owed(g) = 0
  BY <1>1, FS_EmptySet DEF Finite, Owed
<1>4. \A g \in Submissions : runs[g] = 0 /\ Own(g) = 0
  BY DEF Init, Own
<1>5. crashes \in Nat /\ inline \in [Submissions -> Nat]
  BY DEF Init
<1>. QED  BY <1>1, <1>2, <1>3, <1>4, <1>5, DeathPays DEF RunsInv, Paid, Unposted

\* The first message is worth what is paid before any death; a goal that runs in
\* its handler has a run of its own.
LEMMA HandlesRuns ==
  ASSUME ServiceInv, RunsInv, NEW s \in Submissions, Queued(s) \/ FallsBack(s), NEW g \in Submissions
  PROVE  Finite(g)' /\ Paid(g)' /\ Unposted(g)' /\ inline' \in [Submissions -> Nat]
<1>. USE DEF ServiceInv, Typed, RunsInv
<1>1. /\ First(s) \in Messages /\ First(s).job = s /\ Worth(First(s)) = MaxRetries + 1
  BY MessageTypes DEF First, Worth
<1>2. /\ post[s] = "idle" /\ post'[s] # "idle" /\ \A t \in Submissions \ {s} : post'[t] = post[t]
      /\ UNCHANGED <<held, stage, crashes>>
  BY DEF Queued, FallsBack, Answer, RunInline, workerVars, counters, GoalsTyped
<1>3. OnHand(g)' = OnHand(g)
  BY <1>2, HandSame
<1>4. \/ broker' = broker
      \/ broker' = [broker EXCEPT ![First(s)] = @ + 1]
  BY DEF Queued, FallsBack, Enqueued
<1>5. /\ IsFiniteSet(InQueue(g)')
      /\ Cardinality(InQueue(g)') <= Cardinality(InQueue(g)) + (IF s = g THEN MaxRetries + 1 ELSE 0)
      /\ s # g => InQueue(g)' \subseteq InQueue(g)
  <2>1. CASE broker' = broker
    <3>1. InQueue(g)' = InQueue(g)
      BY <2>1, QueueSame
    <3>. QED  BY <3>1, OwedType, ServiceAssumption DEF Finite
  <2>2. CASE broker' = [broker EXCEPT ![First(s)] = @ + 1]
    <3>1. s # g => InQueue(g)' \subseteq InQueue(g)
      BY <1>1, <2>2 DEF InQueue, QueueTyped
    <3>. QED  BY <1>1, <2>2, <3>1, QueueGains DEF Finite
  <2>. QED  BY <1>4, <2>1, <2>2
<1>6. /\ runs \in [Submissions -> Nat] /\ runs' \in [Submissions -> Nat]
      /\ inline' \in [Submissions -> Nat]
      /\ runs'[g] - runs[g] <= Own(g)' - (IF s = g THEN 0 ELSE Own(g))
      /\ s # g => runs'[g] = runs[g] /\ Own(g)' = Own(g)
      /\ Own(g)' \in {0, 1} /\ Own(g) \in {0, 1}
  BY DEF GoalsTyped, Queued, FallsBack, Answer, RunInline, Own
<1>7. Finite(g)'
  BY <1>3, <1>5 DEF Finite
<1>8. Cardinality(InQueue(g)') \in Nat
  BY <1>5, FS_CardinalityType
<1>9. CASE s = g
  <2>1. runs[g] = 0 /\ InQueue(g) = {} /\ OnHand(g) = {}
    BY <1>2, <1>9 DEF Unposted, Unheld
  <2>2. Owed(g)' <= MaxRetries + 1
    BY <1>3, <1>5, <1>8, <1>9, <2>1, OwedType, ServiceAssumption DEF Owed
  <2>3. Owed(g)' \in Nat
    BY <1>3, <1>8, OwedType DEF Owed
  <2>4. runs'[g] <= Own(g)'
    BY <1>6, <1>9, <2>1
  <2>5. Paid(g)'
    BY <1>2, <1>6, <2>2, <2>3, <2>4, DeathPays, ServiceAssumption DEF Paid
  <2>. QED  BY <1>2, <1>6, <1>7, <1>9, <2>5 DEF Unposted
<1>10. CASE s # g
  <2>1. Owed(g)' <= Owed(g) /\ Owed(g)' \in Nat /\ Owed(g) \in Nat
    BY <1>3, <1>5, <1>8, <1>10, OwedType DEF Owed
  <2>2. Paid(g)'
    BY <1>2, <1>6, <1>10, <2>1, DeathPays DEF Paid
  <2>3. Unposted(g)'
    BY <1>2, <1>3, <1>5, <1>6, <1>10 DEF Unposted, Unheld
  <2>. QED  BY <1>6, <1>7, <2>2, <2>3
<1>. QED  BY <1>9, <1>10

\* A delivery turns one run still to come into one run.
LEMMA DeliversRuns ==
  ASSUME ServiceInv, RunsInv, NEW w \in Workers, Delivers(w), NEW g \in Submissions
  PROVE  Finite(g)' /\ Paid(g)' /\ Unposted(g)'
<1>. USE DEF ServiceInv, Typed, RunsInv
<1>1. PICK m \in Messages :
        /\ broker[m] > 0
        /\ broker' = [broker EXCEPT ![m] = @ - 1]
        /\ held' = [held EXCEPT ![w] = m]
        /\ runs' = [runs EXCEPT ![m.job] = @ + 1]
  BY DEF Delivers
<1>2. /\ stage' = [stage EXCEPT ![w] = "running"]
      /\ UNCHANGED <<post, inline, crashes>>
  BY DEF Delivers, postVars, counters
<1>3. /\ IsFiniteSet(InQueue(g)')
      /\ Cardinality(InQueue(g)') <= Cardinality(InQueue(g)) - (IF m.job = g THEN Worth(m) ELSE 0)
  BY <1>1, QueueLoses DEF Finite
<1>4. /\ IsFiniteSet(OnHand(g)')
      /\ Cardinality(OnHand(g)') <= Cardinality(OnHand(g)) + (IF m.job = g THEN Worth(m) - 1 ELSE 0)
  BY <1>1, <1>2, HandGains DEF Finite
<1>5. Cardinality(InQueue(g)') \in Nat /\ Cardinality(OnHand(g)') \in Nat /\ Worth(m) \in Nat
  BY <1>3, <1>4, FS_CardinalityType, WorthType
<1>6. m.job \in Submissions /\ runs'[g] = runs[g] + (IF m.job = g THEN 1 ELSE 0) /\ runs[g] \in Nat
  <2>1. m.job \in Submissions
    BY MessageTypes
  <2>2. runs \in [Submissions -> Nat]
    BY DEF GoalsTyped
  <2>. QED  BY <1>1, <2>1, <2>2
<1>7. runs'[g] + Owed(g)' <= runs[g] + Owed(g)
  BY <1>3, <1>4, <1>5, <1>6, OwedType DEF Owed
<1>8. Owed(g)' \in Nat /\ Owed(g) \in Nat /\ runs'[g] \in Nat /\ Own(g) \in {0, 1}
  BY <1>5, <1>6, OwedType DEF Owed, Own
<1>9. Paid(g)'
  BY <1>2, <1>7, <1>8, DeathPays, <1>6 DEF Paid, Own
<1>10. Unposted(g)'
  <2>. SUFFICES ASSUME post[g] = "idle" PROVE runs'[g] = 0 /\ InQueue(g)' = {} /\ Unheld(g)'
    BY <1>2 DEF Unposted
  <2>1. runs[g] = 0 /\ InQueue(g) = {} /\ OnHand(g) = {} /\ Unheld(g)
    BY DEF Unposted, Unheld
  <2>2. m.job # g
    <3>1. m.job = g => <<m, broker[m], Worth(m)>> \in InQueue(g)
      BY <1>1, WorthType DEF InQueue, QueueTyped
    <3>. QED  BY <2>1, <3>1
  <2>3. InQueue(g)' = {} /\ Unheld(g)'
    BY <1>1, <1>2, <2>1, <2>2 DEF InQueue, OnHand, Unheld, QueueTyped
  <2>. QED  BY <1>6, <2>1, <2>2, <2>3
<1>. QED  BY <1>3, <1>4, <1>9, <1>10 DEF Finite

\* What a step of a worker does to the two sets: a run that ends takes its
\* retries with it and leaves one message with them at most, and a death brings
\* back the message the worker held.
LEMMA WorkerRuns ==
  ASSUME ServiceInv, RunsInv, NEW w \in Workers, Works(w) \/ Dies(w), NEW g \in Submissions
  PROVE  Finite(g)' /\ Paid(g)' /\ Unposted(g)'
<1>. USE DEF ServiceInv, Typed, RunsInv
<1>0. /\ stage[w] # "idle" /\ held[w] \in Messages
      /\ stage'[w] # "running" /\ UNCHANGED <<post, inline, runs>>
      /\ \A v \in Workers \ {w} : stage'[v] = stage[v] /\ held'[v] = held[v]
  BY DEF Works, RunReturns, RunRaises, Acknowledges, Dies, QueueTyped, postVars
<1>1. /\ IsFiniteSet(OnHand(g)')
      /\ Cardinality(OnHand(g)') <=
           Cardinality(OnHand(g))
             - (IF stage[w] = "running" /\ held[w].job = g THEN Worth(held[w]) - 1 ELSE 0)
  <2>1. CASE stage[w] = "running"
    BY <1>0, <2>1, HandLoses DEF Finite
  <2>2. CASE stage[w] # "running"
    <3>1. OnHand(g)' = OnHand(g)
      BY <1>0, <2>2, HandSame
    <3>. QED  BY <2>2, <3>1, OwedType DEF Finite
  <2>. QED  BY <2>1, <2>2
<1>2. \E d \in {0, 1} :
        /\ crashes' = crashes + d
        /\ IsFiniteSet(InQueue(g)')
        /\ held[w].job # g => InQueue(g)' \subseteq InQueue(g)
        /\ Cardinality(InQueue(g)') <=
             Cardinality(InQueue(g))
               + (IF held[w].job # g THEN 0
                  ELSE IF d = 1 THEN Worth(held[w])
                  ELSE IF stage[w] = "running" THEN Worth(held[w]) - 1 ELSE 0)
  <2>1. CASE broker' = broker /\ crashes' = crashes
    <3>1. InQueue(g)' = InQueue(g)
      BY <2>1, QueueSame
    <3>2. crashes' = crashes + 0
      BY <2>1
    <3>. QED  BY <1>0, <3>1, <3>2, OwedType, WorthType DEF Finite
  <2>2. CASE RunRaises(w) /\ held[w].retries < MaxRetries
    <3>. DEFINE n == [held[w] EXCEPT !.retries = @ + 1]
    <3>1. n \in Messages /\ n.job = held[w].job /\ Worth(n) = Worth(held[w]) - 1
      <4>1. n \in Messages /\ n.job = held[w].job
        BY <1>0, <2>2, MessageTypes
      <4>2. n.retries = held[w].retries + 1 /\ held[w].retries \in Nat
        BY <1>0 DEF Messages
      <4>. QED  BY <4>1, <4>2, ServiceAssumption DEF Worth
    <3>2. broker' = [broker EXCEPT ![n] = @ + 1] /\ stage[w] = "running" /\ crashes' = crashes
      BY <2>2 DEF RunRaises, Enqueued, counters
    <3>. HIDE DEF n
    <3>3. /\ IsFiniteSet(InQueue(g)')
          /\ Cardinality(InQueue(g)') <= Cardinality(InQueue(g)) + (IF n.job = g THEN Worth(n) ELSE 0)
      BY <3>1, <3>2, QueueGains DEF Finite
    <3>4. held[w].job # g => InQueue(g)' \subseteq InQueue(g)
      BY <3>1, <3>2 DEF InQueue, QueueTyped
    <3>5. crashes' = crashes + 0
      BY <3>2
    <3>. QED  BY <3>1, <3>2, <3>3, <3>4, <3>5
  <2>3. CASE Dies(w)
    <3>1. broker' = [broker EXCEPT ![held[w]] = @ + 1] /\ crashes' = crashes + 1
      BY <2>3 DEF Dies, Enqueued
    <3>2. /\ IsFiniteSet(InQueue(g)')
          /\ Cardinality(InQueue(g)') <=
               Cardinality(InQueue(g)) + (IF held[w].job = g THEN Worth(held[w]) ELSE 0)
      BY <1>0, <3>1, QueueGains DEF Finite
    <3>3. held[w].job # g => InQueue(g)' \subseteq InQueue(g)
      BY <1>0, <3>1 DEF InQueue, QueueTyped
    <3>. QED  BY <3>1, <3>2, <3>3
  <2>. QED  BY <2>1, <2>2, <2>3 DEF Works, RunReturns, RunRaises, Acknowledges, counters
<1>3. PICK d \in {0, 1} :
        /\ crashes' = crashes + d
        /\ IsFiniteSet(InQueue(g)')
        /\ held[w].job # g => InQueue(g)' \subseteq InQueue(g)
        /\ Cardinality(InQueue(g)') <=
             Cardinality(InQueue(g))
               + (IF held[w].job # g THEN 0
                  ELSE IF d = 1 THEN Worth(held[w])
                  ELSE IF stage[w] = "running" THEN Worth(held[w]) - 1 ELSE 0)
  BY <1>2
<1>4. /\ Cardinality(InQueue(g)') \in Nat /\ Cardinality(OnHand(g)') \in Nat
      /\ Worth(held[w]) \in Nat \ {0} /\ Worth(held[w]) <= MaxRetries + 1
  BY <1>0, <1>1, <1>3, FS_CardinalityType, WorthType
<1>5. Owed(g)' <= Owed(g) + (IF d = 1 THEN MaxRetries + 1 ELSE 0)
  BY <1>1, <1>3, <1>4, OwedType, ServiceAssumption DEF Owed
<1>6. runs'[g] = runs[g] /\ runs[g] \in Nat /\ Owed(g)' \in Nat /\ Owed(g) \in Nat /\ Own(g) \in {0, 1}
  BY <1>0, <1>4, OwedType DEF Owed, Own, GoalsTyped
<1>7. Paid(g)'
  <2>. DEFINE p == (MaxRetries + 1) * (crashes + 1)
  <2>1. p \in Nat /\ (MaxRetries + 1) * (crashes' + 1) = p + (IF d = 1 THEN MaxRetries + 1 ELSE 0)
    BY <1>3, DeathPays
  <2>2. runs[g] + Owed(g) <= p + Own(g) /\ Own(g)' = Own(g)
    BY <1>0 DEF Paid, Own
  <2>. HIDE DEF p
  <2>3. runs'[g] + Owed(g)' <= (MaxRetries + 1) * (crashes' + 1) + Own(g)'
    BY <1>5, <1>6, <2>1, <2>2, ServiceAssumption
  <2>. QED  BY <2>3 DEF Paid
<1>8. Unposted(g)'
  <2>. SUFFICES ASSUME post[g] = "idle" PROVE runs'[g] = 0 /\ InQueue(g)' = {} /\ Unheld(g)'
    BY <1>0 DEF Unposted
  <2>1. runs[g] = 0 /\ InQueue(g) = {} /\ OnHand(g) = {} /\ Unheld(g)
    BY DEF Unposted, Unheld
  <2>2. held[w].job # g
    BY <1>0, <2>1 DEF Unheld
  <2>3. OnHand(g)' = {}
    BY <1>0, <2>1 DEF OnHand
  <2>4. \A v \in Workers : stage'[v] # "idle" => held'[v].job # g
    <3>1. stage'[w] # "idle" => held'[w] = held[w]
      BY DEF Works, RunReturns, RunRaises, Acknowledges, Dies, QueueTyped
    <3>. QED  BY <1>0, <2>1, <2>2, <3>1 DEF Unheld
  <2>. QED  BY <1>0, <1>3, <2>1, <2>2, <2>3, <2>4 DEF Unheld
<1>. QED  BY <1>1, <1>3, <1>7, <1>8 DEF Finite

\* Whatever leaves the goals' runs, messages and workers alone keeps what they owe.
LEMMA OthersRuns ==
  ASSUME RunsInv, UNCHANGED <<workerVars, broker, runs, crashes, inline>>,
         \A g \in Submissions : post'[g] = "idle" => post[g] = "idle"
  PROVE  RunsInv'
<1>1. \A g \in Submissions : InQueue(g)' = InQueue(g) /\ OnHand(g)' = OnHand(g) /\ Own(g)' = Own(g)
  BY DEF InQueue, OnHand, Own, workerVars
<1>2. \A g \in Submissions : (Finite(g) => Finite(g)') /\ (Paid(g) => Paid(g)')
  BY <1>1 DEF Finite, Paid, Owed
<1>3. \A g \in Submissions : Unposted(g) => Unposted(g)'
  BY <1>1 DEF Unposted, Unheld, workerVars
<1>. QED  BY <1>2, <1>3 DEF RunsInv

LEMMA RunsStep == ServiceInv /\ RunsInv /\ [Next]_vars => RunsInv'
<1>. SUFFICES ASSUME ServiceInv, RunsInv, [Next]_vars PROVE RunsInv'
  OBVIOUS
<1>1. ASSUME NEW s \in Submissions, Handles(s) PROVE RunsInv'
  <2>1. CASE Queued(s) \/ FallsBack(s)
    <3>1. \A g \in Submissions : Finite(g)' /\ Paid(g)' /\ Unposted(g)' /\ inline' \in [Submissions -> Nat]
      BY <2>1, HandlesRuns
    <3>2. crashes' \in Nat
      BY <2>1 DEF Queued, FallsBack, counters, RunsInv
    <3>. QED  BY <1>1, <3>1, <3>2 DEF RunsInv
  <2>2. CASE InlineReturns(s) \/ InlineRaises(s) \/ SaveEnds(s)
    <3>1. /\ UNCHANGED <<workerVars, broker, runs, crashes, inline>>
          /\ \A g \in Submissions : post'[g] = "idle" => post[g] = "idle"
      BY <2>2 DEF InlineReturns, InlineRaises, SaveEnds, Answer, counters, ServiceInv, Typed, GoalsTyped
    <3>. QED  BY <3>1, OthersRuns
  <2>. QED  BY <1>1, <2>1, <2>2 DEF Handles
<1>2. ASSUME NEW w \in Workers, Works(w) \/ Dies(w) \/ Delivers(w) PROVE RunsInv'
  <2>1. \A g \in Submissions : Finite(g)' /\ Paid(g)' /\ Unposted(g)'
    BY <1>2, WorkerRuns, DeliversRuns
  <2>2. inline' = inline /\ crashes' \in {crashes, crashes + 1}
    BY <1>2 DEF Works, RunReturns, RunRaises, Acknowledges, Dies, Delivers, postVars, counters
  <2>. QED  BY <2>1, <2>2 DEF RunsInv
<1>3. CASE ApiRestarts
  <2>1. /\ UNCHANGED <<workerVars, broker, runs, crashes, inline>>
        /\ \A g \in Submissions : post'[g] = "idle" => post[g] = "idle"
    BY <1>3 DEF ApiRestarts
  <2>. QED  BY <2>1, OthersRuns
<1>4. CASE UNCHANGED <<postVars, workerVars, broker, result, runs, trouble, counters>>
  BY <1>4, OthersRuns DEF postVars, counters
<1>. QED  BY <1>1, <1>2, <1>3, <1>4 DEF Next, Consumes, vars

\* However runs raise, workers die and messages come again, a goal is run at
\* most once more for every retry, once over for every death, and once in its
\* handler.
THEOREM RunsAreBounded == Spec => []RunsBounded
<1>1. ServiceInv /\ RunsInv => RunsBounded
  <2>. SUFFICES ASSUME ServiceInv, RunsInv, NEW s \in Submissions
                PROVE  runs[s] <= (MaxRetries + 1) * (crashes + 1) + Own(s)
    BY DEF RunsBounded, Own
  <2>1. Owed(s) \in Nat /\ runs[s] \in Nat /\ Own(s) \in {0, 1} /\ Paid(s)
    BY OwedType DEF Owed, Own, RunsInv, ServiceInv, Typed, GoalsTyped
  <2>2. (MaxRetries + 1) * (crashes + 1) \in Nat
    BY DeathPays DEF RunsInv
  <2>. QED  BY <2>1, <2>2 DEF Paid
<1>. QED  BY <1>1, RunsInit, RunsStep, ServiceInvariant, PTL DEF Spec
=============================================================================
