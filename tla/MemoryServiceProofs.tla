------------------------ MODULE MemoryServiceProofs ------------------------
(***************************************************************************)
(* Both conversation stores keep what they promise, recall of the list in  *)
(* memory is best-first, and ask names every neighbour of an entity: for   *)
(* any number of clients, sessions, words, entities, calls and restarts.   *)
(***************************************************************************)
EXTENDS MemoryService, FiniteSetTheorems, WellFoundedInduction, TLAPS

Rec == [n : 1 .. MaxCalls, session : Sessions, words : SUBSET Words]

Before  == {"preparing", "executing", "committing"}   \* the commit
Pending == Before \cup {"committed"}

\* What a call that has not ended carries.
Carries(k) ==
  k.at \in Pending =>
    /\ "op" \in DOMAIN k /\ k.op \in {"append", "recent", "recall", "forget"}
    /\ k.op = "append" => "record" \in DOMAIN k /\ k.record \in Rec /\ k.record.n <= created
    /\ k.op = "forget" => "session" \in DOMAIN k /\ k.session \in Sessions
    /\ k.at = "committing" =>
         \/ k.op = "append"
         \/ k.op = "forget" /\ \A r \in k.gone : r.session = k.session

\* A record that is not committed yet is not in the table.
Uncommitted(k) == k.at \in Before /\ k.op = "append" => k.record \notin records

\* Two clients do not append the same record.
Differ(k, l) ==
  k.at \in Before /\ k.op = "append" /\ l.at \in Before /\ l.op = "append"
    => k.record # l.record

StoreInv ==
  /\ backend \in {"memory", "postgres"}
  /\ begun \in Nat /\ created \in Nat /\ created <= begun /\ begun <= MaxCalls
  /\ records \subseteq Rec /\ \A r \in records : r.n <= created
  /\ promised \subseteq records

CallsInv ==
  /\ call = [c \in Clients |-> call[c]]
  /\ \A c \in Clients : Carries(call[c]) /\ Uncommitted(call[c])
  /\ \A c, d \in Clients : c # d => Differ(call[c], call[d])

MemoryInv == StoreInv /\ CallsInv

-----------------------------------------------------------------------------
\* A call goes on to a place, or is answered.
LEMMA Goes2 ==
  ASSUME NEW o, NEW where, NEW answer
  PROVE  LET k == Put(Put(o, "answer", answer), "at", where)
         IN /\ k.at = where
            /\ DOMAIN o \subseteq DOMAIN k
            /\ \A f \in DOMAIN o \ {"answer", "at"} : k[f] = o[f]
BY DEF Put

\* What it carries it goes on to carry.
LEMMA CarriesOn ==
  ASSUME NEW o, "op" \in DOMAIN o, NEW where, NEW answer
  PROVE  LET k == Put(Put(o, "answer", answer), "at", where)
         IN /\ "op" \in DOMAIN k /\ k.op = o.op
            /\ "record" \in DOMAIN o => "record" \in DOMAIN k /\ k.record = o.record
            /\ "session" \in DOMAIN o => "session" \in DOMAIN k /\ k.session = o.session
            /\ "gone" \in DOMAIN o => "gone" \in DOMAIN k /\ k.gone = o.gone
BY Goes2

\* One client's call changes, and the records are not fewer than its call
\* allows: every other call carries what it did.
LEMMA CallChanges ==
  ASSUME CallsInv, NEW c \in Clients, NEW k,
         call' = [call EXCEPT ![c] = k],
         created \in Nat, created' \in Nat, created <= created',
         Carries(k)', Uncommitted(k)',
         \A d \in Clients \ {c} : Differ(k, call[d]),
         \A d \in Clients \ {c} : Uncommitted(call[d])'
  PROVE  CallsInv'
<1>1. call' = [d \in Clients |-> call'[d]]
  BY DEF CallsInv
<1>2. call'[c] = k /\ \A d \in Clients \ {c} : call'[d] = call[d]
  BY DEF CallsInv
<1>3. \A d \in Clients \ {c} : Carries(call[d])'
  BY <1>2 DEF CallsInv, Carries, Rec
<1>4. Carries(call[c])' /\ Uncommitted(call[c])'
  BY <1>2 DEF Carries, Uncommitted
<1>5. \A d, e \in Clients : d # e => Differ(call[d], call[e])'
  BY <1>2 DEF CallsInv, Differ
<1>. QED  BY <1>1, <1>3, <1>4, <1>5 DEF CallsInv

\* A call that ends, while no record is added or none of another's.
LEMMA CallEnds ==
  ASSUME CallsInv, NEW c \in Clients, NEW k, k.at = "done",
         call' = [call EXCEPT ![c] = k],
         created \in Nat, created' \in Nat, created <= created',
         \A d \in Clients \ {c} : Uncommitted(call[d])'
  PROVE  CallsInv'
<1>1. Carries(k)' /\ Uncommitted(k)' /\ \A d \in Clients \ {c} : Differ(k, call[d])
  BY DEF Carries, Uncommitted, Differ, Pending, Before
<1>. QED  BY <1>1, CallChanges

\* No record is added: what was not committed is not.
LEMMA StillUncommitted ==
  ASSUME CallsInv, NEW c \in Clients, NEW k, call' = [call EXCEPT ![c] = k],
         records' \subseteq records
  PROVE  \A d \in Clients \ {c} : Uncommitted(call[d])'
BY DEF CallsInv, Uncommitted

\* What a client asks: the record of an append is new, and not yet kept.
LEMMA AskedIs ==
  ASSUME MemoryInv, begun < MaxCalls, NEW o \in Asked
  PROVE  /\ "op" \in DOMAIN o /\ o.op \in {"append", "recent", "recall", "forget"}
         /\ o.op = "append" => /\ "record" \in DOMAIN o /\ o.record \in Rec
                               /\ o.record.n = created + 1 /\ o.record \notin records
         /\ o.op = "forget" => "session" \in DOMAIN o /\ o.session \in Sessions
<1>1. CASE \E s \in Sessions, w \in (SUBSET Words) \ {{}} :
             o = [op |-> "append", record |-> NewRecord(s, w)]
  <2>1. PICK s \in Sessions, w \in SUBSET Words :
          o = [op |-> "append", record |-> NewRecord(s, w)]
    BY <1>1
  <2>2. created + 1 \in 1 .. MaxCalls
    BY ServiceAssumption DEF MemoryInv, StoreInv
  <2>3. NewRecord(s, w) \in Rec /\ NewRecord(s, w).n = created + 1
    BY <2>2 DEF NewRecord, Rec
  <2>4. NewRecord(s, w) \notin records
    BY <2>3 DEF MemoryInv, StoreInv
  <2>. QED  BY <2>1, <2>3, <2>4
<1>2. CASE \E s \in Sessions : o = [op |-> "recent", session |-> s]
  BY <1>2
<1>3. CASE \E s \in Sessions, w \in SUBSET Words : o = [op |-> "recall", session |-> s, words |-> w]
  BY <1>3
<1>4. CASE \E s \in Sessions : o = [op |-> "forget", session |-> s]
  BY <1>4
<1>. QED  BY <1>1, <1>2, <1>3, <1>4 DEF Asked

-----------------------------------------------------------------------------
(* Every step is one of what a memory promises, or none of it *)

Maps == [Promises!Next]_(Promises!vars)

\* A record more, with or without its promise.
LEMMA MapsKeep ==
  ASSUME NEW r \in Rec, r \notin records, records' = records \cup {r},
         promised' \in {promised, promised \cup {r}}, backend' = backend
  PROVE  Maps
<1>1. Promises!Keep(r)
  BY DEF Promises!Keep
<1>. QED  BY <1>1 DEF Maps, Promises!Next, Rec

\* A promise for what is kept.
LEMMA MapsPromise ==
  ASSUME NEW r \in Rec, r \in records, records' = records,
         promised' = promised \cup {r}, backend' = backend
  PROVE  Maps
<1>1. Promises!Promise(r)
  BY DEF Promises!Promise, Promises!vars
<1>. QED  BY <1>1 DEF Maps, Promises!Next, Rec

\* Records of one session go.
LEMMA MapsClear ==
  ASSUME NEW s \in Sessions, NEW gone, \A r \in gone : r.session = s, promised \subseteq records,
         records' = records \ gone, promised' = promised \ gone, backend' = backend
  PROVE  Maps
<1>1. Promises!Clear(s)
  BY DEF Promises!Clear
<1>. QED  BY <1>1 DEF Maps, Promises!Next

\* Nothing of it.
LEMMA MapsNothing ==
  ASSUME UNCHANGED <<backend, records, promised>> PROVE Maps
BY DEF Maps, Promises!vars

-----------------------------------------------------------------------------
(* The steps of the stores *)

\* A call begins: the counts stay in step, and the records are as old as they say.
LEMMA StoreBegins ==
  ASSUME StoreInv, begun < MaxCalls, begun' = begun + 1, backend' = backend,
         created' \in {created, created + 1},
         NEW new \in SUBSET Rec, \A r \in new : r.n <= created', records' \subseteq records \cup new,
         promised' \subseteq records'
  PROVE  StoreInv'
<1>1. created \in Nat /\ begun \in Nat /\ created <= begun /\ MaxCalls \in Nat
  BY ServiceAssumption DEF StoreInv
<1>2. begun' \in Nat /\ created' \in Nat /\ created' <= begun' /\ begun' <= MaxCalls
      /\ created <= created'
  BY <1>1
<1>3. records' \subseteq Rec
  BY DEF StoreInv
<1>4. ASSUME NEW r \in records' PROVE r.n <= created'
  <2>1. r.n \in Nat
    BY <1>3 DEF Rec
  <2>2. r \in records => r.n <= created
    BY DEF StoreInv
  <2>. QED  BY <1>1, <1>2, <2>1, <2>2
<1>. QED  BY <1>2, <1>3, <1>4 DEF StoreInv

\* A client without a call.
LEMMA Idle == NoCall.at = "done"
BY DEF NoCall

LEMMA InMemoryStep ==
  ASSUME MemoryInv, begun < MaxCalls, begun' = begun + 1, NEW c \in Clients, NEW o \in Asked,
         InMemory(c, o)
  PROVE  MemoryInv' /\ Maps
<1>0. backend' = backend /\ Counts(o)
  BY DEF InMemory
<1>1. CASE AppendsInMemory(c, o)
  <2>1. o.record \in Rec /\ o.record \notin records /\ o.record.n = created + 1
    BY <1>1, AskedIs DEF AppendsInMemory
  <2>2. created' = created + 1 /\ records' = records \cup {o.record}
        /\ promised' = promised \cup {o.record} /\ call' = [call EXCEPT ![c] = NoCall]
    BY <1>0, <1>1 DEF AppendsInMemory, Counts, AnswersNothing
  <2>3. StoreInv'
    <3>1. {o.record} \in SUBSET Rec /\ \A r \in {o.record} : r.n <= created'
      BY <2>1, <2>2 DEF MemoryInv, StoreInv
    <3>2. promised' \subseteq records' /\ records' \subseteq records \cup {o.record}
      BY <2>2 DEF MemoryInv, StoreInv
    <3>. QED  BY <1>0, <2>2, <3>1, <3>2, StoreBegins DEF MemoryInv
  <2>4. \A d \in Clients \ {c} : Uncommitted(call[d])'
    <3>. SUFFICES ASSUME NEW d \in Clients \ {c}, call[d].at \in Before, call[d].op = "append"
                  PROVE  call[d].record \notin records'
      BY <2>2 DEF MemoryInv, CallsInv, Uncommitted
    <3>1. call[d].record \in Rec /\ call[d].record.n <= created /\ call[d].record \notin records
      BY DEF MemoryInv, CallsInv, Carries, Uncommitted, Pending
    <3>2. call[d].record.n \in Nat /\ created \in Nat
      BY <3>1 DEF Rec, MemoryInv, StoreInv
    <3>3. call[d].record # o.record
      BY <2>1, <3>1, <3>2
    <3>. QED  BY <2>2, <3>1, <3>3
  <2>5. CallsInv'
    <3>1. created \in Nat /\ created' \in Nat /\ created <= created'
      BY <2>2 DEF MemoryInv, StoreInv
    <3>. QED  BY <2>2, <2>4, <3>1, Idle, CallEnds DEF MemoryInv
  <2>. QED  BY <1>0, <2>1, <2>2, <2>3, <2>5, MapsKeep DEF MemoryInv
<1>2. CASE ReadsInMemory(c, o)
  <2>1. PICK answer : call' = [call EXCEPT ![c] = Put(Put(o, "answer", answer), "at", "done")]
    BY <1>2 DEF ReadsInMemory, Answers
  <2>2. created' = created /\ UNCHANGED <<records, promised>>
    BY <1>0, <1>2 DEF ReadsInMemory, Counts
  <2>. DEFINE k == Put(Put(o, "answer", answer), "at", "done")
  <2>3. k.at = "done"
    BY Goes2
  <2>. HIDE DEF k
  <2>4. call' = [call EXCEPT ![c] = k]
    BY <2>1 DEF k
  <2>5. CallsInv'
    <3>1. created \in Nat /\ created' \in Nat /\ created <= created'
      BY <2>2 DEF MemoryInv, StoreInv
    <3>2. \A d \in Clients \ {c} : Uncommitted(call[d])'
      BY <2>2, <2>4, StillUncommitted DEF MemoryInv
    <3>. QED  BY <2>3, <2>4, <3>1, <3>2, CallEnds DEF MemoryInv
  <2>6. StoreInv'
    BY <1>0, <2>2, StoreBegins DEF MemoryInv, StoreInv
  <2>. QED  BY <1>0, <2>2, <2>5, <2>6, MapsNothing DEF MemoryInv
<1>3. CASE ForgetsInMemory(c, o)
  <2>1. o.session \in Sessions
    BY <1>3, AskedIs DEF ForgetsInMemory
  <2>2. created' = created /\ records' = records \ Of(o.session)
        /\ promised' = promised \ Of(o.session) /\ call' = [call EXCEPT ![c] = NoCall]
    BY <1>0, <1>3 DEF ForgetsInMemory, Counts, AnswersNothing
  <2>3. StoreInv'
    BY <1>0, <2>2, StoreBegins DEF MemoryInv, StoreInv
  <2>4. CallsInv'
    <3>1. created \in Nat /\ created' \in Nat /\ created <= created'
      BY <2>2 DEF MemoryInv, StoreInv
    <3>2. \A d \in Clients \ {c} : Uncommitted(call[d])'
      BY <2>2, StillUncommitted DEF MemoryInv
    <3>. QED  BY <2>2, <3>1, <3>2, Idle, CallEnds DEF MemoryInv
  <2>5. \A r \in Of(o.session) : r.session = o.session
    BY DEF Of
  <2>. QED  BY <1>0, <2>1, <2>2, <2>3, <2>4, <2>5, MapsClear DEF MemoryInv, StoreInv
<1>. QED  BY <1>1, <1>2, <1>3 DEF InMemory

LEMMA AsksStep ==
  ASSUME MemoryInv, begun < MaxCalls, begun' = begun + 1, NEW c \in Clients, NEW o \in Asked,
         AsksPostgres(c, o)
  PROVE  MemoryInv' /\ Maps
<1>1. PICK where \in {"executing", "preparing"} :
        call' = [call EXCEPT ![c] = Put(Put(o, "answer", <<>>), "at", where)]
  BY DEF AsksPostgres, Goes
<1>2. UNCHANGED <<backend, records, promised>> /\ Counts(o)
  BY DEF AsksPostgres
<1>. DEFINE k == Put(Put(o, "answer", <<>>), "at", where)
<1>3. /\ k.at = where /\ "op" \in DOMAIN k /\ k.op = o.op
      /\ "record" \in DOMAIN o => "record" \in DOMAIN k /\ k.record = o.record
      /\ "session" \in DOMAIN o => "session" \in DOMAIN k /\ k.session = o.session
  BY AskedIs, CarriesOn, Goes2
<1>4. call' = [call EXCEPT ![c] = k]
  BY <1>1
<1>. HIDE DEF k
<1>5. created' \in Nat /\ created \in Nat /\ created <= created' /\ begun' <= MaxCalls
      /\ created' <= begun' /\ (o.op = "append" => created' = created + 1)
  BY <1>2, ServiceAssumption DEF Counts, MemoryInv, StoreInv
<1>6. StoreInv'
  <2>1. created' \in {created, created + 1}
    BY <1>2 DEF Counts
  <2>2. promised' \subseteq records'
    BY <1>2 DEF MemoryInv, StoreInv
  <2>3. records' \subseteq records \cup {} /\ {} \in SUBSET Rec /\ \A r \in {} : r.n <= created'
    BY <1>2
  <2>. QED  BY <1>2, <2>1, <2>2, <2>3, StoreBegins DEF MemoryInv
<1>7. Carries(k)'
  BY <1>3, <1>5, AskedIs DEF Carries, Rec, Pending, Before
<1>8. Uncommitted(k)'
  BY <1>2, <1>3, AskedIs DEF Uncommitted
<1>9. \A d \in Clients \ {c} : Differ(k, call[d])
  <2>. SUFFICES ASSUME NEW d \in Clients, call[d].at \in Before, call[d].op = "append",
                       k.op = "append"
                PROVE  k.record # call[d].record
    BY DEF Differ
  <2>1. call[d].record \in Rec /\ call[d].record.n <= created
    BY DEF MemoryInv, CallsInv, Carries, Pending
  <2>2. call[d].record.n \in Nat
    BY <2>1 DEF Rec
  <2>3. k.record.n = created + 1
    BY <1>3, AskedIs
  <2>. QED  BY <1>5, <2>1, <2>2, <2>3
<1>10. CallsInv'
  BY <1>2, <1>4, <1>5, <1>7, <1>8, <1>9, CallChanges, StillUncommitted DEF MemoryInv
<1>. QED  BY <1>2, <1>6, <1>10, MapsNothing DEF MemoryInv

\* A step of a call after its beginning changes the records within the old
\* ones and one that is no younger than the last created.
LEMMA StoreGoesOn ==
  ASSUME StoreInv, begun' = begun, backend' = backend, created' = created,
         NEW new \in SUBSET Rec, \A r \in new : r.n <= created, records' \subseteq records \cup new,
         promised' \subseteq records'
  PROVE  StoreInv'
BY DEF StoreInv

\* A call that ends without a record more.
LEMMA EndsStep ==
  ASSUME MemoryInv, NEW c \in Clients, NEW k, k.at = "done", call' = [call EXCEPT ![c] = k],
         UNCHANGED <<begun, created>>, records' \subseteq records
  PROVE  CallsInv'
<1>1. created \in Nat /\ created' \in Nat /\ created <= created'
  BY DEF MemoryInv, StoreInv
<1>2. \A d \in Clients \ {c} : Uncommitted(call[d])'
  BY StillUncommitted DEF MemoryInv
<1>. QED  BY <1>1, <1>2, CallEnds DEF MemoryInv

\* A call that goes on before its commit, with what it carries.
LEMMA GoesStep ==
  ASSUME MemoryInv, NEW c \in Clients, call[c].at \in Before,
         NEW o, DOMAIN call[c] \subseteq DOMAIN o,
         o.op = call[c].op,
         call[c].op = "append" => o.record = call[c].record,
         call[c].op = "forget" => o.session = call[c].session,
         NEW where \in {"executing", "committing"},
         where = "committing" =>
           \/ o.op = "append"
           \/ o.op = "forget" /\ "gone" \in DOMAIN o /\ \A r \in o.gone : r.session = o.session,
         Goes(c, o, where),
         UNCHANGED <<backend, records, created, promised, begun>>
  PROVE  MemoryInv' /\ Maps
<1>. DEFINE k == Put(Put(o, "answer", <<>>), "at", where)
<1>1. "op" \in DOMAIN call[c] /\ Carries(call[c]) /\ Uncommitted(call[c]) /\ call[c].at \in Pending
  BY DEF MemoryInv, CallsInv, Carries, Pending
<1>2. k.at = where /\ "op" \in DOMAIN k /\ k.op = o.op
      /\ ("record" \in DOMAIN o => "record" \in DOMAIN k /\ k.record = o.record)
      /\ ("session" \in DOMAIN o => "session" \in DOMAIN k /\ k.session = o.session)
      /\ ("gone" \in DOMAIN o => "gone" \in DOMAIN k /\ k.gone = o.gone)
  BY <1>1, Goes2, CarriesOn
<1>3. call' = [call EXCEPT ![c] = k]
  BY DEF Goes
<1>. HIDE DEF k
<1>4. Carries(k)'
  BY <1>1, <1>2 DEF Carries, Pending, Before, Rec
<1>5. call[c].op = "append" => k.record = call[c].record
  BY <1>1, <1>2 DEF Carries
<1>6. Uncommitted(k)'
  BY <1>1, <1>2, <1>5 DEF Uncommitted
<1>7. \A d \in Clients \ {c} : Differ(k, call[d])
  <2>1. \A d \in Clients \ {c} : Differ(call[c], call[d])
    BY DEF MemoryInv, CallsInv
  <2>. QED  BY <1>2, <1>5, <2>1 DEF Differ
<1>8. \A d \in Clients \ {c} : Uncommitted(call[d])'
  BY <1>3, StillUncommitted DEF MemoryInv
<1>9. created \in Nat /\ created' \in Nat /\ created <= created'
  BY DEF MemoryInv, StoreInv
<1>10. CallsInv'
  BY <1>3, <1>4, <1>6, <1>7, <1>8, <1>9, CallChanges DEF MemoryInv
<1>11. StoreInv'
  BY DEF MemoryInv, StoreInv
<1>. QED  BY <1>10, <1>11, MapsNothing DEF MemoryInv

LEMMA PreparesStep ==
  ASSUME MemoryInv, begun' = begun, NEW c \in Clients, Prepares(c) PROVE MemoryInv' /\ Maps
<1>1. UNCHANGED <<backend, records, created, promised>> /\ call[c].at \in Before
  BY DEF Prepares, Before
<1>2. CASE Goes(c, call[c], "executing")
  BY <1>1, <1>2, GoesStep
<1>3. CASE AnswersNothing(c)
  <2>1. CallsInv'
    BY <1>1, <1>3, Idle, EndsStep DEF AnswersNothing
  <2>. QED  BY <1>1, <2>1, MapsNothing DEF MemoryInv, StoreInv
<1>. QED  BY <1>2, <1>3 DEF Prepares

LEMMA ExecutesStep ==
  ASSUME MemoryInv, begun' = begun, NEW c \in Clients, Executes(c) PROVE MemoryInv' /\ Maps
<1>. DEFINE o == call[c]
<1>1. UNCHANGED <<backend, records, created, promised>> /\ o.at = "executing" /\ o.at \in Before
  BY DEF Executes, Before
<1>2. "op" \in DOMAIN o /\ o.op \in {"append", "recent", "recall", "forget"} /\ Carries(o)
  BY <1>1 DEF MemoryInv, CallsInv, Carries, Pending
<1>3. CASE o.op \in {"recent", "recall"}
  <2>1. PICK answer : call' = [call EXCEPT ![c] = Put(Put(o, "answer", answer), "at", "done")]
    BY <1>3 DEF Executes, Answers
  <2>. DEFINE k == Put(Put(o, "answer", answer), "at", "done")
  <2>2. k.at = "done"
    BY Goes2
  <2>3. call' = [call EXCEPT ![c] = k]
    BY <2>1
  <2>. HIDE DEF k
  <2>4. CallsInv'
    BY <1>1, <2>2, <2>3, EndsStep
  <2>. QED  BY <1>1, <2>4, MapsNothing DEF MemoryInv, StoreInv
<1>4. CASE o.op = "forget"
  <2>. DEFINE marked == Put(o, "gone", Of(o.session))
  <2>1. Goes(c, marked, "committing")
    BY <1>4 DEF Executes
  <2>2. "session" \in DOMAIN o
    BY <1>1, <1>2, <1>4 DEF Carries, Pending
  <2>3. DOMAIN o \subseteq DOMAIN marked /\ "gone" \in DOMAIN marked /\ marked.gone = Of(o.session)
        /\ marked.op = o.op /\ marked.session = o.session
    BY <1>2, <2>2 DEF Put
  <2>4. \A r \in Of(o.session) : r.session = o.session
    BY DEF Of
  <2>. HIDE DEF marked
  <2>. QED  BY <1>1, <1>4, <2>1, <2>3, <2>4, GoesStep
<1>5. CASE o.op = "append"
  <2>1. Goes(c, o, "committing")
    BY <1>5 DEF Executes
  <2>. QED  BY <1>1, <1>5, <2>1, GoesStep
<1>. QED  BY <1>2, <1>3, <1>4, <1>5

LEMMA CommitsStep ==
  ASSUME MemoryInv, begun' = begun, NEW c \in Clients, Commits(c) PROVE MemoryInv' /\ Maps
<1>. SUFFICES ASSUME NEW o, o = call[c] PROVE MemoryInv' /\ Maps
  OBVIOUS
<1>. DEFINE k == Put(Put(o, "answer", <<>>), "at", "committed")
<1>1. UNCHANGED <<backend, created>> /\ o.at = "committing" /\ call' = [call EXCEPT ![c] = k]
  BY DEF Commits, Goes
<1>2. Carries(o) /\ Uncommitted(o) /\ o.at \in Pending /\ o.at \in Before
  BY <1>1 DEF MemoryInv, CallsInv, Pending, Before
<1>3. "op" \in DOMAIN o /\ o.op \in {"append", "forget"}
  BY <1>1, <1>2 DEF Carries
<1>4. k.at = "committed" /\ "op" \in DOMAIN k /\ k.op = o.op
      /\ ("record" \in DOMAIN o => "record" \in DOMAIN k /\ k.record = o.record)
      /\ ("session" \in DOMAIN o => "session" \in DOMAIN k /\ k.session = o.session)
  BY <1>3, Goes2, CarriesOn
<1>. HIDE DEF k
<1>5. Carries(k)' /\ Uncommitted(k)' /\ \A d \in Clients \ {c} : Differ(k, call[d])
  <2>1. Carries(k)'
    BY <1>1, <1>2, <1>3, <1>4 DEF Carries, Rec
  <2>. QED  BY <1>4, <2>1 DEF Uncommitted, Differ, Before
<1>6. created \in Nat /\ created' \in Nat /\ created <= created'
  BY <1>1 DEF MemoryInv, StoreInv
<1>7. CASE o.op = "append"
  <2>1. records' = records \cup {o.record} /\ promised' = promised
    BY <1>7 DEF Commits
  <2>2. o.record \in Rec /\ o.record.n <= created /\ o.record \notin records
    BY <1>2, <1>7 DEF Carries, Uncommitted
  <2>3. \A d \in Clients \ {c} : Differ(o, call[d]) /\ Uncommitted(call[d]) /\ call'[d] = call[d]
    BY <1>1 DEF MemoryInv, CallsInv
  <2>4. \A d \in Clients \ {c} : Uncommitted(call[d])'
    BY <1>2, <1>7, <2>1, <2>3 DEF Uncommitted, Differ
  <2>5. CallsInv'
    BY <1>1, <1>5, <1>6, <2>4, CallChanges DEF MemoryInv
  <2>6. StoreInv'
    <3>1. {o.record} \in SUBSET Rec /\ \A r \in {o.record} : r.n <= created
      BY <2>2
    <3>2. promised' \subseteq records' /\ records' \subseteq records \cup {o.record}
      BY <2>1 DEF MemoryInv, StoreInv
    <3>. QED  BY <1>1, <3>1, <3>2, StoreGoesOn DEF MemoryInv
  <2>. QED  BY <1>1, <2>1, <2>2, <2>5, <2>6, MapsKeep DEF MemoryInv
<1>8. CASE o.op = "forget"
  <2>1. records' = records \ o.gone /\ promised' = promised \ o.gone
    BY <1>8 DEF Commits
  <2>2. o.session \in Sessions /\ \A r \in o.gone : r.session = o.session
    BY <1>1, <1>2, <1>8 DEF Carries
  <2>3. CallsInv'
    <3>1. \A d \in Clients \ {c} : Uncommitted(call[d])'
      BY <1>1, <2>1, StillUncommitted DEF MemoryInv
    <3>. QED  BY <1>1, <1>5, <1>6, <3>1, CallChanges DEF MemoryInv
  <2>4. StoreInv'
    BY <1>1, <2>1 DEF MemoryInv, StoreInv
  <2>. QED  BY <1>1, <2>1, <2>2, <2>3, <2>4, MapsClear DEF MemoryInv, StoreInv
<1>. QED  BY <1>3, <1>7, <1>8

LEMMA ReturnsStep ==
  ASSUME MemoryInv, begun' = begun, NEW c \in Clients, Returns(c) PROVE MemoryInv' /\ Maps
<1>1. UNCHANGED <<backend, created, records>> /\ call[c].at = "committed"
      /\ call' = [call EXCEPT ![c] = NoCall]
  BY DEF Returns, AnswersNothing
<1>2. CallsInv'
  BY <1>1, Idle, EndsStep
<1>3. CASE promised' = promised
  BY <1>1, <1>2, <1>3, MapsNothing DEF MemoryInv, StoreInv
<1>4. CASE call[c].op = "append" /\ call[c].record \in records
  <2>1. promised' = promised \cup {call[c].record}
    BY <1>4 DEF Returns
  <2>2. call[c].record \in Rec
    BY <1>4 DEF MemoryInv, StoreInv
  <2>3. StoreInv'
    BY <1>1, <1>4, <2>1 DEF MemoryInv, StoreInv
  <2>. QED  BY <1>1, <1>2, <1>4, <2>1, <2>2, <2>3, MapsPromise DEF MemoryInv
<1>. QED  BY <1>3, <1>4 DEF Returns

LEMMA RaisesStep ==
  ASSUME MemoryInv, begun' = begun, NEW c \in Clients, Raises(c) PROVE MemoryInv' /\ Maps
<1>1. UNCHANGED <<backend, created, records, promised>> /\ call' = [call EXCEPT ![c] = NoCall]
  BY DEF Raises, AnswersNothing
<1>2. CallsInv'
  BY <1>1, Idle, EndsStep
<1>. QED  BY <1>1, <1>2, MapsNothing DEF MemoryInv, StoreInv

LEMMA RestartsStep == ASSUME MemoryInv, Restarts PROVE MemoryInv' /\ Maps
<1>1. backend' = backend /\ created' = created /\ begun' = begun
      /\ call' = [c \in Clients |-> NoCall]
      /\ (IF backend = "memory" THEN records' = {} /\ promised' = {}
          ELSE UNCHANGED <<records, promised>>)
  BY DEF Restarts, StoresRestart
<1>2. CallsInv'
  BY <1>1, Idle DEF CallsInv, Carries, Uncommitted, Differ, Pending, Before
<1>3. StoreInv'
  BY <1>1 DEF MemoryInv, StoreInv
<1>4. CASE backend = "memory"
  <2>1. Promises!EndProcess
    BY <1>1, <1>4 DEF Promises!EndProcess
  <2>. QED  BY <1>2, <1>3, <2>1 DEF MemoryInv, Maps, Promises!Next
<1>5. CASE backend # "memory"
  BY <1>1, <1>2, <1>3, <1>5, MapsNothing DEF MemoryInv
<1>. QED  BY <1>4, <1>5

\* Every step keeps the invariant, and is one of the promised ones or none.
LEMMA MemoryStep == MemoryInv /\ [Next]_vars => MemoryInv' /\ Maps
<1>. SUFFICES ASSUME MemoryInv, [Next]_vars PROVE MemoryInv' /\ Maps
  OBVIOUS
<1>1. ASSUME UNCHANGED storeVars, UNCHANGED begun \/ (begun < MaxCalls /\ begun' = begun + 1)
      PROVE  MemoryInv' /\ Maps
  <2>1. CallsInv'
    BY <1>1 DEF storeVars, MemoryInv, CallsInv, Carries, Uncommitted, Differ
  <2>2. StoreInv'
    BY <1>1, ServiceAssumption DEF storeVars, MemoryInv, StoreInv
  <2>. QED  BY <1>1, <2>1, <2>2, MapsNothing DEF storeVars, MemoryInv
<1>2. CASE \E c \in Clients : Calls(c)
  <2>1. PICK c \in Clients : Calls(c)
    BY <1>2
  <2>2. CASE \E o \in Asked : Begins(c, o)
    BY <2>1, <2>2, InMemoryStep, AsksStep DEF Calls, Begins
  <2>. QED  BY <1>1, <2>1, <2>2 DEF Calls
<1>3. CASE \E c \in Clients : Continues(c)
  <2>1. PICK c \in Clients : Continues(c)
    BY <1>3
  <2>2. CASE Postgres(c)
    BY <2>1, <2>2, PreparesStep, ExecutesStep, CommitsStep, ReturnsStep, RaisesStep
    DEF Continues, Postgres
  <2>. QED  BY <1>1, <2>1, <2>2 DEF Continues
<1>4. CASE Restarts
  BY <1>4, RestartsStep
<1>5. CASE UNCHANGED vars
  BY <1>1, <1>5 DEF vars, storeVars
<1>. QED  BY <1>2, <1>3, <1>4, <1>5 DEF Next

LEMMA MemoryInit == Init => MemoryInv /\ Promises!Init
<1>. SUFFICES ASSUME Init PROVE MemoryInv /\ Promises!Init
  OBVIOUS
<1>1. StoreInv
  BY ServiceAssumption DEF Init, InitStores, StoreInv
<1>2. CallsInv
  BY Idle DEF Init, InitStores, CallsInv, Carries, Uncommitted, Differ, Pending, Before
<1>3. Promises!Init
  BY DEF Init, InitStores, Promises!Init
<1>. QED  BY <1>1, <1>2, <1>3 DEF MemoryInv

-----------------------------------------------------------------------------
\* Both stores keep what they promise: an answered append survives other
\* clients, failures of the database and, in the table, a restart.
THEOREM SessionsAreKept == Spec => KeepsSessions
<1>1. MemoryInv /\ [Next]_vars => MemoryInv' /\ [Promises!Next]_(Promises!vars)
  BY MemoryStep DEF Maps
<1>. QED  BY <1>1, MemoryInit, PTL DEF Spec, KeepsSessions, Promises!Spec

-----------------------------------------------------------------------------
(* Sorting *)

\* An induction on numbers.
LEMMA Least ==
  ASSUME NEW Bad \in SUBSET Nat, Bad # {}
  PROVE  \E m \in Bad : \A n \in Nat : n < m => n \notin Bad
<1>1. PICK m \in Bad : \A n \in Bad : <<n, m>> \notin OpToRel(<, Nat)
  BY WFMin, NatLessThanWellFounded, Zenon
<1>2. \A n \in Nat : n < m => <<n, m>> \in OpToRel(<, Nat)
  BY DEF OpToRel
<1>. QED  BY <1>1, <1>2

\* R orders the members of S.
Orders(R, S) ==
  /\ \A a, b \in S : a # b => <<a, b>> \in R \/ <<b, a>> \in R
  /\ \A a, b, c \in S : <<a, b>> \in R /\ <<b, c>> \in R => <<a, c>> \in R

\* Of finitely many, one comes last.
LEMMA LastExists ==
  ASSUME NEW S, IsFiniteSet(S), S # {}, NEW R, Orders(R, S)
  PROVE  \E x \in S : \A y \in S \ {x} : <<y, x>> \in R
<1>. DEFINE HasLast(T) == \E x \in T : \A y \in T \ {x} : <<y, x>> \in R
            Bad == {n \in Nat : \E T \in SUBSET S : T # {} /\ Cardinality(T) = n /\ ~HasLast(T)}
<1>1. \A T \in SUBSET S : IsFiniteSet(T) /\ Cardinality(T) \in Nat
  BY FS_Subset, FS_CardinalityType
<1>2. Bad = {}
  <2>. SUFFICES ASSUME Bad # {} PROVE FALSE
    OBVIOUS
  <2>1. PICK n \in Bad : \A m \in Nat : m < n => m \notin Bad
    <3>1. Bad \in SUBSET Nat
      OBVIOUS
    <3>. HIDE DEF Bad
    <3>. QED  BY <3>1, Least, Zenon
  <2>2. PICK T \in SUBSET S : T # {} /\ Cardinality(T) = n /\ ~HasLast(T)
    OBVIOUS
  <2>3. PICK x \in T : TRUE
    BY <2>2
  <2>. DEFINE U == T \ {x}
  <2>4. U \in SUBSET S /\ Cardinality(U) \in Nat /\ Cardinality(U) < n
    BY <1>1, <2>2, <2>3, FS_RemoveElement
  <2>5. U # {}
    BY <2>2, <2>3
  <2>. HIDE DEF HasLast
  <2>6. HasLast(U)
    BY <2>1, <2>4, <2>5
  <2>7. PICK z \in U : \A y \in U \ {z} : <<y, z>> \in R
    BY <2>6 DEF HasLast
  <2>8. CASE <<z, x>> \in R
    <3>1. \A y \in T \ {x} : <<y, x>> \in R
      BY <2>2, <2>3, <2>7, <2>8 DEF Orders
    <3>. QED  BY <2>2, <2>3, <3>1 DEF HasLast
  <2>9. CASE <<z, x>> \notin R
    <3>1. <<x, z>> \in R
      BY <2>2, <2>3, <2>7, <2>9 DEF Orders
    <3>2. z \in T /\ \A y \in T \ {z} : <<y, z>> \in R
      BY <2>7, <3>1
    <3>. QED  BY <2>2, <3>2 DEF HasLast
  <2>. QED  BY <2>8, <2>9
<1>3. HasLast(S)
  <2>. HIDE DEF HasLast
  <2>1. S \in SUBSET S /\ Cardinality(S) \in Nat /\ Cardinality(S) \notin Bad
    BY <1>1, <1>2
  <2>. QED  BY <2>1
<1>. QED  BY <1>3

InOrder(R, seq) == \A i, j \in DOMAIN seq : i < j => <<seq[i], seq[j]>> \in R

\* Finitely many can be put in order.
LEMMA SortExists ==
  ASSUME NEW S, IsFiniteSet(S), NEW R, Orders(R, S)
  PROVE  \E seq \in SetToSeqs(S) : InOrder(R, seq)
<1>. DEFINE Sorts(T) == \E seq \in SetToSeqs(T) : InOrder(R, seq)
            Bad == {n \in Nat : \E T \in SUBSET S : Cardinality(T) = n /\ ~Sorts(T)}
<1>1. \A T \in SUBSET S : IsFiniteSet(T) /\ Cardinality(T) \in Nat
  BY FS_Subset, FS_CardinalityType
<1>2. Bad = {}
  <2>. SUFFICES ASSUME Bad # {} PROVE FALSE
    OBVIOUS
  <2>1. PICK n \in Bad : \A m \in Nat : m < n => m \notin Bad
    <3>1. Bad \in SUBSET Nat
      OBVIOUS
    <3>. HIDE DEF Bad
    <3>. QED  BY <3>1, Least, Zenon
  <2>2. PICK T \in SUBSET S : Cardinality(T) = n /\ ~Sorts(T)
    OBVIOUS
  <2>3. CASE T = {}
    <3>1. n = 0
      BY <2>2, <2>3, FS_EmptySet
    <3>. DEFINE none == [i \in 1 .. 0 |-> {}]
    <3>2. none \in [1 .. 0 -> {}] /\ DOMAIN none = {}
      OBVIOUS
    <3>. HIDE DEF none
    <3>3. none \in SetToSeqs(T) /\ InOrder(R, none)
      BY <2>2, <2>3, <3>1, <3>2 DEF SetToSeqs, InOrder
    <3>. QED  BY <2>2, <3>3
  <2>4. CASE T # {}
    <3>1. PICK x \in T : \A y \in T \ {x} : <<y, x>> \in R
      <4>1. IsFiniteSet(T) /\ Orders(R, T)
        BY <1>1 DEF Orders
      <4>. QED  BY <2>4, <4>1, LastExists
    <3>2. T \ {x} \in SUBSET S /\ Cardinality(T \ {x}) \in Nat
          /\ n \in Nat /\ Cardinality(T \ {x}) = n - 1
      BY <1>1, <2>2, FS_RemoveElement
    <3>. HIDE DEF Sorts
    <3>3. Sorts(T \ {x})
      BY <2>1, <3>2
    <3>4. PICK seq \in SetToSeqs(T \ {x}) : InOrder(R, seq)
      BY <3>3 DEF Sorts
    <3>5. /\ seq \in [1 .. n - 1 -> T \ {x}]
          /\ \A i, j \in 1 .. n - 1 : i # j => seq[i] # seq[j]
          /\ \A i, j \in 1 .. n - 1 : i < j => <<seq[i], seq[j]>> \in R
      BY <3>2, <3>4 DEF SetToSeqs, InOrder
    <3>. DEFINE all == [i \in 1 .. n |-> IF i = n THEN x ELSE seq[i]]
    <3>6. /\ all \in [1 .. n -> T]
          /\ \A i, j \in 1 .. n : i # j => all[i] # all[j]
          /\ \A i, j \in 1 .. n : i < j => <<all[i], all[j]>> \in R
      BY <3>1, <3>2, <3>5
    <3>. HIDE DEF all
    <3>7. all \in SetToSeqs(T) /\ InOrder(R, all)
      BY <2>2, <3>6 DEF SetToSeqs, InOrder
    <3>. QED  BY <2>2, <3>7 DEF Sorts
  <2>. QED  BY <2>3, <2>4
<1>. HIDE DEF Sorts
<1>3. Sorts(S)
  BY <1>1, <1>2
<1>. QED  BY <1>3 DEF Sorts

\* A sequence of all the members of a finite set, each once, has them all.
LEMMA SeqsAreFull ==
  ASSUME NEW S, IsFiniteSet(S), NEW seq \in SetToSeqs(S)
  PROVE  /\ Cardinality(S) \in Nat /\ seq \in [1 .. Cardinality(S) -> S]
         /\ \A i, j \in 1 .. Cardinality(S) : i # j => seq[i] # seq[j]
         /\ \A x \in S : \E i \in 1 .. Cardinality(S) : seq[i] = x
<1>. DEFINE n == Cardinality(S)
<1>1. n \in Nat
  BY FS_CardinalityType
<1>2. seq \in [1 .. n -> S] /\ \A i, j \in 1 .. n : i # j => seq[i] # seq[j]
  BY DEF SetToSeqs
<1>. HIDE DEF n
<1>3. seq \in Injection(1 .. n, S)
  BY <1>2 DEF Injection, IsInjective
<1>4. Cardinality(1 .. n) = n
  <2>1. Cardinality(1 .. n) = IF 1 > n THEN 0 ELSE n - 1 + 1
    BY <1>1, FS_Interval
  <2>. QED  BY <1>1, <2>1
<1>5. seq \in Surjection(1 .. n, S)
  BY <1>3, <1>4, FS_Injection, Zenon DEF n
<1>. QED  BY <1>1, <1>2, <1>5 DEF Surjection, n

\* How records are ranked is an order, where every record has its own time.
LEMMA RankOrders ==
  ASSUME NEW S \in SUBSET Rec, \A r, q \in S : r.n = q.n => r = q, NEW words
  PROVE  Orders({p \in S \X S : Outranks(p[1], p[2], words)}, S)
<1>1. \A r \in S : r.n \in Int
  BY DEF Rec
<1>2. \A r \in S : Overlap(r, words) \in Int
  <2>. SUFFICES ASSUME NEW r \in S PROVE Overlap(r, words) \in Int
    OBVIOUS
  <2>1. r.words \cap words \in SUBSET Words
    BY DEF Rec
  <2>2. IsFiniteSet(r.words \cap words)
    BY <2>1, StoresAssumption, FS_Subset
  <2>. QED  BY <2>2, FS_CardinalityType DEF Overlap
<1>3. \A a, b \in S : a # b => Outranks(a, b, words) \/ Outranks(b, a, words)
  BY <1>1, <1>2 DEF Outranks
<1>4. \A a, b, c \in S :
        Outranks(a, b, words) /\ Outranks(b, c, words) => Outranks(a, c, words)
  BY <1>1, <1>2 DEF Outranks
<1>. QED  BY <1>3, <1>4 DEF Orders

\* The ranking holds every record once, each before those it outranks.
LEMMA RankedIs ==
  ASSUME NEW S \in SUBSET Rec, IsFiniteSet(S), \A r, q \in S : r.n = q.n => r = q, NEW words
  PROVE  LET seq == Ranked(S, words) IN
         /\ Cardinality(S) \in Nat /\ seq \in [1 .. Cardinality(S) -> S]
         /\ \A x \in S : \E i \in 1 .. Cardinality(S) : seq[i] = x
         /\ \A i, j \in 1 .. Cardinality(S) : i < j => Outranks(seq[i], seq[j], words)
<1>. DEFINE R == {p \in S \X S : Outranks(p[1], p[2], words)}
            InRank(seq) == \A i, j \in DOMAIN seq : i < j => Outranks(seq[i], seq[j], words)
            best == Ranked(S, words)
<1>1. Orders(R, S)
  BY RankOrders
<1>2. PICK seq \in SetToSeqs(S) : InOrder(R, seq)
  <2>. HIDE DEF R
  <2>. QED  BY <1>1, SortExists
<1>3. InRank(seq)
  BY <1>2 DEF InOrder
<1>4. best \in SetToSeqs(S) /\ InRank(best)
  BY <1>3, Zenon DEF Ranked
<1>. HIDE DEF best
<1>5. /\ Cardinality(S) \in Nat /\ best \in [1 .. Cardinality(S) -> S]
      /\ \A x \in S : \E i \in 1 .. Cardinality(S) : best[i] = x
  BY <1>4, SeqsAreFull
<1>. QED  BY <1>4, <1>5 DEF best

\* What the first of the ranking leave out.
LEMMA FirstAreBest ==
  ASSUME NEW S \in SUBSET Rec, IsFiniteSet(S), \A r, q \in S : r.n = q.n => r = q, NEW words
  PROVE  Best(FirstOf(Limit, Ranked(S, words)), S, words)
<1>. DEFINE seq == Ranked(S, words)
            n == Cardinality(S)
            answer == FirstOf(Limit, seq)
<1>1. /\ n \in Nat /\ seq \in [1 .. n -> S]
      /\ \A x \in S : \E i \in 1 .. n : seq[i] = x
      /\ \A i, j \in 1 .. n : i < j => Outranks(seq[i], seq[j], words)
  BY RankedIs
<1>. HIDE DEF seq, n
<1>2. seq \in Seq(S) /\ Len(seq) = n /\ Limit \in Nat \ {0}
  BY <1>1, StoresAssumption
<1>3. CASE n <= Limit
  <2>1. answer = seq
    BY <1>1, <1>2, <1>3 DEF FirstOf
  <2>2. S \ ToSet(answer) = {}
    BY <1>1, <1>2, <2>1 DEF ToSet
  <2>. QED  BY <2>2 DEF Best, seq
<1>4. CASE n > Limit
  <2>1. answer = SubSeq(seq, 1, Limit)
    BY <1>1, <1>2, <1>4 DEF FirstOf
  <2>2. DOMAIN answer = 1 .. Limit /\ Len(answer) = Limit
        /\ \A i \in 1 .. Limit : answer[i] = seq[i]
    BY <1>1, <1>2, <1>4, <2>1
  <2>. HIDE DEF answer
  <2>3. ASSUME NEW r \in ToSet(answer), NEW l \in S \ ToSet(answer)
        PROVE  Outranks(r, l, words)
    <3>1. PICK i \in 1 .. Limit : r = seq[i]
      BY <2>2 DEF ToSet
    <3>2. PICK j \in 1 .. n : l = seq[j]
      BY <1>1
    <3>3. j > Limit
      BY <1>1, <1>2, <2>2, <3>2 DEF ToSet
    <3>. QED  BY <1>1, <1>2, <1>4, <3>1, <3>2, <3>3
  <2>4. Best(answer, S, words)
    BY <2>2, <2>3 DEF Best, Outranks
  <2>. QED  BY <2>4 DEF answer, seq
<1>. QED  BY <1>1, <1>2, <1>3, <1>4

-----------------------------------------------------------------------------
(* Recall *)

\* The list in memory is finite, each of its records has a time of its own, and
\* a call of it ends in the step it begins in.
ListInv ==
  backend = "memory" =>
    /\ \A c \in Clients : call[c].at = "done"
    /\ IsFiniteSet(records)
    /\ \A r, q \in records : r.n = q.n => r = q

LEMMA ListStart == Init => ListInv
BY FS_EmptySet DEF Init, InitStores, NoCall, ListInv

LEMMA ListStep == MemoryInv /\ ListInv /\ [Next]_vars => ListInv'
<1>. SUFFICES ASSUME MemoryInv, ListInv, [Next]_vars PROVE ListInv'
  OBVIOUS
<1>1. CASE backend # "memory"
  <2>1. backend' = backend
    BY Zenon DEF Next, Calls, Continues, Restarts, Begins, InMemory, AsksPostgres, Postgres,
         Prepares, Executes, Commits, Returns, Raises, StoresRestart, vars, storeVars
  <2>. QED  BY <1>1, <2>1 DEF ListInv
<1>2. CASE backend = "memory"
  <2>. DEFINE Done == \A d \in Clients : call'[d].at = "done"
  <2>1. \A c \in Clients : call[c].at = "done"
    BY <1>2 DEF ListInv
  <2>2. IsFiniteSet(records) /\ \A r, q \in records : r.n = q.n => r = q
    BY <1>2 DEF ListInv
  <2>3. ASSUME records' \subseteq records, Done PROVE ListInv'
    BY <2>2, <2>3, FS_Subset DEF ListInv
  <2>4. ASSUME NEW c \in Clients, NEW k, k.at = "done", call' = [call EXCEPT ![c] = k] PROVE Done
    BY <2>1, <2>4 DEF MemoryInv, CallsInv
  <2>5. CASE UNCHANGED storeVars
    BY <2>1, <2>3, <2>5 DEF storeVars
  <2>6. ASSUME NEW c \in Clients, NEW o \in Asked, begun < MaxCalls, InMemory(c, o) PROVE ListInv'
    <3>1. CASE AppendsInMemory(c, o)
      <4>1. call' = [call EXCEPT ![c] = NoCall] /\ records' = records \cup {o.record}
        BY <3>1 DEF AppendsInMemory, AnswersNothing
      <4>2. Done
        BY <2>4, <4>1 DEF NoCall
      <4>3. o.record.n = created + 1
        BY <2>6, <3>1, AskedIs DEF AppendsInMemory
      <4>4. created \in Nat /\ \A r \in records : r.n \in Nat /\ r.n <= created
        BY DEF MemoryInv, StoreInv, Rec
      <4>5. \A r, q \in records' : r.n = q.n => r = q
        BY <2>2, <4>1, <4>3, <4>4
      <4>6. IsFiniteSet(records')
        BY <2>2, <4>1, FS_AddElement
      <4>. QED  BY <4>2, <4>5, <4>6 DEF ListInv
    <3>2. CASE ReadsInMemory(c, o)
      <4>1. PICK answer : call' = [call EXCEPT ![c] = Put(Put(o, "answer", answer), "at", "done")]
        BY <3>2, Zenon DEF ReadsInMemory, Answers
      <4>. DEFINE k == Put(Put(o, "answer", answer), "at", "done")
      <4>2. k.at = "done"
        BY Goes2
      <4>. HIDE DEF k
      <4>3. Done
        BY <2>4, <4>1, <4>2 DEF k
      <4>. QED  BY <2>3, <3>2, <4>3 DEF ReadsInMemory
    <3>3. CASE ForgetsInMemory(c, o)
      <4>1. call' = [call EXCEPT ![c] = NoCall] /\ records' \subseteq records
        BY <3>3 DEF ForgetsInMemory, AnswersNothing
      <4>2. Done
        BY <2>4, <4>1 DEF NoCall
      <4>. QED  BY <2>3, <4>1, <4>2
    <3>. QED  BY <2>6, <3>1, <3>2, <3>3 DEF InMemory
  <2>7. CASE Restarts
    BY <1>2, <2>3, <2>7 DEF Restarts, StoresRestart, NoCall
  <2>8. CASE \E c \in Clients : Calls(c)
    BY <1>2, <2>5, <2>6, <2>8 DEF Calls, Begins, AsksPostgres
  <2>9. CASE \E c \in Clients : Continues(c)
    <3>1. \A c \in Clients : ~Postgres(c)
      BY <2>1 DEF Postgres, Prepares, Executes, Commits, Returns, Raises
    <3>. QED  BY <2>5, <2>9, <3>1 DEF Continues
  <2>10. CASE UNCHANGED vars
    BY <2>5, <2>10 DEF vars
  <2>. QED  BY <2>7, <2>8, <2>9, <2>10 DEF Next
<1>. QED  BY <1>1, <1>2

LEMMA ListInvariant == Spec => [](MemoryInv /\ ListInv)
<1>1. MemoryInv /\ [Next]_vars => MemoryInv'
  BY MemoryStep
<1>. QED  BY <1>1, MemoryInit, ListStart, ListStep, PTL DEF Spec

\* The fields of what is asked.
LEMMA AskedHas ==
  ASSUME NEW o \in Asked
  PROVE  /\ "op" \in DOMAIN o
         /\ o.op = "recall" => DOMAIN o = {"op", "session", "words"}
BY DEF Asked

\* Recall of the list in memory returns the best matches: whatever it leaves
\* out shares fewer words than all it returns, or as many and is older.
THEOREM RecallsAreBest == Spec => RecallIsBest
<1>. DEFINE Recalls(c) == backend = "memory" /\ Answered(c) /\ call'[c].op = "recall"
                            /\ call'[c].words # {}
            BestTo(c) ==
              LET o == call'[c]
              IN  Best(o.answer, {r \in Of(o.session) : Overlap(r, o.words) > 0}, o.words)
            RanksBest(c) ==
              LET o == call'[c] IN
              backend = "memory" /\ Answered(c) /\ o.op = "recall" /\ o.words # {}
                => Best(o.answer, {r \in Of(o.session) : Overlap(r, o.words) > 0}, o.words)
<1>1. MemoryInv /\ ListInv /\ [Next]_vars => [\A c \in Clients : RanksBest(c)]_vars
  <2>. SUFFICES ASSUME MemoryInv, ListInv, Next, NEW c \in Clients, Recalls(c)
                PROVE  BestTo(c)
    OBVIOUS
  <2>0. backend = "memory" /\ begun' = begun + 1 /\ begun \in Nat /\ call'[c] # call[c]
        /\ call'[c].op = "recall" /\ call'[c].words # {}
    BY DEF Answered, MemoryInv, StoreInv
  <2>1. PICK d \in Clients, o \in Asked : InMemory(d, o)
    <3>1. begun' # begun
      BY <2>0
    <3>2. PICK d \in Clients : Calls(d)
      BY <3>1, Zenon DEF Next, Continues, Restarts
    <3>3. ~UNCHANGED storeVars
      BY <2>0 DEF storeVars
    <3>. QED  BY <2>0, <3>2, <3>3 DEF Calls, Begins, AsksPostgres
  <2>2. c = d
    <3>1. \E k : call' = [call EXCEPT ![d] = k]
      BY <2>1, Zenon DEF InMemory, AppendsInMemory, ReadsInMemory, ForgetsInMemory, Answers,
                         AnswersNothing
    <3>. QED  BY <2>0, <3>1 DEF MemoryInv, CallsInv
  <2>3. o.op = "recall" /\ Answers(c, o, RecallInMemory(o.session, o.words))
    <3>1. CASE AnswersNothing(c)
      <4>1. call'[c] = NoCall
        BY <3>1 DEF AnswersNothing, MemoryInv, CallsInv
      <4>. QED  BY <2>0, <4>1 DEF NoCall
    <3>2. CASE o.op = "recent" /\ Answers(c, o, RecentInMemory(o.session))
      <4>. DEFINE k == Put(Put(o, "answer", RecentInMemory(o.session)), "at", "done")
      <4>1. call'[c] = k
        BY <3>2, Zenon DEF Answers, MemoryInv, CallsInv
      <4>2. k.op = o.op
        BY <2>1, AskedHas, CarriesOn
      <4>. HIDE DEF k
      <4>. QED  BY <2>0, <3>2, <4>1, <4>2
    <3>. QED  BY <2>1, <2>2, <3>1, <3>2
              DEF InMemory, AppendsInMemory, ReadsInMemory, ForgetsInMemory
  <2>. DEFINE answer == RecallInMemory(o.session, o.words)
              k == Put(Put(o, "answer", answer), "at", "done")
  <2>4. call'[c] = k
    BY <2>3, Zenon DEF Answers, MemoryInv, CallsInv
  <2>5. k.answer = answer /\ k.session = o.session /\ k.words = o.words
    <3>1. DOMAIN o = {"op", "session", "words"}
      BY <2>3, AskedHas
    <3>. HIDE DEF answer
    <3>. QED  BY <3>1 DEF Put
  <2>. HIDE DEF k
  <2>. DEFINE S == {r \in Of(o.session) : Overlap(r, o.words) > 0}
  <2>6. answer = FirstOf(Limit, Ranked(S, o.words))
    BY <2>0, <2>4, <2>5, Zenon DEF RecallInMemory
  <2>7. S \in SUBSET Rec /\ IsFiniteSet(S) /\ \A r, q \in S : r.n = q.n => r = q
    <3>1. S \in SUBSET records
      BY DEF Of
    <3>. HIDE DEF S
    <3>. QED  BY <2>0, <3>1, FS_Subset DEF MemoryInv, StoreInv, ListInv
  <2>8. Best(answer, S, o.words)
    <3>. HIDE DEF S
    <3>. QED  BY <2>6, <2>7, FirstAreBest
  <2>. QED  BY <2>4, <2>5, <2>8
<1>. QED  BY <1>1, ListInvariant, PTL DEF Spec, RecallIsBest

-----------------------------------------------------------------------------
(* get_related *)

Start(e) == [seen |-> {e}, found |-> {}]

\* What the walk has after each subset of the rows, as FoldLeft has it.
IsWalk(w, e, order, D) ==
  w = [s \in SUBSET D |->
         IF s = {} THEN Start(e) ELSE Visits(order[Max(s)], w[s \ {Max(s)}])]

LEMMA WalkIs ==
  ASSUME NEW e, NEW order, \E w : IsWalk(w, e, order, DOMAIN order)
  PROVE  \E w : /\ IsWalk(w, e, order, DOMAIN order)
                /\ FoldLeft(LAMBDA walk, t : Visits(t, walk), [seen |-> {e}, found |-> {}], order)
                     = w[DOMAIN order]
<1>. DEFINE w == CHOOSE v : IsWalk(v, e, order, DOMAIN order)
<1>1. IsWalk(w, e, order, DOMAIN order)
  OBVIOUS
<1>2. FoldLeft(LAMBDA walk, t : Visits(t, walk), [seen |-> {e}, found |-> {}], order)
        = w[DOMAIN order]
  BY Zenon DEF FoldLeft, MapThenFoldSet, IsWalk, Start
<1>. QED  BY <1>1, <1>2

\* The greatest of some indices is one of them.
LEMMA MaxIsIn ==
  ASSUME NEW n \in Nat, NEW s \in SUBSET (1 .. n), s # {}
  PROVE  Max(s) \in s
<1>. DEFINE Bounds == {k \in Nat : \A i \in s : i <= k}
<1>1. Bounds # {} /\ Bounds \in SUBSET Nat
  OBVIOUS
<1>2. PICK k \in Bounds : \A m \in Nat : m < k => m \notin Bounds
  <2>. HIDE DEF Bounds
  <2>. QED  BY <1>1, Least
<1>3. k \in s
  <2>1. k # 0
    <3>1. PICK i \in s : i \in 1 .. n
      OBVIOUS
    <3>2. i <= k
      OBVIOUS
    <3>. QED  BY <3>1, <3>2
  <2>2. k - 1 \in Nat /\ k - 1 \notin Bounds
    BY <1>2, <2>1
  <2>3. PICK i \in s : ~(i <= k - 1)
    BY <2>2
  <2>. QED  BY <2>3
<1>4. \A i \in s : k >= i
  OBVIOUS
<1>. QED  BY <1>3, <1>4 DEF Max

LEMMA WalkExists ==
  ASSUME NEW e, NEW order, NEW size \in Nat
  PROVE  \E w : IsWalk(w, e, order, 1 .. size)
<1>. DEFINE D == 1 .. size
            Small(n) == {s \in SUBSET D : Cardinality(s) <= n}
            Upto(w, n) == w = [s \in Small(n) |->
                IF s = {} THEN Start(e) ELSE Visits(order[Max(s)], w[s \ {Max(s)}])]
            Bad == {n \in Nat : ~\E w : Upto(w, n)}
<1>0. IsFiniteSet(D)
  BY FS_Interval
<1>1. \A s \in SUBSET D : IsFiniteSet(s) /\ Cardinality(s) \in Nat /\ Cardinality(s) <= Cardinality(D)
  <2>. HIDE DEF D
  <2>. QED  BY <1>0, FS_Subset, FS_CardinalityType
<1>2. \A s \in SUBSET D : s # {} =>
        s \ {Max(s)} \in SUBSET D /\ Cardinality(s \ {Max(s)}) = Cardinality(s) - 1
  BY <1>1, MaxIsIn, FS_RemoveElement
<1>. HIDE DEF D
<1>3. \A s \in SUBSET D : s # {} => Cardinality(s) > 0
  BY <1>1, FS_EmptySet
<1>4. Upto([s \in Small(0) |-> Start(e)], 0)
  BY <1>1, <1>3
<1>5. ASSUME NEW n \in Nat, NEW w, Upto(w, n) PROVE \E v : Upto(v, n + 1)
  <2>. DEFINE v == [s \in Small(n + 1) |->
                IF s = {} THEN Start(e) ELSE Visits(order[Max(s)], w[s \ {Max(s)}])]
  <2>0. \A s \in Small(n) :
          w[s] = IF s = {} THEN Start(e) ELSE Visits(order[Max(s)], w[s \ {Max(s)}])
    <3>. HIDE DEF Small
    <3>. QED  BY <1>5
  <2>1. \A s \in Small(n) : s \in Small(n + 1) /\ v[s] = w[s]
    <3>1. \A s \in Small(n) : s \in Small(n + 1)
      BY <1>1
    <3>. HIDE DEF Small
    <3>. QED  BY <2>0, <3>1
  <2>2. \A s \in Small(n + 1) : s # {} => s \ {Max(s)} \in Small(n)
    BY <1>1, <1>2
  <2>3. v = [s \in Small(n + 1) |->
               IF s = {} THEN Start(e) ELSE Visits(order[Max(s)], v[s \ {Max(s)}])]
    BY <2>1, <2>2
  <2>. QED  BY <2>3
<1>6. Bad = {}
  <2>. SUFFICES ASSUME Bad # {} PROVE FALSE
    OBVIOUS
  <2>1. PICK n \in Bad : \A m \in Nat : m < n => m \notin Bad
    <3>1. Bad \in SUBSET Nat
      OBVIOUS
    <3>. HIDE DEF Bad
    <3>. QED  BY <3>1, Least, Zenon
  <2>2. n # 0
    BY <1>4
  <2>3. n - 1 \in Nat /\ n - 1 < n
    BY <2>2
  <2>4. PICK w : Upto(w, n - 1)
    BY <2>1, <2>3
  <2>5. \E v : Upto(v, (n - 1) + 1)
    BY <1>5, <2>3, <2>4
  <2>6. (n - 1) + 1 = n
    OBVIOUS
  <2>7. n \in Nat /\ ~\E v : Upto(v, n)
    OBVIOUS
  <2>. HIDE DEF Upto
  <2>. QED  BY <2>5, <2>6, <2>7
<1>7. Small(Cardinality(D)) = SUBSET D
  BY <1>1
<1>8. Cardinality(D) \in Nat
  BY <1>0, FS_CardinalityType
<1>9. PICK w : Upto(w, Cardinality(D))
  BY <1>6, <1>8
<1>. QED  BY <1>7, <1>9 DEF IsWalk, D

\* The walk has seen what the rows it found mention, and every row it passed.
Covers(w, e, order, s) ==
  /\ w.seen = {e} \cup UNION {Ends(t) : t \in w.found}
  /\ w.found \subseteq {order[i] : i \in s}
  /\ \A i \in s : Ends(order[i]) \subseteq w.seen

LEMMA VisitCovers ==
  ASSUME NEW e, NEW order, NEW s, NEW x, NEW w, Covers(w, e, order, s)
  PROVE  Covers(Visits(order[x], w), e, order, s \cup {x})
<1>. DEFINE t == order[x]
            v == Visits(t, w)
<1>1. v.seen = w.seen \cup Ends(t)
      /\ v.found = IF FreshMention(t, w.seen) THEN w.found \cup {t} ELSE w.found
  BY DEF Visits
<1>. HIDE DEF v
<1>2. CASE FreshMention(t, w.seen)
  <2>1. v.found = w.found \cup {t}
    BY <1>1, <1>2
  <2>. HIDE DEF t
  <2>2. UNION {Ends(u) : u \in v.found} = (UNION {Ends(u) : u \in w.found}) \cup Ends(t)
    BY <2>1
  <2>. QED  BY <1>1, <2>1, <2>2 DEF Covers, v, t
<1>3. CASE ~FreshMention(t, w.seen)
  <2>1. Ends(t) \subseteq w.seen
    BY <1>3 DEF FreshMention, Ends
  <2>2. v.seen = w.seen /\ v.found = w.found
    BY <1>1, <1>3, <2>1
  <2>. QED  BY <2>1, <2>2 DEF Covers, v, t
<1>. QED  BY <1>2, <1>3

LEMMA WalkCovers ==
  ASSUME NEW e, NEW order, NEW size \in Nat, NEW w, IsWalk(w, e, order, 1 .. size)
  PROVE  Covers(w[1 .. size], e, order, 1 .. size)
<1>. DEFINE D == 1 .. size
            Good(s) == Covers(w[s], e, order, s)
            Bad == {n \in Nat : \E s \in SUBSET D : Cardinality(s) = n /\ ~Good(s)}
<1>0. IsFiniteSet(D)
  BY FS_Interval
<1>1. \A s \in SUBSET D : IsFiniteSet(s) /\ Cardinality(s) \in Nat
  <2>. HIDE DEF D
  <2>. QED  BY <1>0, FS_Subset, FS_CardinalityType
<1>2. \A s \in SUBSET D : s # {} =>
        /\ Max(s) \in s /\ s \ {Max(s)} \in SUBSET D
        /\ Cardinality(s \ {Max(s)}) \in Nat /\ Cardinality(s \ {Max(s)}) < Cardinality(s)
  <2>. SUFFICES ASSUME NEW s \in SUBSET D, s # {}
                PROVE  /\ Max(s) \in s /\ s \ {Max(s)} \in SUBSET D
                       /\ Cardinality(s \ {Max(s)}) \in Nat
                       /\ Cardinality(s \ {Max(s)}) < Cardinality(s)
    OBVIOUS
  <2>1. Max(s) \in s
    BY MaxIsIn
  <2>. HIDE DEF D
  <2>2. IsFiniteSet(s) /\ Cardinality(s) \in Nat /\ s \ {Max(s)} \in SUBSET D
    BY <1>1
  <2>3. Cardinality(s \ {Max(s)}) = Cardinality(s) - 1 /\ Cardinality(s \ {Max(s)}) \in Nat
    BY <1>1, <2>1, <2>2, FS_RemoveElement
  <2>. QED  BY <2>1, <2>2, <2>3
<1>3. \A s \in SUBSET D :
        w[s] = IF s = {} THEN Start(e) ELSE Visits(order[Max(s)], w[s \ {Max(s)}])
  <2>. HIDE DEF D
  <2>1. IsWalk(w, e, order, D)
    BY DEF D
  <2>. QED  BY <2>1, Zenon DEF IsWalk
<1>. HIDE DEF D
<1>4. Bad = {}
  <2>. SUFFICES ASSUME Bad # {} PROVE FALSE
    OBVIOUS
  <2>1. PICK n \in Bad : \A m \in Nat : m < n => m \notin Bad
    <3>1. Bad \in SUBSET Nat
      OBVIOUS
    <3>. HIDE DEF Bad
    <3>. QED  BY <3>1, Least, Zenon
  <2>2. PICK s \in SUBSET D : Cardinality(s) = n /\ ~Good(s)
    OBVIOUS
  <2>3. CASE s = {}
    <3>1. w[s] = Start(e)
      BY <1>3, <2>3
    <3>2. Good(s)
      BY <2>3, <3>1 DEF Start, Covers
    <3>. QED  BY <2>2, <3>2
  <2>4. CASE s # {}
    <3>. DEFINE x == Max(s)
                u == s \ {x}
    <3>1. x \in s /\ u \in SUBSET D /\ Cardinality(u) \in Nat /\ Cardinality(u) < n
      BY <1>2, <2>2, <2>4
    <3>. HIDE DEF Good
    <3>2. Good(u)
      BY <2>1, <3>1
    <3>3. w[s] = Visits(order[x], w[u])
      BY <1>3, <2>4
    <3>4. s = u \cup {x}
      BY <3>1
    <3>. HIDE DEF x, u
    <3>5. Covers(Visits(order[x], w[u]), e, order, u \cup {x})
      BY <3>2, VisitCovers DEF Good
    <3>. QED  BY <2>2, <3>3, <3>4, <3>5 DEF Good
  <2>. QED  BY <2>3, <2>4
<1>. HIDE DEF Good
<1>5. Good(D)
  BY <1>0, <1>1, <1>4
<1>. QED  BY <1>5 DEF Good, D

\* Whatever the order of the rows, no neighbour that one of them names is lost.
LEMMA RelatedNames ==
  ASSUME NEW e, NEW rows, IsFiniteSet(rows), \A t \in rows : e \in Ends(t),
         NEW found \in Related(e, rows)
  PROVE  Neighbours(e, rows) \subseteq Neighbours(e, found)
<1>1. PICK order \in SetToSeqs(rows) :
        found = FoldLeft(LAMBDA walk, t : Visits(t, walk),
                         [seen |-> {e}, found |-> {}], order).found
  BY Zenon DEF Related
<1>. DEFINE size == Cardinality(rows)
<1>2. /\ size \in Nat /\ order \in [1 .. size -> rows]
      /\ \A t \in rows : \E i \in 1 .. size : order[i] = t
  BY SeqsAreFull
<1>. HIDE DEF size
<1>3. DOMAIN order = 1 .. size
  BY <1>2
<1>4. PICK w : IsWalk(w, e, order, 1 .. size) /\ found = w[1 .. size].found
  <2>1. \E w : IsWalk(w, e, order, DOMAIN order)
    BY <1>2, <1>3, WalkExists
  <2>2. PICK w : /\ IsWalk(w, e, order, DOMAIN order)
                 /\ FoldLeft(LAMBDA walk, t : Visits(t, walk), [seen |-> {e}, found |-> {}], order)
                      = w[DOMAIN order]
    BY <2>1, WalkIs
  <2>. QED  BY <1>1, <1>3, <2>2
<1>5. Covers(w[1 .. size], e, order, 1 .. size)
  BY <1>2, <1>4, WalkCovers
<1>6. found \subseteq rows /\ \A t \in rows : Ends(t) \subseteq {e} \cup UNION {Ends(u) : u \in found}
  BY <1>2, <1>4, <1>5 DEF Covers
<1>. QED  BY <1>6 DEF Neighbours

-----------------------------------------------------------------------------
(* Ask *)

\* Whoever reads or writes does so over a connection, and what was learned is in
\* the file and in what the open transaction sees of it.
GraphInv ==
  /\ work = [c \in Thinkers |-> work[c]]
  /\ conn \in Nat /\ opened \in Nat
  /\ \A c \in Thinkers :
       /\ work[c].at = "creating" => conn # 0
       /\ work[c].at \in {"executing", "committing"} => work[c].on # 0
  /\ IsFiniteSet(facts) /\ IsFiniteSet(tx.facts)
  /\ learned \subseteq facts
  /\ tx.conn # 0 => learned \subseteq tx.facts

\* What a caller moves on to.
Move(o, where, k) ==
  [f \in DOMAIN o \cup {"at", "on", "answer"} |->
     CASE f = "at" -> where [] f = "on" -> k [] f = "answer" -> {} [] OTHER -> o[f]]

LEMMA MoveIs ==
  ASSUME NEW o, NEW where, NEW k
  PROVE  Move(o, where, k).at = where /\ Move(o, where, k).on = k
BY DEF Move

\* The part of the invariant that is about the callers, when one moves.
LEMMA WorkMoves ==
  ASSUME GraphInv, NEW c \in Thinkers, NEW k, work' = [work EXCEPT ![c] = k],
         conn' \in Nat, conn # 0 => conn' # 0,
         k.at = "creating" => conn' # 0,
         k.at \in {"executing", "committing"} => k.on # 0
  PROVE  /\ work' = [d \in Thinkers |-> work'[d]]
         /\ \A d \in Thinkers :
              /\ work'[d].at = "creating" => conn' # 0
              /\ work'[d].at \in {"executing", "committing"} => work'[d].on # 0
<1>1. \A d \in Thinkers : work'[d] = IF d = c THEN k ELSE work[d]
  BY DEF GraphInv
<1>2. work' = [d \in Thinkers |-> work'[d]]
  BY DEF GraphInv
<1>. QED  BY <1>1, <1>2 DEF GraphInv

LEMMA WorkRests ==
  ASSUME GraphInv, NEW c \in Thinkers, Rests(c), UNCHANGED <<conn, opened>>,
         IsFiniteSet(facts'), IsFiniteSet(tx'.facts),
         learned' \subseteq facts', tx'.conn # 0 => learned' \subseteq tx'.facts
  PROVE  GraphInv'
<1>1. NoWork.at = "done"
  BY DEF NoWork
<1>2. work' = [work EXCEPT ![c] = NoWork] /\ conn' \in Nat /\ opened' \in Nat
  BY DEF Rests, GraphInv
<1>. QED  BY <1>1, <1>2, WorkMoves DEF GraphInv

\* A view of the file has all that was learned.
LEMMA ViewHas ==
  ASSUME GraphInv, NEW k, k # 0
  PROVE  learned \subseteq View(k) /\ IsFiniteSet(View(k))
BY DEF GraphInv, View

\* A caller moves, and the file, its transaction and the learned stay.
LEMMA MoveKeeps ==
  ASSUME GraphInv, NEW c \in Thinkers, NEW o, NEW where, NEW k, Moves(c, o, where, k),
         UNCHANGED <<facts, tx, learned>>, conn' \in Nat, opened' \in Nat, conn # 0 => conn' # 0,
         where = "creating" => conn' # 0,
         where \in {"executing", "committing"} => k # 0
  PROVE  GraphInv'
<1>. DEFINE m == Move(o, where, k)
<1>1. work' = [work EXCEPT ![c] = m]
  BY Zenon DEF Moves, Move
<1>2. m.at = where /\ m.on = k
  BY MoveIs
<1>. HIDE DEF m
<1>. QED  BY <1>1, <1>2, WorkMoves DEF GraphInv

\* A caller writes rows that keep what is still learned.
LEMMA WriteKeeps ==
  ASSUME GraphInv, NEW c \in Thinkers, NEW rows, IsFiniteSet(rows), Writes(c, rows),
         learned' \subseteq learned, learned' \subseteq rows
  PROVE  GraphInv'
<1>. DEFINE m == Move(work[c], "committing", work[c].on)
<1>1. work' = [work EXCEPT ![c] = m]
  BY Zenon DEF Writes, Moves, Move
<1>2. m.at = "committing" /\ m.on = work[c].on /\ m.on # 0
  BY MoveIs DEF Writes, GraphInv
<1>3. tx'.facts = rows /\ UNCHANGED <<conn, opened, facts>>
  BY DEF Writes
<1>4. conn' \in Nat /\ opened' \in Nat /\ IsFiniteSet(facts') /\ learned' \subseteq facts'
  BY <1>3 DEF GraphInv
<1>. HIDE DEF m
<1>. QED  BY <1>1, <1>2, <1>3, <1>4, WorkMoves DEF GraphInv

LEMMA GraphSteps ==
  ASSUME GraphInv, NEW c \in Thinkers, Reasons(c)
  PROVE  GraphInv'
<1>1. CASE Opens(c)
  <2>1. opened' = opened + 1 /\ conn' = opened' /\ Moves(c, work[c], "creating", 0)
        /\ UNCHANGED <<facts, tx, learned>>
    BY <1>1 DEF Opens
  <2>2. opened' \in Nat /\ conn' \in Nat /\ conn' # 0
    BY <2>1 DEF GraphInv
  <2>. QED  BY <2>1, <2>2, MoveKeeps
<1>2. CASE Creates(c)
  <2>1. conn # 0 /\ conn \in Nat /\ opened \in Nat
    BY <1>2 DEF Creates, GraphInv
  <2>. QED  BY <1>2, <2>1, MoveKeeps DEF Creates
<1>3. CASE Inserts(c)
  <2>. DEFINE rows == View(work[c].on) \cup {work[c].triple}
  <2>1. Writes(c, rows) /\ learned' = learned
    BY <1>3 DEF Inserts
  <2>2. work[c].on # 0
    BY <2>1 DEF Writes, GraphInv
  <2>3. IsFiniteSet(rows) /\ learned' \subseteq rows
    BY <2>1, <2>2, ViewHas, FS_AddElement
  <2>. HIDE DEF rows
  <2>. QED  BY <2>1, <2>3, WriteKeeps
<1>4. CASE Deletes(c)
  <2>. DEFINE gone == {t \in Triple : t.subject = work[c].entity}
              rows == View(work[c].on) \ gone
  <2>1. Writes(c, rows) /\ learned' = learned \ gone
    BY <1>4 DEF Deletes
  <2>. HIDE DEF gone
  <2>2. work[c].on # 0
    BY <2>1 DEF Writes, GraphInv
  <2>3. IsFiniteSet(rows) /\ learned' \subseteq rows
    BY <2>1, <2>2, ViewHas, FS_Subset
  <2>. HIDE DEF rows
  <2>. QED  BY <2>1, <2>3, WriteKeeps
<1>5. CASE Locked(c)
  <2>1. Rests(c) /\ UNCHANGED <<conn, opened, facts, tx, learned>>
    BY <1>5 DEF Locked
  <2>. QED  BY <2>1, WorkRests DEF GraphInv
<1>6. CASE CommitsGraph(c)
  <2>. DEFINE k == work[c].on
  <2>1. /\ k # 0 /\ facts' = View(k) /\ UNCHANGED <<conn, opened>> /\ Rests(c)
        /\ tx' = IF tx.conn = k THEN NoTx ELSE tx
        /\ learned' \subseteq learned \cup Standing'
    BY <1>6 DEF CommitsGraph, GraphInv
  <2>2. learned \subseteq facts' /\ IsFiniteSet(facts')
    BY <2>1, ViewHas
  <2>3. Standing' \subseteq facts' /\ (tx'.conn # 0 => Standing' \subseteq tx'.facts)
    BY DEF Standing
  <2>4. IsFiniteSet(tx'.facts) /\ (tx'.conn # 0 => learned \subseteq tx'.facts)
    BY <2>1, FS_EmptySet DEF NoTx, GraphInv
  <2>. QED  BY <2>1, <2>2, <2>3, <2>4, WorkRests
<1>7. CASE Tells(c)
  <2>1. UNCHANGED <<conn, opened, facts, tx, learned>>
    BY <1>7 DEF Tells
  <2>2. PICK k : work' = [work EXCEPT ![c] = k] /\ k.at = "done"
    <3>1. PICK found : work' = [work EXCEPT ![c] = [NoWork EXCEPT !.op = "ask", !.answer = found]]
      BY <1>7, Zenon DEF Tells
    <3>2. [NoWork EXCEPT !.op = "ask", !.answer = found].at = "done"
      BY DEF NoWork
    <3>. QED  BY <3>1, <3>2
  <2>. QED  BY <2>1, <2>2, WorkMoves DEF GraphInv
<1>. QED  BY <1>1, <1>2, <1>3, <1>4, <1>5, <1>6, <1>7 DEF Reasons

LEMMA GraphStart == Init => GraphInv
<1>. SUFFICES ASSUME Init PROVE GraphInv
  OBVIOUS
<1>1. /\ conn = 0 /\ opened = 0 /\ facts = {} /\ learned = {} /\ tx = NoTx
      /\ work = [c \in Thinkers |-> NoWork]
  BY DEF Init, InitGraph
<1>. QED  BY <1>1, FS_EmptySet DEF GraphInv, NoWork, NoTx

LEMMA GraphStep == GraphInv /\ [Next]_vars => GraphInv'
<1>. SUFFICES ASSUME GraphInv, [Next]_vars PROVE GraphInv'
  OBVIOUS
<1>1. CASE UNCHANGED graphVars
  BY <1>1 DEF graphVars, GraphInv
<1>2. ASSUME NEW c \in Clients, Calls(c) PROVE GraphInv'
  <2>1. ASSUME NEW o, Thinks(c, o) PROVE GraphInv'
    <3>. DEFINE where == IF conn = 0 THEN "opening" ELSE "executing"
    <3>1. Moves(c, o, where, conn) /\ UNCHANGED <<conn, opened, facts, tx, learned>>
      BY <2>1 DEF Thinks
    <3>2. where # "creating" /\ (where \in {"executing", "committing"} => conn # 0)
          /\ conn' \in Nat /\ opened' \in Nat
      BY <3>1 DEF GraphInv
    <3>. HIDE DEF where
    <3>. QED  BY <3>1, <3>2, MoveKeeps, ServiceAssumption
  <2>. QED  BY <1>1, <1>2, <2>1 DEF Calls
<1>3. ASSUME NEW c \in Clients, Continues(c) PROVE GraphInv'
  BY <1>1, <1>3, GraphSteps, ServiceAssumption DEF Continues
<1>4. CASE Restarts
  <2>1. conn' = 0 /\ opened' = 0 /\ tx' = NoTx /\ work' = [c \in Thinkers |-> NoWork]
        /\ UNCHANGED <<facts, learned>>
    BY <1>4 DEF Restarts, GraphRestarts
  <2>. QED  BY <2>1, FS_EmptySet DEF GraphInv, NoWork, NoTx
<1>5. CASE UNCHANGED vars
  BY <1>1, <1>5 DEF vars
<1>. QED  BY <1>2, <1>3, <1>4, <1>5 DEF Next

LEMMA GraphInvariant == Spec => []GraphInv
BY GraphStart, GraphStep, PTL DEF Spec

\* What ask returns names every neighbour an answered fact gives the entity,
\* in whatever order the rows come, whoever writes meanwhile, and after a
\* restart.
THEOREM AskNamesAll == Spec => AskNamesEveryNeighbour
<1>. DEFINE NamesAll(c) ==
       LET e == work[c].entity IN
       work[c].op = "ask" /\ work[c].at = "executing" /\ work'[c].op = "ask" /\ work'[c].at = "done"
         => Neighbours(e, learned) \subseteq Neighbours(e, work'[c].answer)
<1>1. GraphInv /\ [Next]_vars => [\A c \in Clients : NamesAll(c)]_vars
  <2>. SUFFICES ASSUME GraphInv, Next, NEW c \in Clients,
                       work[c].op = "ask", work[c].at = "executing",
                       work'[c].op = "ask", work'[c].at = "done"
                PROVE  Neighbours(work[c].entity, learned)
                         \subseteq Neighbours(work[c].entity, work'[c].answer)
    OBVIOUS
  <2>0. c \in Thinkers /\ work' # work
    BY ServiceAssumption
  <2>1. NoWork.op = "none" /\ \A d \in Thinkers : work'[d] = NoWork => d # c
    BY DEF NoWork
  <2>2. ~GraphRestarts
    BY <2>0, <2>1 DEF GraphRestarts
  <2>3. ASSUME NEW d \in Clients, NEW k, work' = [work EXCEPT ![d] = k] PROVE d = c /\ k = work'[c]
    BY <2>0, <2>3, ServiceAssumption DEF GraphInv
  <2>4. ASSUME NEW d \in Clients, NEW o, NEW where, NEW k, Moves(d, o, where, k) PROVE where = "done"
    <3>1. work' = [work EXCEPT ![d] = Move(o, where, k)]
      BY <2>4, Zenon DEF Moves, Move
    <3>2. Move(o, where, k) = work'[c]
      BY <2>3, <3>1
    <3>. QED  BY <3>2, MoveIs
  <2>5. ~\E d \in Clients : Rests(d)
    BY <2>1, <2>3 DEF Rests
  <2>6. PICK d \in Clients : Calls(d) \/ Reasons(d)
    <3>1. ~UNCHANGED graphVars
      BY <2>0 DEF graphVars
    <3>. QED  BY <2>2, <3>1 DEF Next, Continues, Restarts
  <2>7. ~Calls(d)
    <3>1. \A o : ~Thinks(d, o)
      BY <2>4 DEF Thinks
    <3>2. ~UNCHANGED graphVars
      BY <2>0 DEF graphVars
    <3>. QED  BY <3>1, <3>2 DEF Calls
  <2>8. Tells(d)
    BY <2>4, <2>5, <2>6, <2>7
    DEF Reasons, Opens, Creates, Inserts, Deletes, Writes, Locked, CommitsGraph
  <2>. DEFINE e == work[c].entity
              rows == {t \in View(work[c].on) : e \in Ends(t)}
  <2>9. \E found \in Related(e, rows) : work'[c].answer = found
    <3>1. PICK found \in Related(work[d].entity, {t \in View(work[d].on) : work[d].entity \in Ends(t)}) :
            work' = [work EXCEPT ![d] = [NoWork EXCEPT !.op = "ask", !.answer = found]]
      BY <2>8, Zenon DEF Tells
    <3>2. d = c /\ work'[c] = [NoWork EXCEPT !.op = "ask", !.answer = found]
      BY <2>3, <3>1
    <3>3. work'[c].answer = found
      BY <3>2 DEF NoWork
    <3>. QED  BY <3>1, <3>2, <3>3
  <2>10. learned \subseteq View(work[c].on) /\ IsFiniteSet(View(work[c].on))
    BY <2>0, ViewHas DEF GraphInv
  <2>11. IsFiniteSet(rows)
    BY <2>10, FS_Subset
  <2>12. Neighbours(e, rows) \subseteq Neighbours(e, work'[c].answer)
    <3>1. \A t \in rows : e \in Ends(t)
      OBVIOUS
    <3>. HIDE DEF rows, e
    <3>. QED  BY <2>9, <2>11, <3>1, RelatedNames
  <2>13. Neighbours(e, learned) \subseteq Neighbours(e, rows)
    BY <2>10 DEF Neighbours
  <2>. QED  BY <2>12, <2>13
<1>. QED  BY <1>1, GraphInvariant, PTL DEF Spec, AskNamesEveryNeighbour

=============================================================================
