------------------------ MODULE ConversationStores ------------------------
(***************************************************************************)
(* The two conversation stores behind the MemoryStore protocol: a list in  *)
(* the process (memory/in_memory.py), each of whose operations is one step *)
(* of the event loop, and a table (memory/postgres_store.py), where others *)
(* run between the statement, its commit and the answer.  A record is told *)
(* apart by its age, its session and the words a query may share with it;  *)
(* scope and kind are filters like the session.                            *)
(***************************************************************************)
EXTENDS Integers, Sequences, FiniteSets, SequencesExt

CONSTANTS
  Clients,    \* coroutines that use the memory
  Sessions,
  Words,      \* the tokens of a text
  Limit       \* the limit of every query

ASSUME StoresAssumption == IsFiniteSet(Words) /\ Limit \in Nat \ {0}

VARIABLES
  backend,    \* "memory" or "postgres"
  ready,      \* PostgresMemoryStore._ready
  records,    \* _records, or the committed rows of memory_records
  created,    \* the records made so far: their order is that of created_at
  call,       \* what each client has asked, how far it is, and its answer
  promised    \* history variable: appended, answered, and not forgotten since

storeVars == <<backend, ready, records, created, call, promised>>

NoCall == [op |-> "none", at |-> "done", answer |-> <<>>]

InitStores ==
  /\ backend \in {"memory", "postgres"}
  /\ ready = FALSE
  /\ records = {} /\ created = 0 /\ promised = {}
  /\ call = [c \in Clients |-> NoCall]

-----------------------------------------------------------------------------
(* Queries *)

Of(s) == {r \in records : r.session = s}

Overlap(r, words) == Cardinality(r.words \cap words)

FirstOf(k, seq) == IF Len(seq) > k THEN SubSeq(seq, 1, k) ELSE seq
LastOf(k, seq)  == IF Len(seq) > k THEN SubSeq(seq, Len(seq) - k + 1, Len(seq)) ELSE seq

NewestFirst(S) ==
  CHOOSE seq \in SetToSeqs(S) : \A i, j \in DOMAIN seq : i < j => seq[i].n > seq[j].n

Outranks(a, b, words) ==
  \/ Overlap(a, words) > Overlap(b, words)
  \/ Overlap(a, words) = Overlap(b, words) /\ a.n > b.n

\* The best overlap first, the newest of equals first.
Ranked(S, words) ==
  CHOOSE seq \in SetToSeqs(S) :
    \A i, j \in DOMAIN seq : i < j => Outranks(seq[i], seq[j], words)

\* The end of the list that begins with the newest, turned around.
RecentInMemory(s) == Reverse(LastOf(Limit, NewestFirst(Of(s))))

\* Mutant: the limit is applied before the ranking.
RecallOfTheNewest(s, words) ==
  IF words = {}
    THEN RecentInMemory(s)
    ELSE SelectSeq(Ranked(ToSet(FirstOf(Limit, NewestFirst(Of(s)))), words),
                   LAMBDA r : Overlap(r, words) > 0)

RecallInMemory(s, words) ==
  IF words = {}
    THEN RecentInMemory(s)
    ELSE FirstOf(Limit, Ranked({r \in Of(s) : Overlap(r, words) > 0}, words))

RecentInPostgres(s) == FirstOf(Limit, NewestFirst(Of(s)))

\* The limit is part of the query; the ranking is done on what it returned,
\* and a record that shares no word stays.
RecallInPostgres(s, words) ==
  Ranked(ToSet(FirstOf(Limit, NewestFirst(Of(s)))), words)

-----------------------------------------------------------------------------
(* What a client may ask, and the answer it gets *)

NewRecord(s, words) == [n |-> created + 1, session |-> s, words |-> words]

Asked ==
  {[op |-> "append", record |-> NewRecord(s, w)] : s \in Sessions, w \in (SUBSET Words) \ {{}}}
    \cup {[op |-> "recent", session |-> s] : s \in Sessions}
    \cup {[op |-> "recall", session |-> s, words |-> w] : s \in Sessions, w \in SUBSET Words}
    \cup {[op |-> "forget", session |-> s] : s \in Sessions}

Put(o, field, value) ==
  [f \in DOMAIN o \cup {field} |-> IF f = field THEN value ELSE o[f]]

Goes(c, o, where) == call' = [call EXCEPT ![c] = Put(Put(o, "answer", <<>>), "at", where)]
Answers(c, o, result) == call' = [call EXCEPT ![c] = Put(Put(o, "answer", result), "at", "done")]
AnswersNothing(c) == call' = [call EXCEPT ![c] = NoCall]

Counts(o) == created' = IF o.op = "append" THEN created + 1 ELSE created

-----------------------------------------------------------------------------
(* InMemoryStore *)

AppendsInMemory(c, o) ==
  /\ o.op = "append"
  /\ records' = records \cup {o.record}
  /\ promised' = promised \cup {o.record}
  /\ AnswersNothing(c)

ReadsInMemory(c, o) ==
  /\ \/ o.op = "recent" /\ Answers(c, o, RecentInMemory(o.session))
     \/ o.op = "recall" /\ Answers(c, o, RecallInMemory(o.session, o.words))
  /\ UNCHANGED <<records, promised>>

ForgetsInMemory(c, o) ==
  /\ o.op = "forget"
  /\ records' = records \ Of(o.session)
  /\ promised' = promised \ Of(o.session)
  /\ AnswersNothing(c)

InMemory(c, o) ==
  /\ backend = "memory"
  /\ AppendsInMemory(c, o) \/ ReadsInMemory(c, o) \/ ForgetsInMemory(c, o)
  /\ Counts(o)
  /\ UNCHANGED <<backend, ready>>

-----------------------------------------------------------------------------
(* PostgresMemoryStore *)

\* A store that is ready goes to its statement; else it first makes its table.
AsksPostgres(c, o) ==
  /\ backend = "postgres"
  /\ Goes(c, o, IF ready THEN "executing" ELSE "preparing")
  /\ Counts(o)
  /\ UNCHANGED <<backend, ready, records, promised>>

\* _ensure_ready: the table is there, or the call ends without an error: a
\* query with no records, an append or a forget as if it were done.
Prepares(c) ==
  /\ call[c].at = "preparing"
  /\ \/ /\ ready' = TRUE
        /\ Goes(c, call[c], "executing")
     \/ /\ AnswersNothing(c)
        /\ UNCHANGED ready
  /\ UNCHANGED <<backend, records, created, promised>>

Executes(c) ==
  /\ call[c].at = "executing"
  /\ LET o == call[c] IN
       CASE o.op = "recent" -> Answers(c, o, RecentInPostgres(o.session))
         [] o.op = "recall" -> Answers(c, o, RecallInPostgres(o.session, o.words))
         [] o.op = "forget" -> Goes(c, Put(o, "gone", Of(o.session)), "committing")
         [] OTHER           -> Goes(c, o, "committing")
  /\ UNCHANGED <<backend, ready, records, created, promised>>

\* Mutant: the session is closed without a commit, which rolls back.
CommitsNothing(c) ==
  /\ call[c].at = "committing"
  /\ Goes(c, call[c], "committed")
  /\ promised' = IF call[c].op = "append" THEN promised \cup {call[c].record} ELSE promised
  /\ UNCHANGED <<backend, ready, records, created>>

Commits(c) ==
  /\ call[c].at = "committing"
  /\ IF call[c].op = "append"
       THEN records' = records \cup {call[c].record} /\ UNCHANGED promised
       ELSE records' = records \ call[c].gone /\ promised' = promised \ call[c].gone
  /\ Goes(c, call[c], "committed")
  /\ UNCHANGED <<backend, ready, created>>

\* The answer: by now the record may have been forgotten by another client.
Returns(c) ==
  /\ call[c].at = "committed"
  /\ promised' = IF call[c].op = "append"
                   THEN promised \cup ({call[c].record} \cap records)
                   ELSE promised
  /\ AnswersNothing(c)
  /\ UNCHANGED <<backend, ready, records, created>>

\* The database fails: before the commit nothing happened, after it everything.
Raises(c) ==
  /\ call[c].at \in {"executing", "committing", "committed"}
  /\ AnswersNothing(c)
  /\ UNCHANGED <<backend, ready, records, created, promised>>

Begins(c, o) == InMemory(c, o) \/ AsksPostgres(c, o)

Postgres(c) == Prepares(c) \/ Executes(c) \/ Commits(c) \/ Returns(c) \/ Raises(c)

\* The process ends and a new one starts.
StoresRestart ==
  /\ ready' = FALSE
  /\ call' = [c \in Clients |-> NoCall]
  /\ IF backend = "memory"
       THEN records' = {} /\ promised' = {}
       ELSE UNCHANGED <<records, promised>>
  /\ UNCHANGED <<backend, created>>
=============================================================================
