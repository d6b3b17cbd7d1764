-------------------------- MODULE KnowledgeGraph --------------------------
(***************************************************************************)
(* SQLiteKnowledgeGraph (memory/knowledge_graph.py): triples in a file,    *)
(* over one connection that all callers share and that the first of them   *)
(* opens.  Two that find none open one each and the second to open is      *)
(* kept.  A transaction belongs to the connection: whoever commits commits *)
(* the statements of all.  Of a triple only its two ends matter here.      *)
(***************************************************************************)
EXTENDS Naturals, FiniteSets, SequencesExt

CONSTANTS
  Thinkers,   \* coroutines that use the graph
  Entities

VARIABLES
  conn,       \* _conn: 0 for None, else the number of a connection
  opened,     \* connections opened
  facts,      \* the committed rows
  tx,         \* the open write transaction: its connection and what it sees
  work,       \* what each caller does
  learned     \* history variable: facts whose writer was answered, not deleted

graphVars == <<conn, opened, facts, tx, work, learned>>

Triple == [subject : Entities, obj : Entities]

NoTx   == [conn |-> 0, facts |-> {}]
NoWork == [op |-> "none", at |-> "done", on |-> 0, answer |-> {}]

InitGraph ==
  /\ conn = 0 /\ opened = 0
  /\ facts = {} /\ learned = {}
  /\ tx = NoTx
  /\ work = [c \in Thinkers |-> NoWork]

\* A connection sees the rows of its own transaction, else what is committed.
View(k) == IF tx.conn = k THEN tx.facts ELSE facts

\* The committed rows that no transaction has deleted.
Standing == {t \in facts : tx.conn = 0 \/ t \in tx.facts}

Thoughts ==
  {[op |-> "learn", triple |-> t] : t \in Triple}
    \cup {[op |-> "ask", entity |-> e] : e \in Entities}
    \cup {[op |-> "delete", entity |-> e] : e \in Entities}

Moves(c, o, where, k) ==
  work' = [work EXCEPT ![c] =
    [f \in DOMAIN o \cup {"at", "on", "answer"} |->
       CASE f = "at" -> where [] f = "on" -> k [] f = "answer" -> {} [] OTHER -> o[f]]]

Rests(c) == work' = [work EXCEPT ![c] = NoWork]

-----------------------------------------------------------------------------
(* get_related: one hop, as ask calls it *)

Ends(t) == {t.subject, t.obj}

\* Mutant: only where a fact leads to counts.
FreshObject(t, seen) == t.obj \notin seen

FreshMention(t, seen) == t.subject \notin seen \/ t.obj \notin seen

Visits(t, walk) ==
  [seen  |-> walk.seen \cup Ends(t),
   found |-> IF FreshMention(t, walk.seen) THEN walk.found \cup {t} ELSE walk.found]

\* The rows come in an order the statement does not fix.
Related(e, rows) ==
  LET Walk(order) == FoldLeft(LAMBDA walk, t : Visits(t, walk), [seen |-> {e}, found |-> {}], order)
  IN  {Walk(order).found : order \in SetToSeqs(rows)}

-----------------------------------------------------------------------------
(* Operations *)

\* _ensure_db: a caller uses the connection there is, or opens one.
Thinks(c, o) ==
  /\ Moves(c, o, IF conn = 0 THEN "opening" ELSE "executing", conn)
  /\ UNCHANGED <<conn, opened, facts, tx, learned>>

\* The new connection replaces whatever another caller stored meanwhile.
Opens(c) ==
  /\ work[c].at = "opening"
  /\ opened' = opened + 1
  /\ conn' = opened'
  /\ Moves(c, work[c], "creating", 0)
  /\ UNCHANGED <<facts, tx, learned>>

\* The table is made, and the caller gets the connection that is stored now.
Creates(c) ==
  /\ work[c].at = "creating"
  /\ Moves(c, work[c], "executing", conn)
  /\ UNCHANGED <<conn, opened, facts, tx, learned>>

Writes(c, rows) ==
  /\ work[c].at = "executing"
  /\ tx.conn \in {0, work[c].on}
  /\ tx' = [conn |-> work[c].on, facts |-> rows]
  /\ Moves(c, work[c], "committing", work[c].on)
  /\ UNCHANGED <<conn, opened, facts>>

Inserts(c) ==
  /\ work[c].op = "learn"
  /\ Writes(c, View(work[c].on) \cup {work[c].triple})
  /\ UNCHANGED learned

Deletes(c) ==
  /\ work[c].op = "delete"
  /\ LET gone == {t \in Triple : t.subject = work[c].entity}
     IN  Writes(c, View(work[c].on) \ gone) /\ learned' = learned \ gone

\* Another connection is writing, longer than the driver waits.
Locked(c) ==
  /\ work[c].at = "executing" /\ work[c].op # "ask"
  /\ tx.conn \notin {0, work[c].on}
  /\ Rests(c)
  /\ UNCHANGED <<conn, opened, facts, tx, learned>>

\* The commit of whatever the connection has written, and the answer.  A fact
\* that another has begun to delete meanwhile is not promised.
CommitsGraph(c) ==
  /\ work[c].at = "committing"
  /\ facts' = View(work[c].on)
  /\ tx' = IF tx.conn = work[c].on THEN NoTx ELSE tx
  /\ learned' = IF work[c].op = "learn"
                  THEN learned \cup ({work[c].triple} \cap Standing')
                  ELSE learned
  /\ Rests(c)
  /\ UNCHANGED <<conn, opened>>

Tells(c) ==
  /\ work[c].at = "executing" /\ work[c].op = "ask"
  /\ LET e    == work[c].entity
         rows == {t \in View(work[c].on) : e \in Ends(t)}
     IN  \E found \in Related(e, rows) :
           work' = [work EXCEPT ![c] = [NoWork EXCEPT !.op = "ask", !.answer = found]]
  /\ UNCHANGED <<conn, opened, facts, tx, learned>>

Reasons(c) ==
  \/ Opens(c) \/ Creates(c)
  \/ Inserts(c) \/ Deletes(c) \/ Locked(c) \/ CommitsGraph(c)
  \/ Tells(c)

\* The process ends: an open transaction is rolled back.
GraphRestarts ==
  /\ conn' = 0 /\ opened' = 0
  /\ tx' = NoTx
  /\ work' = [c \in Thinkers |-> NoWork]
  /\ UNCHANGED <<facts, learned>>
=============================================================================
