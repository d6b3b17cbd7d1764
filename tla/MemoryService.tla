--------------------------- MODULE MemoryService ---------------------------
(***************************************************************************)
(* The memory service (memory/base.py) over one conversation store and the *)
(* knowledge graph, used by several coroutines of a process that may       *)
(* restart.                                                                *)
(***************************************************************************)
EXTENDS ConversationStores, KnowledgeGraph

CONSTANTS
  MaxCalls,      \* bound: calls begun
  MaxRestarts    \* bound: restarts of the process

ASSUME ServiceAssumption == Thinkers = Clients /\ MaxCalls \in Nat /\ MaxRestarts \in Nat

VARIABLES begun, restarts

vars == <<storeVars, graphVars, begun, restarts>>

Init == InitStores /\ InitGraph /\ begun = 0 /\ restarts = 0

Free(c) == call[c].at = "done" /\ work[c].at = "done"

\* add_message, get_history, recall and clear_session pass to the store,
\* learn and ask to the graph.
Calls(c) ==
  /\ Free(c)
  /\ begun < MaxCalls
  /\ begun' = begun + 1
  /\ \/ (\E o \in Asked : Begins(c, o)) /\ UNCHANGED graphVars
     \/ (\E o \in Thoughts : Thinks(c, o)) /\ UNCHANGED storeVars
  /\ UNCHANGED restarts

Continues(c) ==
  /\ \/ Postgres(c) /\ UNCHANGED graphVars
     \/ Reasons(c) /\ UNCHANGED storeVars
  /\ UNCHANGED <<begun, restarts>>

Restarts ==
  /\ restarts < MaxRestarts
  /\ restarts' = restarts + 1
  /\ StoresRestart
  /\ GraphRestarts
  /\ UNCHANGED begun

Next == (\E c \in Clients : Calls(c) \/ Continues(c)) \/ Restarts

Spec == Init /\ [][Next]_vars

-----------------------------------------------------------------------------
(* Properties *)

\* Both stores keep what they promise: an answered append survives other
\* clients, failures of the database and, in the table, a restart; forgetting
\* a session takes from no other.  (An append that ends because the table
\* cannot be made promises nothing, though its caller is told nothing.)
Promises == INSTANCE SessionMemory WITH
  Records  <- [n : 1 .. MaxCalls, session : Sessions, words : SUBSET Words],
  durable  <- backend = "postgres",
  kept     <- records
KeepsSessions == Promises!Spec

Answered(c) == call'[c].at = "done" /\ begun' = begun + 1 /\ call'[c] # call[c]

\* Recall of the list in memory returns the best matches: whatever it leaves
\* out of a query with words shares fewer words than all it returns, or as
\* many and is older; and it leaves out nothing while there is room.
Best(answer, matching, words) ==
  LET left == matching \ ToSet(answer)
  IN  /\ left # {} => Len(answer) = Limit
      /\ \A r \in ToSet(answer), l \in left :
           \/ Overlap(r, words) > Overlap(l, words)
           \/ Overlap(r, words) = Overlap(l, words) /\ r.n > l.n
RecallIsBest ==
  [][\A c \in Clients :
       LET o == call'[c] IN
       backend = "memory" /\ Answered(c) /\ o.op = "recall" /\ o.words # {}
         => Best(o.answer, {r \in Of(o.session) : Overlap(r, o.words) > 0}, o.words)]_vars

\* What ask returns names every neighbour an answered fact gives the entity,
\* in whatever order the rows come, whoever writes meanwhile, and after a
\* restart.  (It need not hold every fact: of two between the same entities
\* the second is dropped.)
Neighbours(e, S) == (UNION {Ends(t) : t \in {u \in S : e \in Ends(u)}}) \ {e}
AskNamesEveryNeighbour ==
  [][\A c \in Clients :
       LET e == work[c].entity IN
       work[c].op = "ask" /\ work[c].at = "executing" /\ work'[c].op = "ask" /\ work'[c].at = "done"
         => Neighbours(e, learned) \subseteq Neighbours(e, work'[c].answer)]_vars
=============================================================================
