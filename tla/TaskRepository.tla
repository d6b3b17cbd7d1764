--------------------------- MODULE TaskRepository ---------------------------
(***************************************************************************)
(* TaskRepository (persistence/repository.py) over the engine of           *)
(* persistence/db.py.  Every process has a cache and an availability flag  *)
(* of its own; the database is shared.  A snapshot is abstracted to the id *)
(* of its task: the service saves the state of a run once, when it is over.*)
(***************************************************************************)

CONSTANT Processes   \* the processes that hold a repository

VARIABLES
  dbUp,        \* the database answers
  available,   \* per process: what db_available() says
  cache,       \* per process: ids in _cache
  rows         \* ids with a committed row

repositoryVars == <<dbUp, available, cache, rows>>

\* A process that has called init_db knows whether it reached the database
\* then; one that never does takes it for unavailable.
InitRepository(probing) ==
  /\ dbUp \in BOOLEAN
  /\ available = [p \in Processes |-> p \in probing /\ dbUp]
  /\ cache = [p \in Processes |-> {}]
  /\ rows = {}

\* Process p starts again: its module state is gone, and init_db probes anew.
Restarted(p, probing) ==
  /\ cache' = [cache EXCEPT ![p] = {}]
  /\ available' = [available EXCEPT ![p] = p \in probing /\ dbUp]
  /\ UNCHANGED <<dbUp, rows>>

\* The synchronous half of save: "always keep the cache warm".
SaveToCache(p, id) ==
  /\ cache' = [cache EXCEPT ![p] = @ \cup {id}]
  /\ UNCHANGED <<dbUp, available, rows>>

\* The transaction commits, or its failure is logged and swallowed.
SaveToRows(id) ==
  /\ \/ dbUp /\ rows' = rows \cup {id}
     \/ UNCHANGED rows
  /\ UNCHANGED <<dbUp, available, cache>>

\* get: the cache answers only when the database is not asked, or fails.
Found(p, id) == IF available[p] /\ dbUp THEN id \in rows ELSE id \in cache[p]

DatabaseFlips == dbUp' = ~ dbUp /\ UNCHANGED <<available, cache, rows>>

=============================================================================
