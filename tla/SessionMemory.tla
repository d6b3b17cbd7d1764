--------------------------- MODULE SessionMemory ---------------------------
(***************************************************************************)
(* What a conversation memory promises (the MemoryStore protocol of        *)
(* memory/base.py): a record whose append has been answered is kept, from  *)
(* then on, until its session is cleared or, if the memory is not durable, *)
(* the process ends.  A record that is being appended may be kept too.     *)
(***************************************************************************)
EXTENDS Naturals

CONSTANTS Records, Sessions   \* a record has a field session

VARIABLES
  durable,    \* whether the memory outlives the process
  kept,       \* the records a reader can find
  promised    \* those whose writer was told they are kept

vars == <<durable, kept, promised>>

Init == durable \in BOOLEAN /\ kept = {} /\ promised = {}

\* One record more, with or without the answer to its writer.
Keep(r) ==
  /\ r \notin kept
  /\ kept' = kept \cup {r}
  /\ promised' \in {promised, promised \cup {r}}
  /\ UNCHANGED durable

\* Only what is kept may be promised.
Promise(r) ==
  /\ r \in kept
  /\ promised' = promised \cup {r}
  /\ UNCHANGED <<durable, kept>>

\* Records of one session go; no other session loses any.
Clear(s) ==
  /\ kept' \subseteq kept
  /\ \A r \in kept \ kept' : r.session = s
  /\ promised' = promised \cap kept'
  /\ UNCHANGED durable

EndProcess ==
  /\ ~durable
  /\ kept' = {} /\ promised' = {}
  /\ UNCHANGED durable

Next ==
  \/ \E r \in kept' : r \in Records /\ (Keep(r) \/ Promise(r))
  \/ \E s \in Sessions : Clear(s)
  \/ EndProcess

Spec == Init /\ [][Next]_vars
=============================================================================
