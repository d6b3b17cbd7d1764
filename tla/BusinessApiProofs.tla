-------------------------- MODULE BusinessApiProofs --------------------------
(***************************************************************************)
(* Proofs about the business endpoints, for any number of clients, rows,   *)
(* requests and restarts.                                                  *)
(***************************************************************************)
EXTENDS BusinessApi, FiniteSetTheorems, WellFoundedInduction, TLAPS

RowFields     == {"kind", "parent", "status", "amounts", "hasMain", "main", "extra"}
RequestFields == {"op", "stage", "answer", "id", "kind", "fields", "parent", "at", "by", "sums", "seen"}

IsRow(row) ==
  /\ row = [f \in RowFields |-> row[f]]
  /\ row.kind \in Kinds /\ row.parent \in 0 .. MaxRows
  /\ row.main \in Nat /\ row.extra \in Nat

IsRequest(asked) == asked = [f \in RequestFields |-> asked[f]]

-----------------------------------------------------------------------------
(* What is said of a request, given the table, the memory and what is gone *)

In(asked, t, m) == IF asked.by = "table" THEN t ELSE m

Used(id, t, m, g) == id \in Live(t) \cup Live(m) \cup g

\* It was, or is about to be, answered that the row is as asked.
Acked(asked) ==
  /\ asked.op \in {"create", "update"}
  /\ asked.stage = "refreshing" \/ (asked.stage = "answered" /\ asked.answer = "ok")

\* It was answered that there is no row.
Missed(asked) ==
  /\ asked.stage = "answered"
  /\ \/ asked.op \in {"get", "update", "delete"} /\ asked.answer = "not_found"
     \/ asked.op = "delete" /\ asked.answer = "ok"

\* What it read of a row is still there, or something newer.
SeenCommits(asked) == asked.seen.main \in Nat /\ asked.seen.extra \in Nat
Newer(row, asked)  == row.main >= asked.seen.main /\ row.extra >= asked.seen.extra

Stays(asked, t, m, g) ==
  LET store == In(asked, t, m) IN
  asked.id \notin g =>
    /\ asked.id \in Live(store)
    /\ "main"  \in asked.fields => store[asked.id].main  >= asked.at
    /\ "extra" \in asked.fields => store[asked.id].extra >= asked.at
    /\ Newer(store[asked.id], asked)

Good(asked, t, m, g) ==
  /\ Acked(asked) => /\ asked.at \in Nat /\ SeenCommits(asked)
                     /\ Used(asked.id, t, m, g) /\ Stays(asked, t, m, g)
  /\ Missed(asked) => Used(asked.id, t, m, g) /\ ~Has(In(asked, t, m), asked.kind, asked.id)
  /\ asked.stage = "refreshing" => asked.op \in {"create", "update"} /\ asked.by = "table"
  /\ asked.stage \in {"writing", "deleting"} =>
       /\ asked.by = "table" /\ asked.id \in Ids /\ asked.id \in Live(t) \cup g
       /\ asked.id \in Live(t) => t[asked.id].kind = asked.kind
  /\ asked.stage = "writing" =>
       /\ asked.op = "update" /\ asked.parent \in 0 .. MaxRows /\ SeenCommits(asked)
       /\ asked.id \in Live(t) => Newer(t[asked.id], asked)
  /\ asked.stage = "deleting" => asked.op = "delete" /\ asked.kind \in Flat
  /\ asked.stage = "selecting" => asked.op = "report"

-----------------------------------------------------------------------------
(* The inductive invariant *)

StoresTyped ==
  /\ table = [id \in Ids |-> table[id]] /\ memory = [id \in Ids |-> memory[id]]
  /\ \A id \in Live(table) : IsRow(table[id])
  /\ \A id \in Live(memory) : IsRow(memory[id])
  /\ commits \in Nat /\ gone \subseteq Ids

\* An id has a row in one place at most, and none once it is gone.
OneRow ==
  \A id \in Ids :
    /\ ~(id \in Live(table) /\ id \in Live(memory))
    /\ id \in gone => id \notin Live(table) /\ id \notin Live(memory)

\* No column holds a later commit than there has been.
Written(store, n) == \A id \in Live(store) : store[id].main <= n /\ store[id].extra <= n

StoresInv ==
  /\ StoresTyped /\ OneRow
  /\ Written(table, commits) /\ Written(memory, commits)
  /\ TableIsSound

RequestsInv ==
  /\ request = [c \in Clients |-> request[c]]
  /\ \A c \in Clients : IsRequest(request[c]) /\ Good(request[c], table, memory, gone)

BusinessInv == StoresInv /\ RequestsInv

-----------------------------------------------------------------------------
\* A row is kept, with its kind and nothing older in it, until it is gone; a new
\* one gets a fresh id.
KeepsRows(old, new) ==
  \A id \in Ids :
    /\ id \in Live(old) =>
         \/ id \in gone'
         \/ /\ id \in Live(new) /\ new[id].kind = old[id].kind
            /\ new[id].main >= old[id].main /\ new[id].extra >= old[id].extra
    /\ id \in Live(new) => (id \in Live(old) /\ new[id].kind = old[id].kind) \/ id \in Fresh

Grows == KeepsRows(table, table') /\ KeepsRows(memory, memory') /\ gone \subseteq gone'

\* What was said of a request goes on to hold.
LEMMA GoodStays ==
  ASSUME StoresInv, StoresInv', Grows, NEW asked, Good(asked, table, memory, gone)
  PROVE  Good(asked, table', memory', gone')
<1>. USE DEF Grows, KeepsRows
<1>1. ASSUME Used(asked.id, table, memory, gone) PROVE Used(asked.id, table', memory', gone')
  BY <1>1 DEF Used, Live
<1>2. ASSUME Used(asked.id, table, memory, gone)
      PROVE  asked.id \in Ids /\ asked.id \notin Fresh
  BY <1>2 DEF Used, Live, Fresh, StoresInv, StoresTyped
<1>3. ASSUME Acked(asked) PROVE Stays(asked, table', memory', gone')
  <2>1. /\ asked.at \in Nat /\ asked.id \in Ids /\ SeenCommits(asked)
        /\ Stays(asked, table, memory, gone)
    BY <1>2, <1>3 DEF Good
  <2>2. CASE asked.by = "table"
    <3>. SUFFICES ASSUME asked.id \notin gone' PROVE Stays(asked, table', memory', gone')
      BY DEF Stays
    <3>1. asked.id \in Live(table) /\ asked.id \in Live(table')
      BY <2>1, <2>2 DEF Stays, In
    <3>2. IsRow(table[asked.id]) /\ IsRow(table'[asked.id])
      BY <3>1 DEF StoresInv, StoresTyped
    <3>3. /\ table'[asked.id].main \in Nat /\ table'[asked.id].extra \in Nat
          /\ table[asked.id].main \in Nat /\ table[asked.id].extra \in Nat
      BY <3>2 DEF IsRow
    <3>4. /\ table'[asked.id].main >= table[asked.id].main
          /\ table'[asked.id].extra >= table[asked.id].extra
      BY <2>1, <3>1
    <3>. QED  BY <2>1, <2>2, <3>1, <3>3, <3>4 DEF Stays, In, Newer, SeenCommits
  <2>3. CASE asked.by # "table"
    <3>. SUFFICES ASSUME asked.id \notin gone' PROVE Stays(asked, table', memory', gone')
      BY DEF Stays
    <3>1. asked.id \in Live(memory) /\ asked.id \in Live(memory')
      BY <2>1, <2>3 DEF Stays, In
    <3>2. IsRow(memory[asked.id]) /\ IsRow(memory'[asked.id])
      BY <3>1 DEF StoresInv, StoresTyped
    <3>3. /\ memory'[asked.id].main \in Nat /\ memory'[asked.id].extra \in Nat
          /\ memory[asked.id].main \in Nat /\ memory[asked.id].extra \in Nat
      BY <3>2 DEF IsRow
    <3>4. /\ memory'[asked.id].main >= memory[asked.id].main
          /\ memory'[asked.id].extra >= memory[asked.id].extra
      BY <2>1, <3>1
    <3>. QED  BY <2>1, <2>3, <3>1, <3>3, <3>4 DEF Stays, In, Newer, SeenCommits
  <2>. QED  BY <2>2, <2>3
<1>4. ASSUME Missed(asked) PROVE ~Has(In(asked, table', memory'), asked.kind, asked.id)
  BY <1>2, <1>4 DEF Good, Has, In
<1>5. ASSUME asked.stage \in {"writing", "deleting"}, asked.id \in Live(table')
      PROVE  table'[asked.id].kind = asked.kind
  <2>1. Used(asked.id, table, memory, gone)
    BY <1>5 DEF Good, Used
  <2>. QED  BY <1>2, <1>5, <2>1 DEF Good
<1>6. ASSUME asked.stage \in {"writing", "deleting"} PROVE asked.id \in Live(table') \cup gone'
  BY <1>6 DEF Good
<1>7. ASSUME asked.stage = "writing", asked.id \in Live(table')
      PROVE  Newer(table'[asked.id], asked)
  <2>1. Used(asked.id, table, memory, gone) /\ SeenCommits(asked)
    BY <1>7 DEF Good, Used
  <2>2. asked.id \in Ids /\ asked.id \in Live(table) /\ asked.id \notin gone'
    BY <1>2, <1>7, <2>1 DEF StoresInv, OneRow, Live
  <2>3. IsRow(table[asked.id]) /\ IsRow(table'[asked.id]) /\ Newer(table[asked.id], asked)
    BY <1>7, <2>2 DEF Good, StoresInv, StoresTyped
  <2>4. /\ table'[asked.id].main >= table[asked.id].main
        /\ table'[asked.id].extra >= table[asked.id].extra
    BY <2>2
  <2>. QED  BY <2>1, <2>3, <2>4 DEF Newer, SeenCommits, IsRow
<1>. QED  BY <1>1, <1>3, <1>4, <1>5, <1>6, <1>7 DEF Good

\* A step that settles or suspends one request and grows the stores.
LEMMA OneRequest ==
  ASSUME BusinessInv, StoresInv', Grows, NEW c \in Clients, NEW asked,
         request' = [request EXCEPT ![c] = asked],
         IsRequest(asked), Good(asked, table', memory', gone')
  PROVE  BusinessInv'
<1>1. request' = [d \in Clients |-> request'[d]]
  BY DEF BusinessInv, RequestsInv
<1>2. ASSUME NEW d \in Clients
      PROVE  IsRequest(request'[d]) /\ Good(request'[d], table', memory', gone')
  <2>1. CASE d = c
    BY <2>1 DEF BusinessInv, RequestsInv
  <2>2. CASE d # c
    <3>1. request'[d] = request[d]
      BY <2>2 DEF BusinessInv, RequestsInv
    <3>2. IsRequest(request[d]) /\ Good(request[d], table, memory, gone)
      BY DEF BusinessInv, RequestsInv
    <3>. QED  BY <3>1, <3>2, GoodStays DEF BusinessInv
  <2>. QED  BY <2>1, <2>2
<1>. QED  BY <1>1, <1>2 DEF BusinessInv, RequestsInv

\* Where the stores are not touched they grow.
LEMMA StoresRest ==
  ASSUME StoresInv, UNCHANGED <<table, memory, commits, gone>>
  PROVE  StoresInv' /\ Grows
<1>1. StoresInv'
  BY DEF StoresInv, StoresTyped, OneRow, Written, TableIsSound, ReferencesHold, Live, Has, Answerable
<1>2. Grows
  BY DEF StoresInv, StoresTyped, IsRow, Grows, KeepsRows, Live
<1>. QED  BY <1>1, <1>2

\* Requests as they are asked.
LEMMA AsksWhat ==
  ASSUME NEW op, NEW kind, NEW id
  PROVE  /\ IsRequest(Asks(op, kind, id))
         /\ Asks(op, kind, id).op = op /\ Asks(op, kind, id).kind = kind
         /\ Asks(op, kind, id).id = id /\ Asks(op, kind, id).stage = "answered"
         /\ Asks(op, kind, id).answer = "none" /\ SeenCommits(Asks(op, kind, id))
         /\ Asks(op, kind, id).seen = Nothing
         /\ Asks(op, kind, id).by = IF available THEN "table" ELSE "memory"
BY DEF Asks, NoRequest, Nothing, SeenCommits, IsRequest, RequestFields

\* What settling a request keeps of it.
LEMMA SettledWhat ==
  ASSUME NEW asked, IsRequest(asked), NEW answer
  PROVE  LET settled == Settled(asked, answer) IN
         /\ IsRequest(settled)
         /\ settled.stage = "answered" /\ settled.answer = answer
         /\ answer = "error" => settled.op = "none"
         /\ answer # "error" =>
              \/ settled.op = "none" /\ asked.op \in {"get", "list"} /\ answer = "ok"
              \/ /\ settled.op = asked.op /\ settled.kind = asked.kind /\ settled.id = asked.id
                 /\ settled.by = asked.by /\ settled.at = asked.at /\ settled.fields = asked.fields
                 /\ settled.seen = asked.seen
<1>1. CASE answer = "error"
  BY <1>1 DEF Settled, NoRequest, IsRequest, RequestFields
<1>2. CASE answer # "error" /\ asked.op \in {"get", "list"} /\ answer = "ok"
  BY <1>2 DEF Settled, NoRequest, IsRequest, RequestFields
<1>3. CASE answer # "error" /\ ~(asked.op \in {"get", "list"} /\ answer = "ok")
  BY <1>3 DEF Settled, IsRequest, RequestFields
<1>. QED  BY <1>1, <1>2, <1>3

\* An answer is good when what it says is so.
LEMMA SettledGood ==
  ASSUME NEW asked, IsRequest(asked), NEW answer, NEW t, NEW m, NEW g,
         \/ answer = "error"
         \/ answer = "ok" /\ asked.op \in {"get", "list", "report"}
         \/ /\ answer = "ok" /\ asked.op \in {"create", "update"}
            /\ asked.at \in Nat /\ SeenCommits(asked) /\ Used(asked.id, t, m, g) /\ Stays(asked, t, m, g)
         \/ /\ (answer = "ok" /\ asked.op = "delete") \/ answer = "not_found"
            /\ asked.op \in {"get", "update", "delete"}
            /\ Used(asked.id, t, m, g) /\ ~Has(In(asked, t, m), asked.kind, asked.id)
  PROVE  IsRequest(Settled(asked, answer)) /\ Good(Settled(asked, answer), t, m, g)
<1>. DEFINE settled == Settled(asked, answer)
<1>. HIDE DEF settled
<1>1. /\ IsRequest(settled)
      /\ settled.stage = "answered" /\ settled.answer = answer
      /\ answer = "error" => settled.op = "none"
      /\ answer # "error" =>
           \/ settled.op = "none" /\ asked.op \in {"get", "list"} /\ answer = "ok"
           \/ /\ settled.op = asked.op /\ settled.kind = asked.kind /\ settled.id = asked.id
              /\ settled.by = asked.by /\ settled.at = asked.at /\ settled.fields = asked.fields
              /\ settled.seen = asked.seen
  BY SettledWhat DEF settled
<1>2. Good(settled, t, m, g)
  BY <1>1 DEF Good, Acked, Missed, Stays, In, Newer, SeenCommits
<1>. QED  BY <1>1, <1>2 DEF settled

-----------------------------------------------------------------------------
(* Rows that are written *)

LEMMA RowIsNotNoRow == \A row : IsRow(row) => row # NoRow
BY DEF IsRow, NoRow, Kinds, Flat, Documents, Priced

\* The least fresh id is fresh.
LEMMA LeastFresh == ASSUME Fresh # {} PROVE Min(Fresh) \in Fresh
<1>1. Fresh \in SUBSET Nat
  BY BusinessAssumption DEF Fresh, Ids
<1>2. \E x \in Fresh : \A y \in Fresh : x <= y
  <2>1. PICK x \in Fresh : \A y \in Fresh : <<y, x>> \notin OpToRel(<, Nat)
    BY <1>1, WFMin, NatLessThanWellFounded, Zenon
  <2>2. \A y \in Fresh : ~ (y < x)
    BY <1>1, <2>1 DEF OpToRel
  <2>. QED  BY <1>1, <2>2
<1>. QED  BY <1>2 DEF Min

LEMMA RowIs ==
  ASSUME NEW kind \in Kinds, NEW body, body.parent \in 0 .. MaxRows, NEW given, NEW amounts,
         commits \in Nat
  PROVE  LET row == Row(kind, body, given, amounts) IN
         /\ IsRow(row) /\ row.kind = kind /\ row.parent = body.parent
         /\ row.main <= commits + 1 /\ row.extra <= commits + 1
         /\ "main"  \in body.gives => row.main  = commits + 1
         /\ "extra" \in body.gives => row.extra = commits + 1
BY DEF Row, IsRow, RowFields

LEMMA PatchedIs ==
  ASSUME NEW row, IsRow(row), NEW fields, NEW parent \in 0 .. MaxRows, commits \in Nat,
         row.main <= commits, row.extra <= commits
  PROVE  LET new == Patched(row, fields, parent) IN
         /\ IsRow(new) /\ new.kind = row.kind
         /\ new.parent = IF parent # 0 THEN parent ELSE row.parent
         /\ Answerable(row) => Answerable(new)
         /\ new.main >= row.main /\ new.extra >= row.extra
         /\ new.main <= commits + 1 /\ new.extra <= commits + 1
         /\ "main"  \in fields => new.main  = commits + 1
         /\ "extra" \in fields => new.extra = commits + 1
<1>. DEFINE new == Patched(row, fields, parent)
<1>0. row = [f \in RowFields |-> row[f]]
  BY DEF IsRow
<1>1. /\ new = [f \in RowFields |-> new[f]] /\ new.kind = row.kind
      /\ new.parent = IF parent # 0 THEN parent ELSE row.parent
      /\ new.main  = IF "main"  \in fields THEN commits + 1 ELSE row.main
      /\ new.extra = IF "extra" \in fields THEN commits + 1 ELSE row.extra
  <2>. DEFINE has == row.hasMain \/ "main" \in fields
  <2>1. new = [row EXCEPT !.main    = IF "main"  \in fields THEN commits + 1 ELSE row.main,
                          !.extra   = IF "extra" \in fields THEN commits + 1 ELSE row.extra,
                          !.parent  = IF parent # 0 THEN parent ELSE row.parent,
                          !.hasMain = has]
    BY Zenon DEF Patched
  <2>. HIDE DEF new, has
  <2>. QED  BY <1>0, <2>1 DEF RowFields
<1>2. new.hasMain = (row.hasMain \/ "main" \in fields)
  BY DEF Patched, IsRow, RowFields
<1>3. Answerable(row) => Answerable(new)
  BY <1>1, <1>2, Zenon DEF Answerable
<1>4. row.main \in Nat /\ row.extra \in Nat
  BY DEF IsRow
<1>. HIDE DEF new
<1>5. IsRow(new)
  BY <1>1, <1>4 DEF IsRow
<1>6. /\ new.main >= row.main /\ new.extra >= row.extra
      /\ new.main <= commits + 1 /\ new.extra <= commits + 1
  BY <1>1, <1>4
<1>. QED  BY <1>1, <1>3, <1>5, <1>6 DEF new

\* A row put into the table, new or over an older state of it.
LEMMA TablePuts ==
  ASSUME StoresInv, NEW id \in Ids, NEW row, IsRow(row),
         table' = [table EXCEPT ![id] = row], commits' = commits + 1, UNCHANGED <<memory, gone>>,
         row.main <= commits + 1, row.extra <= commits + 1, Answerable(row),
         ForeignKeys /\ row.parent # 0 => Has(table, Table(row.kind).parent, row.parent),
         \/ id \in Fresh
         \/ /\ id \in Live(table) /\ row.kind = table[id].kind
            /\ row.main >= table[id].main /\ row.extra >= table[id].extra
  PROVE  StoresInv' /\ Grows /\ id \in Live(table') /\ table'[id] = row
<1>1. /\ table' = [i \in Ids |-> table'[i]] /\ table'[id] = row
      /\ \A i \in Ids \ {id} : table'[i] = table[i]
  BY DEF StoresInv, StoresTyped
<1>2. Live(table') = Live(table) \cup {id}
  BY <1>1, RowIsNotNoRow DEF Live
<1>3. \A i \in Live(table) : table'[i].kind = table[i].kind
  BY <1>1 DEF Fresh, Live
<1>4. StoresTyped'
  BY <1>1, <1>2 DEF StoresInv, StoresTyped, Live
<1>5. OneRow'
  BY <1>2 DEF StoresInv, OneRow, Fresh, Live
<1>6. Written(table', commits') /\ Written(memory', commits')
  <2>1. \A i \in Live(table) : table[i].main \in Nat /\ table[i].extra \in Nat
    BY DEF StoresInv, StoresTyped, IsRow
  <2>2. \A i \in Live(memory) : memory[i].main \in Nat /\ memory[i].extra \in Nat
    BY DEF StoresInv, StoresTyped, IsRow
  <2>3. commits \in Nat
    BY DEF StoresInv, StoresTyped
  <2>4. Written(table', commits')
    BY <1>1, <1>2, <2>1, <2>3 DEF StoresInv, Written, Live
  <2>5. Written(memory', commits')
    BY <2>2, <2>3 DEF StoresInv, Written, Live
  <2>. QED  BY <2>4, <2>5
<1>7. \A kind, i : Has(table, kind, i) => Has(table', kind, i)
  BY <1>2, <1>3 DEF Has
<1>8. TableIsSound'
  <2>. SUFFICES ASSUME NEW i \in Live(table')
                PROVE  /\ ForeignKeys /\ table'[i].parent # 0 =>
                            Has(table', Table(table'[i].kind).parent, table'[i].parent)
                       /\ Answerable(table'[i])
    BY DEF TableIsSound, ReferencesHold, ForeignKeys, Has, Live
  <2>1. CASE i = id
    BY <1>1, <1>7, <2>1
  <2>2. CASE i # id
    BY <1>1, <1>2, <1>7, <2>2 DEF StoresInv, TableIsSound, ReferencesHold, ForeignKeys, Live
  <2>. QED  BY <2>1, <2>2
<1>9. Grows
  <2>1. \A i \in Live(table) : table[i].main \in Nat /\ table[i].extra \in Nat
    BY DEF StoresInv, StoresTyped, IsRow
  <2>2. \A i \in Live(memory) : memory[i].main \in Nat /\ memory[i].extra \in Nat
    BY DEF StoresInv, StoresTyped, IsRow
  <2>3. KeepsRows(table, table')
    <3>. SUFFICES ASSUME NEW i \in Ids
                  PROVE  /\ i \in Live(table) =>
                              /\ i \in Live(table') /\ table'[i].kind = table[i].kind
                              /\ table'[i].main >= table[i].main
                              /\ table'[i].extra >= table[i].extra
                         /\ i \in Live(table') =>
                              (i \in Live(table) /\ table'[i].kind = table[i].kind) \/ i \in Fresh
      BY DEF KeepsRows
    <3>1. CASE i = id
      BY <1>1, <1>2, <3>1 DEF Fresh
    <3>2. CASE i # id
      <4>1. table'[i] = table[i] /\ (i \in Live(table') <=> i \in Live(table))
        BY <1>1, <1>2, <3>2
      <4>2. i \in Live(table) => table[i].main \in Nat /\ table[i].extra \in Nat
        BY <2>1
      <4>. QED  BY <4>1, <4>2
    <3>. QED  BY <3>1, <3>2
  <2>4. KeepsRows(memory, memory')
    BY <2>2 DEF KeepsRows
  <2>. QED  BY <2>3, <2>4 DEF Grows
<1>. QED  BY <1>1, <1>2, <1>4, <1>5, <1>6, <1>8, <1>9 DEF StoresInv

\* The same in the memory, which has no constraints.
LEMMA MemoryPuts ==
  ASSUME StoresInv, NEW id \in Ids, NEW row, IsRow(row),
         memory' = [memory EXCEPT ![id] = row], commits' = commits + 1, UNCHANGED <<table, gone>>,
         row.main <= commits + 1, row.extra <= commits + 1,
         \/ id \in Fresh
         \/ /\ id \in Live(memory) /\ row.kind = memory[id].kind
            /\ row.main >= memory[id].main /\ row.extra >= memory[id].extra
  PROVE  StoresInv' /\ Grows /\ id \in Live(memory') /\ memory'[id] = row
<1>1. /\ memory' = [i \in Ids |-> memory'[i]] /\ memory'[id] = row
      /\ \A i \in Ids \ {id} : memory'[i] = memory[i]
  BY DEF StoresInv, StoresTyped
<1>2. Live(memory') = Live(memory) \cup {id}
  BY <1>1, RowIsNotNoRow DEF Live
<1>3. \A i \in Live(memory) : memory'[i].kind = memory[i].kind
  BY <1>1 DEF Fresh, Live
<1>4. StoresTyped'
  BY <1>1, <1>2 DEF StoresInv, StoresTyped, Live
<1>5. OneRow'
  BY <1>2 DEF StoresInv, OneRow, Fresh, Live
<1>6. /\ \A i \in Live(table) : table[i].main \in Nat /\ table[i].extra \in Nat
      /\ \A i \in Live(memory) : memory[i].main \in Nat /\ memory[i].extra \in Nat
      /\ commits \in Nat
  BY DEF StoresInv, StoresTyped, IsRow
<1>7. Written(memory', commits')
  BY <1>1, <1>2, <1>6 DEF StoresInv, Written, Live
<1>8. Written(table', commits')
  BY <1>6 DEF StoresInv, Written, Live
<1>9. TableIsSound'
  BY DEF StoresInv, TableIsSound, ReferencesHold, Live, Has, Answerable
<1>10. Grows
  <2>1. KeepsRows(memory, memory')
    <3>. SUFFICES ASSUME NEW i \in Ids
                  PROVE  /\ i \in Live(memory) =>
                              /\ i \in Live(memory') /\ memory'[i].kind = memory[i].kind
                              /\ memory'[i].main >= memory[i].main
                              /\ memory'[i].extra >= memory[i].extra
                         /\ i \in Live(memory') =>
                              (i \in Live(memory) /\ memory'[i].kind = memory[i].kind) \/ i \in Fresh
      BY DEF KeepsRows
    <3>1. CASE i = id
      BY <1>1, <1>2, <3>1 DEF Fresh
    <3>2. CASE i # id
      <4>1. memory'[i] = memory[i] /\ (i \in Live(memory') <=> i \in Live(memory))
        BY <1>1, <1>2, <3>2
      <4>2. i \in Live(memory) => memory[i].main \in Nat /\ memory[i].extra \in Nat
        BY <1>6
      <4>. QED  BY <4>1, <4>2
    <3>. QED  BY <3>1, <3>2
  <2>2. KeepsRows(table, table')
    BY <1>6 DEF KeepsRows
  <2>. QED  BY <2>1, <2>2 DEF Grows
<1>. QED  BY <1>1, <1>2, <1>4, <1>5, <1>7, <1>8, <1>9, <1>10 DEF StoresInv

\* A row nothing refers to, or a row of the memory, is removed.
LEMMA TableDrops ==
  ASSUME StoresInv, NEW id \in Ids, id \in Live(table) \cup gone, ~ReferredTo(id),
         table' = [table EXCEPT ![id] = NoRow], gone' = gone \cup {id},
         UNCHANGED <<memory, commits>>
  PROVE  StoresInv' /\ Grows /\ id \notin Live(table')
<1>1. /\ table' = [i \in Ids |-> table'[i]] /\ table'[id] = NoRow
      /\ \A i \in Ids \ {id} : table'[i] = table[i]
  BY DEF StoresInv, StoresTyped
<1>2. Live(table') = Live(table) \ {id}
  BY <1>1 DEF Live
<1>3. StoresTyped'
  BY <1>1, <1>2 DEF StoresInv, StoresTyped, Live
<1>4. OneRow'
  BY <1>2 DEF StoresInv, OneRow, Live
<1>5. Written(table', commits') /\ Written(memory', commits')
  BY <1>1, <1>2 DEF StoresInv, Written, Live
<1>6. TableIsSound'
  <2>. SUFFICES ASSUME NEW i \in Live(table')
                PROVE  /\ ForeignKeys /\ table'[i].parent # 0 =>
                            Has(table', Table(table'[i].kind).parent, table'[i].parent)
                       /\ Answerable(table'[i])
    BY DEF TableIsSound, ReferencesHold, ForeignKeys, Has, Live
  <2>1. /\ i \in Live(table) /\ table'[i] = table[i]
        /\ ForeignKeys => table[i].parent # id
    BY <1>1, <1>2 DEF ReferredTo, Live
  <2>2. /\ ForeignKeys /\ table[i].parent # 0 =>
             Has(table, Table(table[i].kind).parent, table[i].parent)
        /\ Answerable(table[i])
    BY <2>1 DEF StoresInv, TableIsSound, ReferencesHold, ForeignKeys
  <2>3. \A kind, j : j # id /\ Has(table, kind, j) => Has(table', kind, j)
    BY <1>1, <1>2 DEF Has, Live
  <2>. QED  BY <2>1, <2>2, <2>3
<1>7. Grows
  <2>1. \A i \in Live(table) : table[i].main \in Nat /\ table[i].extra \in Nat
    BY DEF StoresInv, StoresTyped, IsRow
  <2>2. \A i \in Live(memory) : memory[i].main \in Nat /\ memory[i].extra \in Nat
    BY DEF StoresInv, StoresTyped, IsRow
  <2>3. KeepsRows(table, table')
    <3>. SUFFICES ASSUME NEW i \in Ids, i # id
                  PROVE  /\ i \in Live(table) =>
                              /\ i \in Live(table') /\ table'[i].kind = table[i].kind
                              /\ table'[i].main >= table[i].main
                              /\ table'[i].extra >= table[i].extra
                         /\ i \in Live(table') =>
                              i \in Live(table) /\ table'[i].kind = table[i].kind
      BY <1>2 DEF KeepsRows
    <3>1. table'[i] = table[i] /\ (i \in Live(table') <=> i \in Live(table))
      BY <1>1, <1>2
    <3>2. i \in Live(table) => table[i].main \in Nat /\ table[i].extra \in Nat
      BY <2>1
    <3>. QED  BY <3>1, <3>2
  <2>4. KeepsRows(memory, memory')
    BY <2>2 DEF KeepsRows
  <2>. QED  BY <2>3, <2>4 DEF Grows
<1>. QED  BY <1>2, <1>3, <1>4, <1>5, <1>6, <1>7 DEF StoresInv

LEMMA MemoryDrops ==
  ASSUME StoresInv, NEW ids \in SUBSET Ids, ids \subseteq Live(memory),
         memory' = [i \in Ids |-> IF i \in ids THEN NoRow ELSE memory[i]],
         gone' = gone \cup ids, UNCHANGED <<table, commits>>
  PROVE  StoresInv' /\ Grows /\ \A i \in ids : i \notin Live(memory')
<1>1. /\ memory' = [i \in Ids |-> memory'[i]]
      /\ \A i \in ids : memory'[i] = NoRow
      /\ \A i \in Ids \ ids : memory'[i] = memory[i]
  OBVIOUS
<1>2. Live(memory') = Live(memory) \ ids
  BY <1>1 DEF Live
<1>3. StoresTyped'
  BY <1>1, <1>2 DEF StoresInv, StoresTyped, Live
<1>4. OneRow'
  BY <1>2 DEF StoresInv, OneRow, Live
<1>5. Written(table', commits') /\ Written(memory', commits')
  BY <1>1, <1>2 DEF StoresInv, Written, Live
<1>6. TableIsSound'
  BY DEF StoresInv, TableIsSound, ReferencesHold, Live, Has, Answerable
<1>7. Grows
  <2>1. \A i \in Live(table) : table[i].main \in Nat /\ table[i].extra \in Nat
    BY DEF StoresInv, StoresTyped, IsRow
  <2>2. \A i \in Live(memory) : memory[i].main \in Nat /\ memory[i].extra \in Nat
    BY DEF StoresInv, StoresTyped, IsRow
  <2>3. KeepsRows(table, table')
    BY <2>1 DEF KeepsRows
  <2>4. KeepsRows(memory, memory')
    <3>. SUFFICES ASSUME NEW i \in Ids, i \notin ids
                  PROVE  /\ i \in Live(memory) =>
                              /\ i \in Live(memory') /\ memory'[i].kind = memory[i].kind
                              /\ memory'[i].main >= memory[i].main
                              /\ memory'[i].extra >= memory[i].extra
                         /\ i \in Live(memory') =>
                              i \in Live(memory) /\ memory'[i].kind = memory[i].kind
      BY <1>2 DEF KeepsRows
    <3>1. memory'[i] = memory[i] /\ (i \in Live(memory') <=> i \in Live(memory))
      BY <1>1, <1>2
    <3>2. i \in Live(memory) => memory[i].main \in Nat /\ memory[i].extra \in Nat
      BY <2>2
    <3>. QED  BY <3>1, <3>2
  <2>. QED  BY <2>3, <2>4 DEF Grows
<1>. QED  BY <1>2, <1>3, <1>4, <1>5, <1>6, <1>7 DEF StoresInv

-----------------------------------------------------------------------------
(* The steps *)

\* A request that is answered, and leaves the stores as they are.
LEMMA AnswersOnly ==
  ASSUME BusinessInv, UNCHANGED <<table, memory, commits, gone>>,
         NEW c \in Clients, NEW asked, IsRequest(asked), NEW answer,
         Answers(c, asked, answer),
         \/ answer = "error"
         \/ answer = "ok" /\ asked.op \in {"get", "list", "report"}
         \/ /\ answer = "not_found" /\ asked.op \in {"get", "update", "delete"}
            /\ Used(asked.id, table, memory, gone)
            /\ ~Has(In(asked, table, memory), asked.kind, asked.id)
  PROVE  BusinessInv'
<1>1. StoresInv' /\ Grows
  BY StoresRest DEF BusinessInv
<1>2. /\ IsRequest(Settled(asked, answer))
      /\ Good(Settled(asked, answer), table, memory, gone)
  BY SettledGood
<1>3. Good(Settled(asked, answer), table', memory', gone')
  BY <1>1, <1>2, GoodStays DEF BusinessInv
<1>. QED  BY <1>1, <1>2, <1>3, OneRequest DEF Answers

\* A request that waits for its next statement, and leaves the stores.
LEMMA SuspendsOnly ==
  ASSUME BusinessInv, UNCHANGED <<table, memory, commits, gone>>,
         NEW c \in Clients, NEW asked, IsRequest(asked),
         request' = [request EXCEPT ![c] = asked],
         Good(asked, table, memory, gone)
  PROVE  BusinessInv'
<1>1. StoresInv' /\ Grows
  BY StoresRest DEF BusinessInv
<1>2. Good(asked, table', memory', gone')
  BY <1>1, GoodStays DEF BusinessInv
<1>. QED  BY <1>1, <1>2, OneRequest

LEMMA KnownUsed == \A id \in Known : Used(id, table, memory, gone)
BY DEF Known, Fresh, Used

LEMMA RequestIs ==
  ASSUME BusinessInv, NEW c \in Clients
  PROVE  IsRequest(request[c]) /\ Good(request[c], table, memory, gone)
BY DEF BusinessInv, RequestsInv

\* A suspended request that fails.
LEMMA EndsInError ==
  ASSUME BusinessInv, NEW c \in Clients, Ends(c, "error"), KeepsStores
  PROVE  BusinessInv'
BY AnswersOnly, RequestIs DEF Ends, KeepsStores

LEMMA CreateSafe ==
  ASSUME BusinessInv, NEW c \in Clients, NEW kind \in Kinds, NEW body,
         body.parent \in 0 .. MaxRows, CreateRow(c, kind, body)
  PROVE  BusinessInv'
<1>. DEFINE id    == Min(Fresh)
            asked == [Asks("create", kind, id) EXCEPT !.fields = body.gives, !.at = commits + 1]
<1>1. id \in Fresh /\ id \in Ids
  BY LeastFresh DEF CreateRow, Fresh
<1>2. commits \in Nat
  BY DEF BusinessInv, StoresInv, StoresTyped
<1>3. /\ IsRequest(asked) /\ asked.op = "create" /\ asked.id = id
      /\ asked.fields = body.gives /\ asked.at = commits + 1 /\ asked.seen = Nothing
      /\ asked.by = IF available THEN "table" ELSE "memory"
  <2>. DEFINE base == Asks("create", kind, id)
  <2>. HIDE DEF id
  <2>1. /\ IsRequest(base) /\ base.op = "create" /\ base.id = id /\ base.seen = Nothing
        /\ base.by = IF available THEN "table" ELSE "memory"
    BY AsksWhat
  <2>. HIDE DEF base
  <2>2. asked = [base EXCEPT !.fields = body.gives, !.at = commits + 1]
    BY Zenon DEF base
  <2>. HIDE DEF asked
  <2>. QED  BY <2>1, <2>2 DEF IsRequest, RequestFields
<1>4. ASSUME NEW row, IsRow(row) PROVE Newer(row, asked) /\ SeenCommits(asked)
  <2>. HIDE DEF asked
  <2>. QED  BY <1>3, <1>4 DEF Nothing, Newer, SeenCommits, IsRow
<1>. HIDE DEF asked, id
<1>5. CASE /\ ~available
           /\ memory' = [memory EXCEPT ![id] = MemoryRow(kind, body)]
           /\ commits' = commits + 1
           /\ Answers(c, asked, IF Answerable(MemoryRow(kind, body)) THEN "ok" ELSE "error")
           /\ UNCHANGED <<available, table, gone>>
  <2>. DEFINE row    == MemoryRow(kind, body)
              answer == IF Answerable(row) THEN "ok" ELSE "error"
  <2>1. /\ IsRow(row) /\ row.main <= commits + 1 /\ row.extra <= commits + 1
        /\ "main"  \in body.gives => row.main  = commits + 1
        /\ "extra" \in body.gives => row.extra = commits + 1
    BY <1>2, RowIs DEF MemoryRow
  <2>. HIDE DEF row
  <2>2. StoresInv' /\ Grows /\ id \in Live(memory') /\ memory'[id] = row
    BY <1>1, <1>5, <2>1, MemoryPuts DEF BusinessInv, row
  <2>3. Used(asked.id, table', memory', gone') /\ Stays(asked, table', memory', gone')
    BY <1>2, <1>3, <1>4, <1>5, <2>1, <2>2 DEF Used, Stays, In
  <2>. SeenCommits(asked)
    BY <1>4, <2>1
  <2>4. answer \in {"ok", "error"}
    OBVIOUS
  <2>. HIDE DEF answer
  <2>5. IsRequest(Settled(asked, answer)) /\ Good(Settled(asked, answer), table', memory', gone')
    BY <1>2, <1>3, <2>3, <2>4, SettledGood
  <2>6. request' = [request EXCEPT ![c] = Settled(asked, answer)]
    BY <1>5, Zenon DEF Answers, answer, row
  <2>. QED  BY <2>2, <2>5, <2>6, OneRequest
<1>6. CASE /\ available /\ Accepts(kind, body)
           /\ table' = [table EXCEPT ![id] = TableRow(kind, body)]
           /\ commits' = commits + 1
           /\ Suspends(c, asked, "refreshing")
           /\ UNCHANGED <<available, memory, gone>>
  <2>. DEFINE row  == TableRow(kind, body)
              then == [asked EXCEPT !.stage = "refreshing"]
  <2>1. /\ IsRow(row) /\ row.main <= commits + 1 /\ row.extra <= commits + 1
        /\ "main"  \in body.gives => row.main  = commits + 1
        /\ "extra" \in body.gives => row.extra = commits + 1
        /\ row.kind = kind /\ row.parent = body.parent /\ row.hasMain
    <3>. DEFINE amounts == Rounded(body.amounts)
    <3>1. row = Row(kind, body, TRUE, amounts)
      BY DEF TableRow
    <3>2. row.hasMain
      BY DEF TableRow, Row
    <3>3. \E given1 : row = Row(kind, body, given1, amounts)
      BY <3>1
    <3>. HIDE DEF amounts, row
    <3>. QED  BY <1>2, <3>2, <3>3, RowIs
  <2>. HIDE DEF row
  <2>2. /\ ForeignKeys /\ row.parent # 0 => Has(table, Table(row.kind).parent, row.parent)
        /\ Answerable(row)
    BY <1>6, <2>1 DEF Accepts, ParentHolds, Answerable
  <2>3. StoresInv' /\ Grows /\ id \in Live(table') /\ table'[id] = row
    BY <1>1, <1>6, <2>1, <2>2, TablePuts DEF BusinessInv, row
  <2>4. /\ IsRequest(then) /\ then.stage = "refreshing" /\ then.op = "create"
        /\ then.id = id /\ then.fields = body.gives /\ then.at = commits + 1 /\ then.by = "table"
        /\ then.seen = asked.seen
    BY <1>3, <1>6 DEF IsRequest, RequestFields
  <2>5. request' = [request EXCEPT ![c] = then]
    BY <1>6 DEF Suspends
  <2>. HIDE DEF then
  <2>6. Good(then, table', memory', gone')
    <3>1. Newer(row, then) /\ SeenCommits(then)
      BY <1>4, <2>1, <2>4 DEF Newer, SeenCommits
    <3>. QED  BY <1>2, <2>1, <2>3, <2>4, <3>1 DEF Good, Acked, Missed, Used, Stays, In
  <2>. QED  BY <2>3, <2>4, <2>5, <2>6, OneRequest
<1>7. CASE Answers(c, asked, "error") /\ KeepsStores
  BY <1>3, <1>7, AnswersOnly DEF KeepsStores
<1>. QED  BY <1>5, <1>6, <1>7, Zenon DEF CreateRow, asked, id

LEMMA RefreshSafe ==
  ASSUME BusinessInv, NEW c \in Clients, RefreshEnds(c)
  PROVE  BusinessInv'
<1>. DEFINE asked == request[c]
<1>1. /\ IsRequest(asked) /\ asked.stage = "refreshing" /\ asked.op \in {"create", "update"}
      /\ asked.at \in Nat /\ SeenCommits(asked) /\ Used(asked.id, table, memory, gone)
      /\ Stays(asked, table, memory, gone)
  BY RequestIs DEF RefreshEnds, Good, Acked
<1>2. PICK answer \in {"ok", "error"} : Ends(c, answer)
  BY Zenon DEF RefreshEnds
<1>3. IsRequest(Settled(asked, answer)) /\ Good(Settled(asked, answer), table, memory, gone)
  BY <1>1, SettledGood
<1>. QED  BY <1>2, <1>3, SuspendsOnly DEF Ends, Answers, RefreshEnds, KeepsStores

\* What a patch wants of the row it read.
LEMMA WantsWhat ==
  ASSUME NEW asked, IsRequest(asked), NEW row, IsRow(row),
         NEW patch, patch.parent \in 0 .. MaxRows
  PROVE  LET wanted == Wants(asked, row, patch) IN
         /\ IsRequest(wanted) /\ wanted.op = asked.op /\ wanted.id = asked.id
         /\ wanted.kind = asked.kind /\ wanted.by = asked.by /\ wanted.sums = asked.sums
         /\ wanted.parent \in 0 .. MaxRows
         /\ SeenCommits(wanted) /\ Newer(row, wanted)
<1>. DEFINE seen   == [main  |-> IF "main"  \in patch.repeats THEN row.main  ELSE 0,
                       extra |-> IF "extra" \in patch.repeats THEN row.extra ELSE 0]
            parent == IF patch.parent = row.parent THEN 0 ELSE patch.parent
            wanted == Wants(asked, row, patch)
<1>1. row.main \in Nat /\ row.extra \in Nat
  BY DEF IsRow
<1>2. /\ seen.main \in Nat /\ seen.extra \in Nat
      /\ row.main >= seen.main /\ row.extra >= seen.extra
  BY <1>1
<1>3. parent \in 0 .. MaxRows
  BY BusinessAssumption
<1>. HIDE DEF seen, parent
<1>4. wanted = [asked EXCEPT !.fields = patch.changes, !.seen = seen, !.parent = parent]
  BY Zenon DEF Wants, seen, parent
<1>. HIDE DEF wanted
<1>5. /\ IsRequest(wanted) /\ wanted.op = asked.op /\ wanted.id = asked.id
      /\ wanted.kind = asked.kind /\ wanted.by = asked.by /\ wanted.sums = asked.sums
      /\ wanted.parent = parent /\ wanted.seen = seen
  BY <1>4 DEF IsRequest, RequestFields
<1>6. SeenCommits(wanted) /\ Newer(row, wanted)
  BY <1>2, <1>5 DEF SeenCommits, Newer
<1>. QED  BY <1>3, <1>5, <1>6 DEF wanted

LEMMA UpdateSafe ==
  ASSUME BusinessInv, NEW c \in Clients, NEW kind \in Kinds, NEW id \in Ids, NEW patch,
         patch.parent \in 0 .. MaxRows, UpdateRow(c, kind, id, patch)
  PROVE  BusinessInv'
<1>. DEFINE store  == IF available THEN table ELSE memory
            asked  == Asks("update", kind, id)
            wanted == Wants(asked, store[id], patch)
            row    == Patched(store[id], wanted.fields, wanted.parent)
            then   == [wanted EXCEPT !.at = commits + 1]
            waits  == [wanted EXCEPT !.stage = "writing"]
            answer == IF Answerable(row) THEN "ok" ELSE "error"
<1>1. commits \in Nat /\ Used(id, table, memory, gone)
  BY KnownUsed DEF BusinessInv, StoresInv, StoresTyped, UpdateRow
<1>2. /\ IsRequest(asked) /\ asked.op = "update" /\ asked.id = id /\ asked.kind = kind
      /\ asked.by = IF available THEN "table" ELSE "memory"
  BY AsksWhat
<1>3. In(asked, table, memory) = store
  BY <1>2 DEF In
<1>. HIDE DEF asked
<1>4. ASSUME Has(store, kind, id)
      PROVE  /\ IsRow(store[id]) /\ store[id].main <= commits /\ store[id].extra <= commits
             /\ IsRequest(wanted) /\ wanted.op = "update" /\ wanted.id = id
             /\ wanted.kind = kind /\ wanted.by = asked.by /\ wanted.parent \in 0 .. MaxRows
             /\ SeenCommits(wanted) /\ Newer(store[id], wanted)
  <2>1. IsRow(store[id]) /\ store[id].main <= commits /\ store[id].extra <= commits
    BY <1>4 DEF Has, BusinessInv, StoresInv, StoresTyped, Written
  <2>. HIDE DEF store
  <2>. QED  BY <1>2, <2>1, WantsWhat
<1>. HIDE DEF wanted
<1>5. CASE ~Has(store, kind, id) /\ Answers(c, asked, "not_found") /\ KeepsStores
  BY <1>1, <1>2, <1>3, <1>5, AnswersOnly DEF KeepsStores
<1>6. CASE /\ ~available /\ Has(store, kind, id)
           /\ memory' = [memory EXCEPT ![id] = row]
           /\ commits' = commits + 1
           /\ Answers(c, then, answer)
           /\ UNCHANGED <<available, table, gone>>
  <2>1. id \in Live(memory) /\ store = memory
    BY <1>6 DEF Has
  <2>2. /\ IsRow(row) /\ row.kind = memory[id].kind
        /\ row.main >= memory[id].main /\ row.extra >= memory[id].extra
        /\ row.main <= commits + 1 /\ row.extra <= commits + 1
        /\ "main"  \in wanted.fields => row.main  = commits + 1
        /\ "extra" \in wanted.fields => row.extra = commits + 1
    <3>. HIDE DEF store
    <3>. QED  BY <1>1, <1>4, <1>6, <2>1, PatchedIs
  <2>3. /\ IsRequest(then) /\ then.op = "update" /\ then.id = id
        /\ then.fields = wanted.fields /\ then.seen = wanted.seen
        /\ then.at = commits + 1 /\ then.by = "memory"
    BY <1>2, <1>4, <1>6 DEF IsRequest, RequestFields
  <2>4. request' = [request EXCEPT ![c] = Settled(then, answer)] /\ answer \in {"ok", "error"}
    BY <1>6 DEF Answers
  <2>. HIDE DEF row, then, answer
  <2>5. StoresInv' /\ Grows /\ id \in Live(memory') /\ memory'[id] = row
    BY <1>6, <2>1, <2>2, MemoryPuts DEF BusinessInv
  <2>6. SeenCommits(then) /\ Newer(row, then)
    <3>1. IsRow(memory[id]) /\ SeenCommits(wanted) /\ Newer(memory[id], wanted)
      BY <1>4, <1>6, <2>1
    <3>. HIDE DEF store
    <3>. QED  BY <2>2, <2>3, <3>1 DEF SeenCommits, Newer, IsRow
  <2>7. Used(then.id, table', memory', gone') /\ Stays(then, table', memory', gone')
    BY <1>1, <2>2, <2>3, <2>5, <2>6 DEF Used, Stays, In
  <2>8. IsRequest(Settled(then, answer)) /\ Good(Settled(then, answer), table', memory', gone')
    BY <1>1, <2>3, <2>4, <2>6, <2>7, SettledGood
  <2>. QED  BY <2>4, <2>5, <2>8, OneRequest
<1>7. CASE available /\ Has(store, kind, id) /\ Suspends(c, wanted, "writing") /\ KeepsStores
  <2>1. /\ IsRequest(waits) /\ waits.stage = "writing" /\ waits.op = "update"
        /\ waits.id = id /\ waits.kind = kind /\ waits.parent = wanted.parent
        /\ waits.seen = wanted.seen /\ waits.by = "table"
    BY <1>2, <1>4, <1>7 DEF IsRequest, RequestFields
  <2>2. request' = [request EXCEPT ![c] = waits]
    BY <1>7 DEF Suspends
  <2>3. id \in Live(table) /\ table[id].kind = kind /\ store = table
    BY <1>7 DEF Has
  <2>. HIDE DEF waits
  <2>4. SeenCommits(waits) /\ Newer(table[id], waits) /\ waits.parent \in 0 .. MaxRows
    BY <1>4, <1>7, <2>1, <2>3 DEF SeenCommits, Newer
  <2>5. Good(waits, table, memory, gone)
    BY <2>1, <2>3, <2>4 DEF Good, Acked, Missed
  <2>. QED  BY <1>7, <2>1, <2>2, <2>5, SuspendsOnly DEF KeepsStores
<1>. QED  BY <1>5, <1>6, <1>7, Zenon DEF UpdateRow, asked, wanted

LEMMA CommitSafe ==
  ASSUME BusinessInv, NEW c \in Clients, UpdateCommits(c)
  PROVE  BusinessInv'
<1>. DEFINE asked == request[c]
            id    == asked.id
            row   == Patched(table[id], asked.fields, asked.parent)
            next  == [asked EXCEPT !.at = commits + 1]
            then  == [next EXCEPT !.stage = "refreshing"]
<1>1. commits \in Nat
  BY DEF BusinessInv, StoresInv, StoresTyped
<1>2. /\ IsRequest(asked) /\ asked.by = "table" /\ id \in Ids
      /\ id \in Live(table) => table[id].kind = asked.kind
      /\ asked.op = "update" /\ asked.parent \in 0 .. MaxRows
      /\ SeenCommits(asked) /\ (id \in Live(table) => Newer(table[id], asked))
  BY RequestIs DEF UpdateCommits, Good
<1>3. CASE /\ id \in Live(table)
           /\ asked.parent # 0 => ParentHolds(asked.kind, asked.parent)
           /\ table' = [table EXCEPT ![id] = row]
           /\ commits' = commits + 1
           /\ Suspends(c, next, "refreshing")
           /\ UNCHANGED <<available, memory, gone>>
  <2>1. /\ IsRow(table[id]) /\ table[id].main <= commits /\ table[id].extra <= commits
        /\ Answerable(table[id])
        /\ ForeignKeys /\ table[id].parent # 0 =>
             Has(table, Table(table[id].kind).parent, table[id].parent)
    BY <1>3 DEF BusinessInv, StoresInv, StoresTyped, Written, TableIsSound, ReferencesHold,
                ForeignKeys
  <2>2. /\ IsRow(row) /\ row.kind = table[id].kind
        /\ row.parent = IF asked.parent # 0 THEN asked.parent ELSE table[id].parent
        /\ Answerable(row)
        /\ row.main >= table[id].main /\ row.extra >= table[id].extra
        /\ row.main <= commits + 1 /\ row.extra <= commits + 1
        /\ "main"  \in asked.fields => row.main  = commits + 1
        /\ "extra" \in asked.fields => row.extra = commits + 1
    BY <1>1, <1>2, <2>1, PatchedIs
  <2>3. /\ IsRequest(then) /\ then.op = "update" /\ then.id = id /\ then.fields = asked.fields
        /\ then.at = commits + 1 /\ then.by = "table" /\ then.stage = "refreshing"
        /\ then.seen = asked.seen
    BY <1>2 DEF IsRequest, RequestFields
  <2>4. request' = [request EXCEPT ![c] = then]
    BY <1>3 DEF Suspends
  <2>. HIDE DEF row, then
  <2>5. ForeignKeys /\ row.parent # 0 => Has(table, Table(row.kind).parent, row.parent)
    BY <1>2, <1>3, <2>1, <2>2 DEF ParentHolds
  <2>6. StoresInv' /\ Grows /\ id \in Live(table') /\ table'[id] = row
    BY <1>2, <1>3, <2>2, <2>5, TablePuts DEF BusinessInv
  <2>7. Good(then, table', memory', gone')
    <3>1. SeenCommits(then) /\ Newer(row, then)
      BY <1>2, <1>3, <2>1, <2>2, <2>3 DEF SeenCommits, Newer, IsRow
    <3>. QED  BY <1>1, <2>2, <2>3, <2>6, <3>1 DEF Good, Acked, Missed, Used, Stays, In
  <2>. QED  BY <2>3, <2>4, <2>6, <2>7, OneRequest
<1>4. CASE Ends(c, "error") /\ KeepsStores
  BY <1>4, EndsInError
<1>. QED  BY <1>3, <1>4, Zenon DEF UpdateCommits

LEMMA DeleteSafe ==
  ASSUME BusinessInv, NEW c \in Clients, NEW kind \in Flat, NEW id \in Ids, DeleteRow(c, kind, id)
  PROVE  BusinessInv'
<1>. DEFINE store == IF available THEN table ELSE memory
            asked == Asks("delete", kind, id)
            waits == [asked EXCEPT !.stage = "deleting"]
<1>1. Used(id, table, memory, gone)
  BY KnownUsed DEF DeleteRow
<1>2. /\ IsRequest(asked) /\ asked.op = "delete" /\ asked.id = id /\ asked.kind = kind
      /\ asked.stage = "answered" /\ asked.by = IF available THEN "table" ELSE "memory"
  BY AsksWhat
<1>3. In(asked, table, memory) = store
  BY <1>2 DEF In
<1>. HIDE DEF asked
<1>4. CASE ~Has(store, kind, id) /\ Answers(c, asked, "not_found") /\ KeepsStores
  BY <1>1, <1>2, <1>3, <1>4, AnswersOnly DEF KeepsStores
<1>5. CASE /\ ~available /\ Has(store, kind, id)
           /\ memory' = [memory EXCEPT ![id] = NoRow]
           /\ gone' = gone \cup {id}
           /\ Answers(c, asked, "ok")
           /\ UNCHANGED <<available, table, commits>>
  <2>1. id \in Live(memory) /\ asked.by = "memory"
    BY <1>2, <1>5 DEF Has
  <2>2. memory' = [i \in Ids |-> IF i \in {id} THEN NoRow ELSE memory[i]]
    <3>1. memory = [i \in Ids |-> memory[i]]
      BY DEF BusinessInv, StoresInv, StoresTyped
    <3>. QED  BY <1>5, <3>1
  <2>3. StoresInv' /\ Grows /\ id \notin Live(memory')
    BY <1>5, <2>1, <2>2, MemoryDrops DEF BusinessInv
  <2>4. Used(id, table', memory', gone') /\ ~Has(In(asked, table', memory'), kind, id)
    BY <1>5, <2>1, <2>3 DEF Used, In, Has
  <2>5. /\ IsRequest(Settled(asked, "ok"))
        /\ Good(Settled(asked, "ok"), table', memory', gone')
    BY <1>2, <2>4, SettledGood
  <2>. QED  BY <1>5, <2>3, <2>5, OneRequest DEF Answers
<1>6. CASE available /\ Has(store, kind, id) /\ Suspends(c, asked, "deleting") /\ KeepsStores
  <2>1. /\ IsRequest(waits) /\ waits.stage = "deleting" /\ waits.op = "delete"
        /\ waits.id = id /\ waits.kind = kind /\ waits.by = "table"
    BY <1>2, <1>6 DEF IsRequest, RequestFields
  <2>2. request' = [request EXCEPT ![c] = waits]
    BY <1>6 DEF Suspends
  <2>3. id \in Live(table) /\ table[id].kind = kind
    BY <1>6 DEF Has
  <2>. HIDE DEF waits
  <2>4. Good(waits, table, memory, gone)
    BY <2>1, <2>3 DEF Good, Acked, Missed
  <2>. QED  BY <1>6, <2>1, <2>2, <2>4, SuspendsOnly DEF KeepsStores
<1>. QED  BY <1>4, <1>5, <1>6, Zenon DEF DeleteRow, asked

LEMMA DropSafe ==
  ASSUME BusinessInv, NEW c \in Clients, DeleteCommits(c)
  PROVE  BusinessInv'
<1>. DEFINE asked == request[c]
            id    == asked.id
<1>1. /\ IsRequest(asked) /\ asked.op = "delete" /\ asked.by = "table"
      /\ id \in Ids /\ id \in Live(table) \cup gone
  BY RequestIs DEF DeleteCommits, Good
<1>2. CASE /\ ~ReferredTo(id)
           /\ table' = [table EXCEPT ![id] = NoRow]
           /\ gone' = gone \cup {id}
           /\ Ends(c, "ok")
           /\ UNCHANGED <<available, memory, commits>>
  <2>1. StoresInv' /\ Grows /\ id \notin Live(table')
    BY <1>1, <1>2, TableDrops DEF BusinessInv
  <2>2. Used(id, table', memory', gone') /\ ~Has(In(asked, table', memory'), asked.kind, id)
    BY <1>1, <1>2, <2>1 DEF Used, In, Has
  <2>3. /\ IsRequest(Settled(asked, "ok"))
        /\ Good(Settled(asked, "ok"), table', memory', gone')
    BY <1>1, <2>2, SettledGood
  <2>. QED  BY <1>2, <2>1, <2>3, OneRequest DEF Ends, Answers
<1>3. CASE Ends(c, "error") /\ KeepsStores
  BY <1>3, EndsInError
<1>. QED  BY <1>2, <1>3, Zenon DEF DeleteCommits

LEMMA GetSafe ==
  ASSUME BusinessInv, NEW c \in Clients, NEW kind \in Kinds, NEW id \in Ids, GetRow(c, kind, id)
  PROVE  BusinessInv'
<1>. DEFINE store == IF available THEN table ELSE memory
            asked == Asks("get", kind, id)
<1>1. Used(id, table, memory, gone)
  BY KnownUsed DEF GetRow
<1>2. /\ IsRequest(asked) /\ asked.op = "get" /\ asked.id = id /\ asked.kind = kind
      /\ asked.by = IF available THEN "table" ELSE "memory"
  BY AsksWhat
<1>3. In(asked, table, memory) = store
  BY <1>2 DEF In
<1>. HIDE DEF asked
<1>4. KeepsStores
  BY DEF GetRow
<1>5. CASE ~Has(store, kind, id) /\ Answers(c, asked, "not_found")
  BY <1>1, <1>2, <1>3, <1>4, <1>5, AnswersOnly DEF KeepsStores
<1>6. CASE \E answer \in {"ok", "error"} : Answers(c, asked, answer)
  BY <1>2, <1>4, <1>6, AnswersOnly DEF KeepsStores
<1>. QED  BY <1>5, <1>6, Zenon DEF GetRow, asked

LEMMA ListSafe ==
  ASSUME BusinessInv, NEW c \in Clients, NEW kind \in Kinds, ListRows(c, kind)
  PROVE  BusinessInv'
<1>. DEFINE asked == Asks("list", kind, 0)
<1>1. IsRequest(asked) /\ asked.op = "list"
  BY AsksWhat
<1>2. KeepsStores
  BY DEF ListRows
<1>3. PICK answer \in {"ok", "error"} : Answers(c, asked, answer)
  BY Zenon DEF ListRows
<1>. HIDE DEF asked
<1>. QED  BY <1>1, <1>2, <1>3, AnswersOnly DEF KeepsStores

LEMMA SummarySafe ==
  ASSUME BusinessInv, NEW c \in Clients, ReportSummary(c)
  PROVE  BusinessInv'
<1>. DEFINE asked == Asks("report", "none", 0)
            next  == [asked EXCEPT !.at = 1]
            waits == [next EXCEPT !.stage = "selecting"]
<1>1. /\ IsRequest(asked) /\ asked.op = "report"
  BY AsksWhat
<1>2. KeepsStores
  BY DEF ReportSummary
<1>3. Answers(c, asked, "ok") \/ request' = [request EXCEPT ![c] = waits]
  BY DEF ReportSummary, Suspends
<1>. HIDE DEF asked
<1>4. CASE Answers(c, asked, "ok")
  BY <1>1, <1>2, <1>4, AnswersOnly DEF KeepsStores
<1>5. CASE request' = [request EXCEPT ![c] = waits]
  <2>1. IsRequest(waits) /\ waits.op = "report" /\ waits.stage = "selecting"
    BY <1>1 DEF IsRequest, RequestFields
  <2>. HIDE DEF waits
  <2>2. Good(waits, table, memory, gone)
    BY <2>1 DEF Good, Acked, Missed
  <2>. QED  BY <1>2, <1>5, <2>1, <2>2, SuspendsOnly DEF KeepsStores
<1>. QED  BY <1>3, <1>4, <1>5

LEMMA SelectsSafe ==
  ASSUME BusinessInv, NEW c \in Clients, ReportSelects(c)
  PROVE  BusinessInv'
<1>. DEFINE asked == request[c]
            sums  == IF Statements[asked.at] = "invoice" THEN InvoiceFigures ELSE asked.sums
            read  == [asked EXCEPT !.at = asked.at + 1, !.sums = sums]
            last  == [read EXCEPT !.at = 0]
<1>1. IsRequest(asked) /\ asked.stage = "selecting" /\ asked.op = "report"
  BY RequestIs DEF ReportSelects, Good
<1>2. KeepsStores
  BY DEF ReportSelects
<1>3. \/ request' = [request EXCEPT ![c] = read]
      \/ Answers(c, last, "ok")
      \/ Ends(c, "error")
  BY Zenon DEF ReportSelects
<1>. HIDE DEF sums
<1>4. /\ IsRequest(read) /\ read.stage = "selecting" /\ read.op = "report"
      /\ IsRequest(last) /\ last.op = "report"
  BY <1>1 DEF IsRequest, RequestFields
<1>. HIDE DEF read, last
<1>5. CASE request' = [request EXCEPT ![c] = read]
  <2>1. Good(read, table, memory, gone)
    BY <1>4 DEF Good, Acked, Missed
  <2>. QED  BY <1>2, <1>4, <1>5, <2>1, SuspendsOnly DEF KeepsStores
<1>6. CASE Answers(c, last, "ok")
  BY <1>2, <1>4, <1>6, AnswersOnly DEF KeepsStores
<1>7. CASE Ends(c, "error")
  BY <1>2, <1>7, EndsInError
<1>. QED  BY <1>3, <1>5, <1>6, <1>7

LEMMA RestartSafe ==
  ASSUME BusinessInv, Restarts
  PROVE  BusinessInv'
<1>1. memory' = [i \in Ids |-> IF i \in Live(memory) THEN NoRow ELSE memory[i]]
  BY DEF Restarts, Live
<1>2. StoresInv' /\ Grows
  <2>. DEFINE ids == Live(memory)
  <2>1. ids \in SUBSET Ids
    BY DEF Live
  <2>. QED  BY <1>1, <2>1, MemoryDrops DEF BusinessInv, Restarts
<1>3. ASSUME NEW c \in Clients
      PROVE  IsRequest(request'[c]) /\ Good(request'[c], table', memory', gone')
  <2>1. IsRequest(request[c]) /\ Good(request[c], table, memory, gone)
    BY RequestIs
  <2>2. CASE request[c].stage = "answered"
    <3>1. request'[c] = request[c]
      BY <2>2 DEF Restarts
    <3>. QED  BY <1>2, <2>1, <3>1, GoodStays DEF BusinessInv
  <2>3. CASE request[c].stage # "answered"
    <3>1. request'[c] = Settled(request[c], "error")
      BY <2>3 DEF Restarts
    <3>. QED  BY <2>1, <3>1, SettledGood
  <2>. QED  BY <2>2, <2>3
<1>4. request' = [c \in Clients |-> request'[c]]
  BY DEF Restarts
<1>. QED  BY <1>2, <1>3, <1>4 DEF BusinessInv, RequestsInv

\* What is in a body.
LEMMA BodyIs ==
  ASSUME NEW gives, NEW parents, NEW statuses, NEW amounts,
         NEW body \in Bodies(gives, parents, statuses, amounts)
  PROVE  body.parent \in parents /\ body.amounts \in amounts
BY DEF Bodies

LEMMA PricedBodies ==
  /\ \A body \in QuotationBodies(Ids) :
       body.parent \in Ids /\ \E cart \in Carts : body.amounts = PricedAmounts(cart, <<0, 1>>)
  /\ \A body \in InvoiceBodies(Ids) \cup PurchaseOrderBodies(Ids) :
       /\ body.parent \in Ids
       /\ \E cart \in Carts, rate \in Rates : body.amounts = PricedAmounts(cart, rate)
<1>. DEFINE untaxed == {PricedAmounts(cart, <<0, 1>>) : cart \in Carts}
            taxed   == {PricedAmounts(cart, rate) : cart \in Carts, rate \in Rates}
<1>1. /\ \A amounts \in untaxed : \E cart \in Carts : amounts = PricedAmounts(cart, <<0, 1>>)
      /\ \A amounts \in taxed : \E cart \in Carts, rate \in Rates : amounts = PricedAmounts(cart, rate)
  OBVIOUS
<1>. HIDE DEF untaxed, taxed
<1>2. \A body \in QuotationBodies(Ids) : body.parent \in Ids /\ body.amounts \in untaxed
  BY BodyIs DEF QuotationBodies, untaxed
<1>3. \A body \in InvoiceBodies(Ids) \cup PurchaseOrderBodies(Ids) :
        body.parent \in Ids /\ body.amounts \in taxed
  BY BodyIs DEF InvoiceBodies, PurchaseOrderBodies, taxed
<1>. QED  BY <1>1, <1>2, <1>3

LEMMA EstimationBody ==
  \A body \in EstimationBodies(Ids) :
    body.parent = 0 /\ \E costs \in CostSheets : body.amounts = EstimationAmounts(costs)
<1>. DEFINE sheets == {EstimationAmounts(costs) : costs \in CostSheets}
<1>1. \A amounts \in sheets : \E costs \in CostSheets : amounts = EstimationAmounts(costs)
  OBVIOUS
<1>. HIDE DEF sheets
<1>2. \A body \in EstimationBodies(Ids) : body.parent \in {0} /\ body.amounts \in sheets
  BY BodyIs DEF EstimationBodies, sheets
<1>. QED  BY <1>1, <1>2

LEMMA FreeBodies ==
  \A body \in CustomerBodies(Ids) \cup VendorBodies(Ids) \cup BOQBodies(Ids) \cup InventoryBodies(Ids) :
    body.parent \in Ids \cup {0} /\ body.amounts = NoAmounts
<1>1. \A body \in CustomerBodies(Ids) \cup VendorBodies(Ids) \cup BOQBodies(Ids) :
        body.parent \in {0} /\ body.amounts \in {NoAmounts}
  BY BodyIs DEF CustomerBodies, VendorBodies, BOQBodies
<1>2. \A body \in InventoryBodies(Ids) : body.parent \in Ids \cup {0} /\ body.amounts \in {NoAmounts}
  BY BodyIs DEF InventoryBodies
<1>. QED  BY <1>1, <1>2

\* What a request may refer to is an id, or nothing.
LEMMA ParentsAreIds ==
  /\ \A body \in CustomerBodies(Ids) \cup VendorBodies(Ids) \cup QuotationBodies(Ids)
            \cup InvoiceBodies(Ids) \cup PurchaseOrderBodies(Ids) \cup BOQBodies(Ids)
            \cup InventoryBodies(Ids) \cup EstimationBodies(Ids) : body.parent \in 0 .. MaxRows
  /\ \A patch \in CustomerPatches(Ids) \cup VendorPatches(Ids) \cup InventoryPatches(Ids) :
       patch.parent \in 0 .. MaxRows
<1>1. 0 \in 0 .. MaxRows /\ Ids \subseteq 0 .. MaxRows
  BY BusinessAssumption DEF Ids
<1>2. \A patch \in CustomerPatches(Ids) \cup VendorPatches(Ids) \cup InventoryPatches(Ids) :
        patch.parent \in 0 .. MaxRows
  BY <1>1 DEF CustomerPatches, VendorPatches, InventoryPatches, Patches
<1>. HIDE DEF Ids
<1>. QED  BY <1>1, <1>2, PricedBodies, EstimationBody, FreeBodies

LEMMA KindsAre ==
  /\ {"customer", "vendor", "quotation", "invoice", "purchase_order", "boq", "inventory",
      "estimation"} \subseteq Kinds
  /\ {"customer", "vendor", "inventory"} \subseteq Flat
BY DEF Kinds, Flat, Documents, Priced

LEMMA ServesSafe ==
  ASSUME BusinessInv, NEW c \in Clients, Serves(c)
  PROVE  BusinessInv'
<1>1. CASE \/ CreateCustomer(c) \/ CreateVendor(c) \/ CreateQuotation(c) \/ CreateInvoice(c)
           \/ CreatePurchaseOrder(c) \/ CreateBOQ(c) \/ CreateInventory(c) \/ CreateEstimation(c)
  <2>1. PICK kind \in Kinds : \E body : body.parent \in 0 .. MaxRows /\ CreateRow(c, kind, body)
    BY <1>1, ParentsAreIds, KindsAre, Zenon
       DEF CreateCustomer, CreateVendor, CreateQuotation, CreateInvoice, CreatePurchaseOrder,
           CreateBOQ, CreateInventory, CreateEstimation
  <2>. QED  BY <2>1, CreateSafe
<1>2. CASE \/ GetCustomer(c) \/ GetVendor(c) \/ GetQuotation(c) \/ GetInvoice(c)
           \/ GetPurchaseOrder(c) \/ GetBOQ(c) \/ GetInventory(c) \/ GetEstimation(c)
  <2>1. PICK kind \in Kinds : \E id \in Ids : GetRow(c, kind, id)
    BY <1>2, KindsAre, Zenon
       DEF GetCustomer, GetVendor, GetQuotation, GetInvoice, GetPurchaseOrder, GetBOQ,
           GetInventory, GetEstimation
  <2>. QED  BY <2>1, GetSafe
<1>3. CASE \/ ListCustomers(c) \/ ListVendors(c) \/ ListQuotations(c) \/ ListInvoices(c)
           \/ ListPurchaseOrders(c) \/ ListBOQs(c) \/ ListInventory(c) \/ ListEstimations(c)
  <2>1. PICK kind \in Kinds : ListRows(c, kind)
    BY <1>3, KindsAre, Zenon
       DEF ListCustomers, ListVendors, ListQuotations, ListInvoices, ListPurchaseOrders,
           ListBOQs, ListInventory, ListEstimations
  <2>. QED  BY <2>1, ListSafe
<1>4. CASE UpdateCustomer(c) \/ UpdateVendor(c) \/ UpdateInventory(c)
  <2>1. PICK kind \in Kinds, id \in Ids :
          \E patch : patch.parent \in 0 .. MaxRows /\ UpdateRow(c, kind, id, patch)
    BY <1>4, ParentsAreIds, KindsAre, Zenon DEF UpdateCustomer, UpdateVendor, UpdateInventory
  <2>. QED  BY <2>1, UpdateSafe
<1>5. CASE DeleteCustomer(c) \/ DeleteVendor(c) \/ DeleteInventory(c)
  <2>1. PICK kind \in Flat : \E id \in Ids : DeleteRow(c, kind, id)
    BY <1>5, KindsAre, Zenon DEF DeleteCustomer, DeleteVendor, DeleteInventory
  <2>. QED  BY <2>1, DeleteSafe
<1>6. CASE ReportSummary(c)
  BY <1>6, SummarySafe
<1>7. CASE Resumes(c)
  BY <1>7, RefreshSafe, CommitSafe, DropSafe, SelectsSafe DEF Resumes
<1>. QED  BY <1>1, <1>2, <1>3, <1>4, <1>5, <1>6, <1>7, Zenon
          DEF Serves, Customers, Vendors, Quotations, InvoiceRoutes, PurchaseOrders, BOQs,
              Inventory, Estimations, Reports

-----------------------------------------------------------------------------
(* The theorems *)

LEMMA BusinessStart == Init => BusinessInv
<1>. SUFFICES ASSUME Init PROVE BusinessInv
  OBVIOUS
<1>. USE DEF Init, InitRepository
<1>1. Live(table) = {} /\ Live(memory) = {}
  BY DEF Live
<1>2. StoresInv
  BY <1>1 DEF StoresInv, StoresTyped, OneRow, Written, TableIsSound, ReferencesHold
<1>3. RequestsInv
  BY DEF RequestsInv, NoRequest, IsRequest, RequestFields, Good, Acked, Missed
<1>. QED  BY <1>2, <1>3 DEF BusinessInv

LEMMA BusinessStep == BusinessInv /\ [Next]_vars => BusinessInv'
<1>. SUFFICES ASSUME BusinessInv, [Next]_vars PROVE BusinessInv'
  OBVIOUS
<1>1. CASE \E c \in Clients : Serves(c)
  BY <1>1, ServesSafe
<1>2. CASE Restarts
  BY <1>2, RestartSafe
<1>3. CASE UNCHANGED vars
  <2>1. StoresInv'
    BY <1>3, StoresRest DEF vars, businessVars, BusinessInv
  <2>2. RequestsInv'
    BY <1>3 DEF vars, businessVars, BusinessInv, RequestsInv, Good, Stays, Used, In, Has, Live
  <2>. QED  BY <2>1, <2>2 DEF BusinessInv
<1>. QED  BY <1>1, <1>2, <1>3 DEF Next

LEMMA BusinessInvariant == Spec => []BusinessInv
BY BusinessStart, BusinessStep, PTL DEF Spec

\* A creation or a patch answered with success stays: until the row is deleted
\* or lost with the process' memory it is there, a field sent with a new value
\* holds nothing older than that, and a field sent with the value it had, which
\* the flush leaves out, nothing older than what was read (repository.py).
THEOREM AcknowledgedRows == Spec => []AcknowledgedStays
<1>1. BusinessInv => AcknowledgedStays
  <2>. SUFFICES ASSUME BusinessInv, NEW c \in Answered({"create", "update"}, "ok"),
                       request[c].id \notin gone
                PROVE  LET asked == request[c]
                           row   == StoreOf(asked)[asked.id]
                       IN /\ asked.id \in Live(StoreOf(asked))
                          /\ "main"  \in asked.fields => row.main  >= asked.at
                          /\ "extra" \in asked.fields => row.extra >= asked.at
                          /\ row.main >= asked.seen.main /\ row.extra >= asked.seen.extra
    BY DEF AcknowledgedStays
  <2>1. c \in Clients /\ Acked(request[c])
    BY DEF Answered, Acked
  <2>2. Stays(request[c], table, memory, gone)
    BY <2>1, RequestIs DEF Good
  <2>. QED  BY <2>2 DEF Stays, In, Newer, StoreOf
<1>. QED  BY <1>1, BusinessInvariant, PTL

\* An id that was answered "not found", or deleted, never again has a row in
\* the store that answered, although updates and deletions interleave and ids
\* of a lost memory are not reused (repository.py).
THEOREM AbsenceLasts == Spec => []NotFoundIsForever
<1>1. BusinessInv => NotFoundIsForever
  <2>. SUFFICES ASSUME BusinessInv,
                       NEW c \in Answered({"get", "update", "delete"}, "not_found")
                                  \cup Answered({"delete"}, "ok")
                PROVE  ~Has(StoreOf(request[c]), request[c].kind, request[c].id)
    BY DEF NotFoundIsForever
  <2>1. c \in Clients /\ Missed(request[c])
    BY DEF Answered, Missed
  <2>. QED  BY <2>1, RequestIs DEF Good, In, StoreOf
<1>. QED  BY <1>1, BusinessInvariant, PTL

\* The database has only rows that every list can answer, whatever the engine,
\* and where the engine enforces the foreign keys it refers only to rows it has,
\* of the right kind (models.py, schemas.py).
THEOREM SoundTable == Spec => []TableIsSound
<1>1. BusinessInv => TableIsSound
  BY DEF BusinessInv, StoresInv
<1>. QED  BY <1>1, BusinessInvariant, PTL

-----------------------------------------------------------------------------
(* Sums *)

Choice(s) == CHOOSE x \in s : TRUE

\* The sums of f over the subsets of D, adding up as SumFunction does.
IsSum(g, f, D) ==
  g = [s \in SUBSET D |-> IF s = {} THEN 0 ELSE f[Choice(s)] + g[s \ {Choice(s)}]]

LEMMA SumIs ==
  ASSUME NEW f, \E g : IsSum(g, f, DOMAIN f)
  PROVE  \E g : IsSum(g, f, DOMAIN f) /\ SumFunction(f) = g[DOMAIN f]
<1>. DEFINE g == CHOOSE h : IsSum(h, f, DOMAIN f)
<1>1. IsSum(g, f, DOMAIN f)
  OBVIOUS
<1>2. SumFunction(f) = g[DOMAIN f]
  BY Zenon DEF SumFunction, SumFunctionOnSet, FoldFunctionOnSet, MapThenFoldSet, IsSum, Choice
<1>. QED  BY <1>1, <1>2

\* There are such sums when D is finite.
LEMMA SumExists ==
  ASSUME NEW D, IsFiniteSet(D), NEW f
  PROVE  \E g : IsSum(g, f, D)
<1>. DEFINE Small(n) == {s \in SUBSET D : Cardinality(s) <= n}
            Upto(g, n) == g = [s \in Small(n) |->
                                 IF s = {} THEN 0 ELSE f[Choice(s)] + g[s \ {Choice(s)}]]
            Bad == {n \in Nat : ~\E g : Upto(g, n)}
<1>1. \A s \in SUBSET D : IsFiniteSet(s) /\ Cardinality(s) \in Nat /\ Cardinality(s) <= Cardinality(D)
  BY FS_Subset, FS_CardinalityType
<1>2. \A s \in SUBSET D : s # {} =>
        /\ Choice(s) \in s /\ s \ {Choice(s)} \in SUBSET D
        /\ Cardinality(s \ {Choice(s)}) = Cardinality(s) - 1
  BY <1>1, FS_RemoveElement DEF Choice
<1>3. \A s \in SUBSET D : s # {} => Cardinality(s) > 0
  BY <1>1, FS_EmptySet
<1>4. Upto([s \in Small(0) |-> 0], 0)
  BY <1>1, <1>3
<1>5. ASSUME NEW n \in Nat, NEW g, Upto(g, n) PROVE \E h : Upto(h, n + 1)
  <2>. DEFINE h == [s \in Small(n + 1) |-> IF s = {} THEN 0 ELSE f[Choice(s)] + g[s \ {Choice(s)}]]
  <2>0. \A s \in Small(n) : g[s] = IF s = {} THEN 0 ELSE f[Choice(s)] + g[s \ {Choice(s)}]
    <3>. HIDE DEF Small
    <3>. QED  BY <1>5
  <2>1. \A s \in Small(n) : s \in Small(n + 1) /\ h[s] = g[s]
    <3>1. \A s \in Small(n) : s \in Small(n + 1)
      BY <1>1
    <3>. HIDE DEF Small
    <3>. QED  BY <2>0, <3>1
  <2>2. \A s \in Small(n + 1) : s # {} => s \ {Choice(s)} \in Small(n)
    BY <1>1, <1>2
  <2>3. h = [s \in Small(n + 1) |-> IF s = {} THEN 0 ELSE f[Choice(s)] + h[s \ {Choice(s)}]]
    BY <2>1, <2>2
  <2>. QED  BY <2>3
<1>6. Bad = {}
  <2>. SUFFICES ASSUME Bad # {} PROVE FALSE
    OBVIOUS
  <2>1. PICK n \in Bad : \A m \in Bad : <<m, n>> \notin OpToRel(<, Nat)
    BY WFMin, NatLessThanWellFounded, Zenon
  <2>2. n # 0
    BY <1>4
  <2>3. n - 1 \in Nat /\ <<n - 1, n>> \in OpToRel(<, Nat)
    BY <2>2 DEF OpToRel
  <2>4. PICK g : Upto(g, n - 1)
    BY <2>1, <2>3
  <2>5. \E h : Upto(h, (n - 1) + 1)
    BY <1>5, <2>3, <2>4
  <2>6. (n - 1) + 1 = n
    OBVIOUS
  <2>7. n \in Nat /\ ~\E h : Upto(h, n)
    OBVIOUS
  <2>. HIDE DEF Upto
  <2>. QED  BY <2>5, <2>6, <2>7
<1>7. Small(Cardinality(D)) = SUBSET D
  BY <1>1
<1>8. Cardinality(D) \in Nat
  BY FS_CardinalityType
<1>9. PICK g : Upto(g, Cardinality(D))
  BY <1>6, <1>8
<1>. QED  BY <1>7, <1>9 DEF IsSum

\* Any element may be added first.
Sums(g, f, D) ==
  /\ IsSum(g, f, D) /\ g[{}] = 0
  /\ \A s \in SUBSET D : g[s] \in Int /\ \A y \in s : g[s] = f[y] + g[s \ {y}]

LEMMA SumSplits ==
  ASSUME NEW D, IsFiniteSet(D), NEW f \in [D -> Int], NEW g, IsSum(g, f, D)
  PROVE  Sums(g, f, D)
<1>. DEFINE Splits(s) == g[s] \in Int /\ \A y \in s : g[s] = f[y] + g[s \ {y}]
            Bad == {n \in Nat : \E s \in SUBSET D : Cardinality(s) = n /\ ~Splits(s)}
<1>1. \A s \in SUBSET D : IsFiniteSet(s) /\ Cardinality(s) \in Nat
  BY FS_Subset, FS_CardinalityType
<1>2. Bad = {}
  <2>. SUFFICES ASSUME Bad # {} PROVE FALSE
    OBVIOUS
  <2>1. PICK n \in Bad : \A m \in Bad : <<m, n>> \notin OpToRel(<, Nat)
    BY WFMin, NatLessThanWellFounded, Zenon
  <2>2. PICK s \in SUBSET D : Cardinality(s) = n /\ ~Splits(s)
    OBVIOUS
  <2>3. \A t \in SUBSET D : Cardinality(t) < n => Splits(t)
    <3>. SUFFICES ASSUME NEW t \in SUBSET D, Cardinality(t) < n PROVE Splits(t)
      OBVIOUS
    <3>1. Cardinality(t) \in Nat /\ <<Cardinality(t), n>> \in OpToRel(<, Nat)
      BY <1>1 DEF OpToRel
    <3>. QED  BY <2>1, <3>1
  <2>4. s # {}
    BY <2>2 DEF IsSum
  <2>. DEFINE x == Choice(s)
  <2>5. x \in s
    BY <2>4 DEF Choice
  <2>6. \A y \in s : s \ {y} \in SUBSET D /\ Cardinality(s \ {y}) < n
    BY <1>1, <2>2, FS_RemoveElement
  <2>7. g[s] = f[x] + g[s \ {x}]
    BY <2>4 DEF IsSum
  <2>. HIDE DEF x, Splits
  <2>8. Splits(s \ {x})
    BY <2>3, <2>5, <2>6
  <2>9. g[s] \in Int
    BY <2>5, <2>7, <2>8 DEF Splits
  <2>10. ASSUME NEW y \in s, y # x PROVE g[s] = f[y] + g[s \ {y}]
    <3>1. Splits(s \ {y}) /\ x \in s \ {y} /\ y \in s \ {x}
      BY <2>3, <2>5, <2>6, <2>10
    <3>2. (s \ {y}) \ {x} = (s \ {x}) \ {y}
      OBVIOUS
    <3>3. g[s \ {y}] = f[x] + g[(s \ {x}) \ {y}]
      BY <3>1, <3>2 DEF Splits
    <3>4. g[s \ {x}] = f[y] + g[(s \ {x}) \ {y}]
      BY <2>8, <3>1 DEF Splits
    <3>5. Splits((s \ {x}) \ {y})
      <4>1. (s \ {x}) \ {y} \in SUBSET D /\ IsFiniteSet(s \ {x}) /\ IsFiniteSet(s)
        BY <1>1
      <4>2. Cardinality((s \ {x}) \ {y}) < n
        BY <1>1, <2>2, <2>5, <3>1, <4>1, FS_RemoveElement
      <4>. QED  BY <2>3, <4>1, <4>2
    <3>6. f[x] \in Int /\ f[y] \in Int /\ g[(s \ {x}) \ {y}] \in Int
      BY <2>5, <3>5 DEF Splits
    <3>. HIDE DEF Splits
    <3>. QED  BY <2>7, <3>3, <3>4, <3>6
  <2>. QED  BY <2>2, <2>7, <2>9, <2>10 DEF Splits
<1>3. \A s \in SUBSET D : Splits(s)
  BY <1>1, <1>2
<1>4. g[{}] = 0
  BY DEF IsSum
<1>. QED  BY <1>3, <1>4 DEF Sums

\* The sum over a part does not depend on the rest.
LEMMA SumSame ==
  ASSUME NEW D, NEW E, D \subseteq E, IsFiniteSet(E), NEW f \in [E -> Int], NEW e \in [D -> Int],
         \A x \in D : e[x] = f[x], NEW g, IsSum(g, f, E), NEW h, IsSum(h, e, D)
  PROVE  h[D] = g[D]
<1>. DEFINE Bad == {n \in Nat : \E s \in SUBSET D : Cardinality(s) = n /\ h[s] # g[s]}
<1>1. \A s \in SUBSET D : IsFiniteSet(s) /\ Cardinality(s) \in Nat
  BY FS_Subset, FS_CardinalityType
<1>2. Bad = {}
  <2>. SUFFICES ASSUME Bad # {} PROVE FALSE
    OBVIOUS
  <2>1. PICK n \in Bad : \A m \in Bad : <<m, n>> \notin OpToRel(<, Nat)
    BY WFMin, NatLessThanWellFounded, Zenon
  <2>2. PICK s \in SUBSET D : Cardinality(s) = n /\ h[s] # g[s]
    OBVIOUS
  <2>. DEFINE x == Choice(s)
  <2>3. h[{}] = 0 /\ g[{}] = 0
    BY DEF IsSum
  <2>4. s # {}
    BY <2>2, <2>3
  <2>5. x \in s
    BY <2>4 DEF Choice
  <2>6. h[s] = e[x] + h[s \ {x}] /\ g[s] = f[x] + g[s \ {x}]
    BY <2>4 DEF IsSum
  <2>. HIDE DEF x
  <2>7. Cardinality(s \ {x}) = n - 1 /\ Cardinality(s \ {x}) \in Nat
    BY <1>1, <2>2, <2>5, FS_RemoveElement
  <2>8. <<n - 1, n>> \in OpToRel(<, Nat)
    BY <2>7 DEF OpToRel
  <2>9. n - 1 \notin Bad
    BY <2>1, <2>8
  <2>10. h[s \ {x}] = g[s \ {x}]
    BY <2>7, <2>9
  <2>. QED  BY <2>2, <2>5, <2>6, <2>10
<1>3. D \in SUBSET D /\ Cardinality(D) \in Nat
  BY <1>1
<1>. QED  BY <1>2, <1>3

LEMMA SumOf ==
  ASSUME NEW D, IsFiniteSet(D), NEW f \in [D -> Int]
  PROVE  \E g : Sums(g, f, D) /\ SumFunction(f) = g[D]
<1>1. DOMAIN f = D
  OBVIOUS
<1>2. PICK g : IsSum(g, f, D) /\ SumFunction(f) = g[D]
  BY <1>1, SumExists, SumIs
<1>. QED  BY <1>2, SumSplits

\* A sum of natural numbers grows with the set summed over.
LEMMA SumGrows ==
  ASSUME NEW E, IsFiniteSet(E), NEW D \in SUBSET E, NEW f \in [E -> Nat], NEW e \in [D -> Nat],
         \A x \in D : e[x] = f[x]
  PROVE  SumFunction(e) \in Nat /\ SumFunction(f) \in Nat /\ SumFunction(e) <= SumFunction(f)
<1>0. IsFiniteSet(D) /\ f \in [E -> Int] /\ e \in [D -> Int]
  BY FS_Subset
<1>1. PICK g : Sums(g, f, E) /\ SumFunction(f) = g[E]
  BY <1>0, SumOf
<1>2. PICK h : Sums(h, e, D) /\ SumFunction(e) = h[D]
  BY <1>0, SumOf
<1>3. h[D] = g[D]
  BY <1>0, <1>1, <1>2, SumSame DEF Sums
<1>4. \A s \in SUBSET E : IsFiniteSet(s) /\ Cardinality(s) \in Nat
  BY FS_Subset, FS_CardinalityType
<1>5. ASSUME NEW B \in SUBSET E PROVE \A s \in SUBSET E : B \subseteq s => g[B] <= g[s]
  <2>. DEFINE Bad == {n \in Nat : \E s \in SUBSET E : /\ B \subseteq s /\ Cardinality(s) = n
                                                     /\ ~(g[B] <= g[s])}
  <2>1. Bad = {}
    <3>. SUFFICES ASSUME Bad # {} PROVE FALSE
      OBVIOUS
    <3>0. Bad \in SUBSET Nat
      OBVIOUS
    <3>1. PICK n \in Bad : \A m \in Bad : <<m, n>> \notin OpToRel(<, Nat)
      <4>. HIDE DEF Bad
      <4>. QED  BY <3>0, WFMin, NatLessThanWellFounded, Zenon
    <3>2. PICK s \in SUBSET E : B \subseteq s /\ Cardinality(s) = n /\ ~(g[B] <= g[s])
      OBVIOUS
    <3>3. g[B] \in Int /\ g[s] \in Int
      BY <1>1 DEF Sums
    <3>4. PICK y \in s : y \notin B
      BY <3>2, <3>3
    <3>. DEFINE t == s \ {y}
    <3>5. t \in SUBSET E /\ B \subseteq t /\ Cardinality(t) = n - 1 /\ Cardinality(t) \in Nat
      BY <1>4, <3>2, <3>4, FS_RemoveElement
    <3>6. g[s] = f[y] + g[t] /\ f[y] \in Nat /\ g[t] \in Int
      BY <1>1, <3>4, <3>5 DEF Sums
    <3>. HIDE DEF t
    <3>7. <<n - 1, n>> \in OpToRel(<, Nat)
      BY <3>5 DEF OpToRel
    <3>8. n - 1 \notin Bad
      BY <3>1, <3>7
    <3>9. g[B] <= g[t]
      BY <3>5, <3>8
    <3>. QED  BY <3>2, <3>3, <3>6, <3>9
  <2>. QED  BY <1>4, <2>1
<1>6. g[{}] <= g[D] /\ g[{}] <= g[E] /\ g[D] <= g[E] /\ g[D] \in Int /\ g[E] \in Int
  BY <1>1, <1>5 DEF Sums
<1>. QED  BY <1>1, <1>2, <1>3, <1>6 DEF Sums

\* What the parts of a document add up to.
LEMMA TotalOfTwo ==
  ASSUME NEW parts \in [1 .. 2 -> Int]
  PROVE  Total(parts) = parts[1] + parts[2]
<1>0. IsFiniteSet(1 .. 2)
  BY 1 \in Int, 2 \in Int, FS_Interval, Zenon
<1>1. PICK g : Sums(g, parts, 1 .. 2) /\ Total(parts) = g[1 .. 2]
  BY <1>0, SumOf DEF Total
<1>2. \A s \in SUBSET (1 .. 2) : \A y \in s : g[s] = parts[y] + g[s \ {y}]
  BY <1>1 DEF Sums
<1>3. g[1 .. 2] = parts[2] + g[{1}]
  BY <1>2, 2 \in 1 .. 2, (1 .. 2) \ {2} = {1}
<1>4. g[{1}] = parts[1] + g[{}]
  BY <1>2, {1} \in SUBSET (1 .. 2), {1} \ {1} = {}
<1>. QED  BY <1>1, <1>3, <1>4 DEF Sums

LEMMA TotalOfThree ==
  ASSUME NEW parts \in [1 .. 3 -> Int]
  PROVE  Total(parts) = parts[1] + parts[2] + parts[3]
<1>0. IsFiniteSet(1 .. 3)
  BY 1 \in Int, 3 \in Int, FS_Interval, Zenon
<1>1. PICK g : Sums(g, parts, 1 .. 3) /\ Total(parts) = g[1 .. 3]
  BY <1>0, SumOf DEF Total
<1>2. \A s \in SUBSET (1 .. 3) : \A y \in s : g[s] = parts[y] + g[s \ {y}]
  BY <1>1 DEF Sums
<1>3. g[1 .. 3] = parts[3] + g[{1, 2}]
  BY <1>2, 3 \in 1 .. 3, (1 .. 3) \ {3} = {1, 2}
<1>4. g[{1, 2}] = parts[2] + g[{1}]
  BY <1>2, {1, 2} \in SUBSET (1 .. 3), {1, 2} \ {2} = {1}
<1>5. g[{1}] = parts[1] + g[{}]
  BY <1>2, {1} \in SUBSET (1 .. 3), {1} \ {1} = {}
<1>. QED  BY <1>1, <1>3, <1>4, <1>5 DEF Sums

LEMMA TotalOfNone == ASSUME NEW parts, DOMAIN parts = {}, parts = [i \in {} |-> parts[i]] PROVE Total(parts) = 0
<1>1. parts \in [{} -> Int]
  OBVIOUS
<1>. QED  BY <1>1, FS_EmptySet, SumOf DEF Total, Sums

LEMMA CartTotal == \A cart \in Carts : Total(cart) \in Int
<1>. SUFFICES ASSUME NEW cart \in Carts PROVE Total(cart) \in Int
  OBVIOUS
<1>. DEFINE n == Len(cart)
<1>1. n \in Nat /\ cart \in [1 .. n -> Int]
  BY MoneyAssumption
<1>. HIDE DEF n
<1>2. IsFiniteSet(1 .. n)
  BY <1>1, 1 \in Int, n \in Int, FS_Interval, Zenon
<1>3. PICK g : Sums(g, cart, 1 .. n) /\ Total(cart) = g[1 .. n]
  BY <1>1, <1>2, SumOf DEF Total
<1>4. 1 .. n \in SUBSET (1 .. n)
  OBVIOUS
<1>. QED  BY <1>3, <1>4 DEF Sums

\* A whole number of cents that is less than a cent is none.
LEMMA LessThanACent ==
  ASSUME NEW j \in Int, NEW k \in Int, j * Cent - k * Cent < Cent, k * Cent - j * Cent < Cent
  PROVE  j * Cent = k * Cent
<1>1. (j - k) * Cent < Cent /\ -Cent < (j - k) * Cent
  BY MoneyAssumption
<1>2. j - k = 0
  <2>. DEFINE i == j - k
  <2>1. i \in Int /\ i * Cent < Cent /\ -Cent < i * Cent
    BY <1>1
  <2>. HIDE DEF i
  <2>2. i = 0
    BY <2>1, MoneyAssumption
  <2>. QED  BY <2>2 DEF i
<1>. QED  BY <1>2

\* A column is a whole number of cents, off by half a cent at most, and on
\* Postgres a half goes away from zero.
LEMMA RoundingIs ==
  ASSUME NEW x \in Int
  PROVE  LET stored == RoundCents(x) IN
         /\ stored \in Int /\ \E k \in Int : stored = k * Cent
         /\ 2 * (stored - x) <= Cent /\ 2 * (x - stored) <= Cent
         /\ Engine = "postgres" => /\ 2 * (stored - x) = Cent => x > 0
                                   /\ 2 * (x - stored) = Cent => x < 0
<1>. DEFINE rest == x % Cent
            k    == x \div Cent
            up   == IF 2 * rest = Cent THEN x > 0 <=> x \notin TiesDown ELSE 2 * rest > Cent
            more == IF up THEN Cent ELSE 0
<1>1. /\ rest \in Int /\ 0 <= rest /\ rest < Cent /\ Cent \in Int /\ Cent > 0
      /\ x = 0 => rest = 0
  BY MoneyAssumption
<1>2. k \in Int /\ k * Cent \in Int /\ x - rest = k * Cent /\ (k + 1) * Cent = k * Cent + Cent
  BY MoneyAssumption
<1>3. RoundCents(x) = (x - rest) + more
  BY DEF RoundCents
<1>4. Engine = "postgres" /\ 2 * rest = Cent => (up <=> x > 0)
  BY EngineAssumption
<1>5. (up => more = Cent) /\ (~up => more = 0)
  OBVIOUS
<1>. HIDE DEF rest, k, more
<1>6. (2 * rest < Cent => ~up) /\ (2 * rest > Cent => up)
  <2>. DEFINE tie  == 2 * rest = Cent
              over == 2 * rest > Cent
              away == x > 0 <=> x \notin TiesDown
  <2>1. (2 * rest < Cent => ~tie /\ ~over) /\ (2 * rest > Cent => ~tie /\ over)
    BY <1>1
  <2>2. up = IF tie THEN away ELSE over
    OBVIOUS
  <2>. HIDE DEF tie, over, away, up
  <2>. QED  BY <2>1, <2>2
<1>. HIDE DEF up
<1>7. \/ RoundCents(x) = k * Cent /\ ~up
      \/ RoundCents(x) = (k + 1) * Cent /\ up
  <2>. DEFINE cents == k * Cent
  <2>1. x - rest = cents /\ cents \in Int /\ (k + 1) * Cent = cents + Cent
    BY <1>2
  <2>. HIDE DEF cents
  <2>2. \/ RoundCents(x) = cents /\ ~up
        \/ RoundCents(x) = cents + Cent /\ up
    BY <1>1, <1>3, <1>5, <2>1
  <2>. QED  BY <2>1, <2>2 DEF cents
<1>8. k + 1 \in Int
  BY <1>2
<1>9. \E i \in Int : RoundCents(x) = i * Cent
  BY <1>2, <1>7, <1>8, Zenon
<1>. DEFINE stored == RoundCents(x)
<1>. HIDE DEF stored
<1>10. \/ stored = x - rest /\ ~up
       \/ stored = (x - rest) + Cent /\ up
  <2>1. stored = (x - rest) + more
    BY <1>3 DEF stored
  <2>2. x - rest \in Int /\ (x - rest) + 0 = x - rest
    BY <1>1
  <2>. QED  BY <1>5, <2>1, <2>2
<1>11. /\ stored \in Int /\ 2 * (stored - x) <= Cent /\ 2 * (x - stored) <= Cent
       /\ 2 * (stored - x) = Cent => 2 * rest = Cent /\ up
       /\ 2 * (x - stored) = Cent => 2 * rest = Cent /\ ~up
  BY <1>1, <1>6, <1>10
<1>12. Engine = "postgres" => /\ 2 * (stored - x) = Cent => x > 0
                              /\ 2 * (x - stored) = Cent => x < 0
  BY <1>1, <1>4, <1>11
<1>. QED  BY <1>9, <1>11, <1>12 DEF stored

\* What is quantized is a whole number of cents.
LEMMA QuantizedIs ==
  ASSUME NEW num \in Int, NEW den \in Nat \ {0}
  PROVE  \E k \in Int : Quantized(num, den) = k * Cent
<1>. DEFINE cents == num \div den
            rest  == 2 * (num % den)
            up    == rest > den \/ (rest = den /\ cents % 2 = 1)
            k     == cents + (IF up THEN 1 ELSE 0)
<1>1. cents \in Int
  OBVIOUS
<1>2. Quantized(num, den) = k * Cent
  BY DEF Quantized
<1>. HIDE DEF cents, up
<1>3. k \in Int
  BY <1>1
<1>. QED  BY <1>2, <1>3

\* The total as it is stored, against the parts as they are stored.
AddsUp(amounts, slack) ==
  /\ amounts.total \in Int
  /\ amounts.total <= Total(amounts.parts) + slack
  /\ Total(amounts.parts) <= amounts.total + slack

LEMMA PricedAddUp ==
  ASSUME NEW cart \in Carts, NEW rate \in Int \X (Nat \ {0})
  PROVE  LET stored == Rounded(PricedAmounts(cart, rate)) IN
         /\ AddsUp(stored, Cent)
         /\ Engine = "postgres" /\ stored.parts[1] >= 0 /\ stored.total >= 0 => AddsUp(stored, 0)
<1>. DEFINE s == Total(cart)
            q == Quantized(s * rate[1], 100 * rate[2] * Cent)
            stored == Rounded(PricedAmounts(cart, rate))
<1>1. s \in Int /\ Cent \in Nat \ {0}
  BY CartTotal, MoneyAssumption
<1>2. s * rate[1] \in Int /\ 100 * rate[2] * Cent \in Nat \ {0}
  <2>. HIDE DEF s
  <2>1. rate[1] \in Int /\ rate[2] \in Nat \ {0}
    OBVIOUS
  <2>. DEFINE n == rate[1]
              d == rate[2]
  <2>. HIDE DEF n, d
  <2>2. n \in Int /\ d \in Nat /\ d >= 1 /\ Cent \in Nat /\ Cent >= 1
    BY <1>1, <2>1 DEF n, d
  <2>3. s * n \in Int /\ d * Cent \in Nat /\ d * Cent >= 1
    BY <1>1, <2>2
  <2>4. 100 * d * Cent = 100 * (d * Cent)
    BY <2>2
  <2>5. 100 * (d * Cent) \in Nat \ {0}
    <3>. DEFINE e == d * Cent
    <3>. HIDE DEF e
    <3>1. e \in Nat /\ e >= 1
      BY <2>3 DEF e
    <3>2. 100 * e \in Nat \ {0}
      BY <3>1
    <3>. QED  BY <3>2 DEF e
  <2>. QED  BY <2>3, <2>4, <2>5 DEF n, d
<1>3. PICK k \in Int : q = k * Cent
  <2>. DEFINE num == s * rate[1]
              den == 100 * rate[2] * Cent
  <2>. HIDE DEF num, den
  <2>1. \E k \in Int : Quantized(num, den) = k * Cent
    BY <1>2, QuantizedIs DEF num, den
  <2>. QED  BY <2>1, Zenon DEF num, den
<1>4. /\ stored.total = RoundCents(s + q)
      /\ stored.parts \in [1 .. 2 -> {RoundCents(s), RoundCents(q)}]
      /\ stored.parts[1] = RoundCents(s) /\ stored.parts[2] = RoundCents(q)
  <2>. HIDE DEF s, q
  <2>1. PricedAmounts(cart, rate) = [parts |-> <<s, q>>, total |-> s + q]
    BY DEF PricedAmounts, s, q
  <2>2. /\ Rounded(PricedAmounts(cart, rate)).total = RoundCents(s + q)
        /\ Rounded(PricedAmounts(cart, rate)).parts
             = [i \in 1 .. 2 |-> RoundCents(<<s, q>>[i])]
    BY <2>1 DEF Rounded
  <2>. QED  BY <2>2
<1>. HIDE DEF s, q, stored
<1>. DEFINE t  == s + q
            rs == RoundCents(s)
            rq == RoundCents(q)
            rt == RoundCents(t)
<1>5. q \in Int /\ t \in Int
  BY <1>1, <1>3
<1>. HIDE DEF t
<1>6. PICK j \in Int : rq = j * Cent /\ 2 * (rq - q) <= Cent /\ 2 * (q - rq) <= Cent /\ rq \in Int
  BY <1>5, RoundingIs
<1>7. rq = q
  <2>. HIDE DEF rq
  <2>1. j * Cent \in Int /\ k * Cent \in Int
    BY <1>3, <1>5, <1>6
  <2>2. j * Cent - k * Cent < Cent /\ k * Cent - j * Cent < Cent
    BY <1>1, <1>3, <1>6, <2>1
  <2>. QED  BY <1>3, <1>6, <2>2, LessThanACent
<1>8. PICK a \in Int : /\ rs = a * Cent /\ rs \in Int
                       /\ 2 * (rs - s) <= Cent /\ 2 * (s - rs) <= Cent
                       /\ Engine = "postgres" => /\ 2 * (rs - s) = Cent => s > 0
                                                 /\ 2 * (s - rs) = Cent => s < 0
  BY <1>1, RoundingIs
<1>9. PICK b \in Int : /\ rt = b * Cent /\ rt \in Int
                       /\ 2 * (rt - t) <= Cent /\ 2 * (t - rt) <= Cent
                       /\ Engine = "postgres" => /\ 2 * (rt - t) = Cent => t > 0
                                                 /\ 2 * (t - rt) = Cent => t < 0
  BY <1>5, RoundingIs
<1>10. stored.parts \in [1 .. 2 -> Int] /\ stored.total = rt
  BY <1>4, <1>6, <1>8 DEF t
<1>11. Total(stored.parts) = rs + q /\ stored.parts[1] = rs
  BY <1>4, <1>7, <1>10, TotalOfTwo
<1>. HIDE DEF rs, rq, rt
<1>12. AddsUp(stored, Cent)
  BY <1>1, <1>5, <1>8, <1>9, <1>10, <1>11 DEF AddsUp, t
<1>13. ASSUME Engine = "postgres", stored.parts[1] >= 0, stored.total >= 0
       PROVE  AddsUp(stored, 0)
  <2>1. rs >= 0 /\ rt >= 0
    BY <1>10, <1>11, <1>13
  <2>2. rt - (rs + q) < Cent /\ (rs + q) - rt < Cent
    BY <1>1, <1>5, <1>8, <1>9, <1>13, <2>1 DEF t
  <2>3. a + k \in Int /\ (a + k) * Cent = rs + q
    BY <1>1, <1>3, <1>8
  <2>4. rt = rs + q
    <3>. DEFINE i == a + k
    <3>. HIDE DEF i
    <3>1. i \in Int /\ i * Cent = rs + q
      BY <2>3 DEF i
    <3>. QED  BY <1>9, <2>2, <3>1, LessThanACent
  <2>. QED  BY <1>5, <1>8, <1>9, <1>10, <1>11, <2>4 DEF AddsUp
<1>. QED  BY <1>12, <1>13 DEF stored

LEMMA EstimationAddsUp ==
  ASSUME NEW costs \in CostSheets
  PROVE  AddsUp(Rounded(EstimationAmounts(costs)), IF Engine = "postgres" THEN 2 * Cent - 1 ELSE 2 * Cent)
<1>. DEFINE a == 10 * costs[1]
            b == 10 * costs[2]
            o == costs[1] + costs[2]
            t == 11 * o
            stored == Rounded(EstimationAmounts(costs))
<1>1. a \in Int /\ b \in Int /\ o \in Int /\ t \in Int /\ t = a + b + o
  BY MoneyAssumption
<1>. HIDE DEF a, b, o, t
<1>3. EstimationAmounts(costs) = [parts |-> <<a, b, o>>, total |-> t]
  BY DEF EstimationAmounts, a, b, o, t
<1>4. /\ stored.total = RoundCents(t)
      /\ stored.parts = [i \in 1 .. 3 |-> RoundCents(<<a, b, o>>[i])]
  BY <1>3 DEF Rounded
<1>. HIDE DEF stored
<1>5. /\ stored.parts[1] = RoundCents(a) /\ stored.parts[2] = RoundCents(b)
      /\ stored.parts[3] = RoundCents(o)
      /\ stored.parts \in [1 .. 3 -> {RoundCents(a), RoundCents(b), RoundCents(o)}]
  BY <1>4
<1>. DEFINE Near(x, r) == /\ r \in Int /\ 2 * (r - x) <= Cent /\ 2 * (x - r) <= Cent
                          /\ Engine = "postgres" => /\ 2 * (r - x) = Cent => x > 0
                                                    /\ 2 * (x - r) = Cent => x < 0
            ra == RoundCents(a)
            rb == RoundCents(b)
            ro == RoundCents(o)
            rt == RoundCents(t)
<1>6. Near(a, ra) /\ Near(b, rb) /\ Near(o, ro) /\ Near(t, rt)
  BY <1>1, RoundingIs
<1>7. stored.parts \in [1 .. 3 -> Int]
  BY <1>5, <1>6
<1>8. Total(stored.parts) = ra + rb + ro /\ stored.total = rt
  BY <1>4, <1>5, <1>7, TotalOfThree
<1>. HIDE DEF ra, rb, ro, rt
<1>9. /\ rt - (ra + rb + ro) <= 2 * Cent /\ (ra + rb + ro) - rt <= 2 * Cent
      /\ rt \in Int /\ ra \in Int /\ rb \in Int /\ ro \in Int /\ Cent \in Int
  BY <1>1, <1>6, MoneyAssumption
<1>10. ASSUME Engine = "postgres"
       PROVE  rt - (ra + rb + ro) < 2 * Cent /\ (ra + rb + ro) - rt < 2 * Cent
  BY <1>1, <1>6, <1>10, MoneyAssumption
<1>11. CASE Engine = "postgres"
  BY <1>8, <1>9, <1>10, <1>11 DEF AddsUp, stored
<1>12. CASE Engine # "postgres"
  BY <1>8, <1>9, <1>12 DEF AddsUp, stored
<1>. QED  BY <1>11, <1>12

LEMMA NothingAddsUp == \A slack \in Nat : AddsUp(Rounded(NoAmounts), slack)
<1>. DEFINE stored == Rounded(NoAmounts)
<1>1. stored.total = 0 /\ DOMAIN stored.parts = {} /\ stored.parts = [i \in {} |-> stored.parts[i]]
  <2>1. DOMAIN NoAmounts.parts = {} /\ NoAmounts.total = 0
    BY DEF NoAmounts
  <2>2. RoundCents(0) = 0
    <3>1. 0 % Cent = 0 /\ 2 * 0 # Cent /\ ~(2 * 0 > Cent)
      BY MoneyAssumption
    <3>. QED  BY <3>1 DEF RoundCents
  <2>. QED  BY <2>1, <2>2 DEF Rounded
<1>2. Total(stored.parts) = 0
  BY <1>1, TotalOfNone
<1>. QED  BY <1>1, <1>2 DEF AddsUp

-----------------------------------------------------------------------------
(* Money through the steps *)

Balanced(row) == AddsUp(row.amounts, Slack(row.kind, row.amounts))

\* What is stored of a body adds up.
LEMMA BodiesAddUp ==
  /\ \A body \in CustomerBodies(Ids) \cup VendorBodies(Ids) \cup QuotationBodies(Ids)
            \cup InvoiceBodies(Ids) \cup PurchaseOrderBodies(Ids) \cup BOQBodies(Ids)
            \cup InventoryBodies(Ids) :
       \A kind \in Kinds \ {"estimation"} :
         AddsUp(Rounded(body.amounts), Slack(kind, Rounded(body.amounts)))
  /\ \A body \in EstimationBodies(Ids) :
       AddsUp(Rounded(body.amounts), Slack("estimation", Rounded(body.amounts)))
<1>1. \A kind \in Kinds \ {"estimation"} : \A stored :
        /\ Slack(kind, stored) \in {0, Cent}
        /\ Slack(kind, stored) = 0 =>
             Engine = "postgres" /\ stored.parts[1] >= 0 /\ stored.total >= 0
  BY MoneyAssumption DEF Slack
<1>2. \A stored : Slack("estimation", stored)
                   = IF Engine = "postgres" THEN 2 * Cent - 1 ELSE 2 * Cent
  BY DEF Slack
<1>3. <<0, 1>> \in Int \X (Nat \ {0}) /\ Rates \subseteq Int \X (Nat \ {0}) /\ {0, Cent} \subseteq Nat
  BY MoneyAssumption
<1>4. \A cart \in Carts, rate \in Rates \cup {<<0, 1>>}, kind \in Kinds \ {"estimation"} :
        LET stored == Rounded(PricedAmounts(cart, rate)) IN AddsUp(stored, Slack(kind, stored))
  <2>. SUFFICES ASSUME NEW cart \in Carts, NEW rate \in Rates \cup {<<0, 1>>},
                       NEW kind \in Kinds \ {"estimation"}
                PROVE  AddsUp(Rounded(PricedAmounts(cart, rate)),
                              Slack(kind, Rounded(PricedAmounts(cart, rate))))
    OBVIOUS
  <2>. DEFINE stored == Rounded(PricedAmounts(cart, rate))
  <2>1. /\ AddsUp(stored, Cent)
        /\ Engine = "postgres" /\ stored.parts[1] >= 0 /\ stored.total >= 0 => AddsUp(stored, 0)
    <3>. rate \in Int \X (Nat \ {0})
      BY <1>3
    <3>. QED  BY PricedAddUp
  <2>. HIDE DEF stored
  <2>2. AddsUp(stored, Slack(kind, stored))
    <3>1. CASE Slack(kind, stored) = 0
      BY <1>1, <2>1, <3>1
    <3>2. CASE Slack(kind, stored) = Cent
      BY <2>1, <3>2
    <3>. QED  BY <1>1, <3>1, <3>2
  <2>. QED  BY <2>2 DEF stored
<1>5. \A body \in QuotationBodies(Ids) \cup InvoiceBodies(Ids) \cup PurchaseOrderBodies(Ids) :
        \A kind \in Kinds \ {"estimation"} :
          AddsUp(Rounded(body.amounts), Slack(kind, Rounded(body.amounts)))
  <2>. SUFFICES ASSUME NEW body \in QuotationBodies(Ids) \cup InvoiceBodies(Ids)
                                    \cup PurchaseOrderBodies(Ids),
                       NEW kind \in Kinds \ {"estimation"}
                PROVE  AddsUp(Rounded(body.amounts), Slack(kind, Rounded(body.amounts)))
    OBVIOUS
  <2>1. PICK cart \in Carts, rate \in Rates \cup {<<0, 1>>} :
          body.amounts = PricedAmounts(cart, rate)
    BY PricedBodies
  <2>. QED  BY <1>4, <2>1
<1>6. \A body \in CustomerBodies(Ids) \cup VendorBodies(Ids) \cup BOQBodies(Ids)
                 \cup InventoryBodies(Ids) :
        \A kind \in Kinds \ {"estimation"} :
          AddsUp(Rounded(body.amounts), Slack(kind, Rounded(body.amounts)))
  <2>. SUFFICES ASSUME NEW body \in CustomerBodies(Ids) \cup VendorBodies(Ids)
                                    \cup BOQBodies(Ids) \cup InventoryBodies(Ids),
                       NEW kind \in Kinds \ {"estimation"}
                PROVE  AddsUp(Rounded(body.amounts), Slack(kind, Rounded(body.amounts)))
    OBVIOUS
  <2>1. body.amounts = NoAmounts
    BY FreeBodies
  <2>2. Slack(kind, Rounded(NoAmounts)) \in Nat
    BY <1>1, <1>3
  <2>. QED  BY <2>1, <2>2, NothingAddsUp
<1>7. \A body \in EstimationBodies(Ids) :
        AddsUp(Rounded(body.amounts), Slack("estimation", Rounded(body.amounts)))
  BY <1>2, EstimationBody, EstimationAddsUp
<1>. QED  BY <1>5, <1>6, <1>7

\* What a report has read of the invoices.
Credited(t)     == \E id \in Of(t, "invoice") : t[id].amounts.total < 0
Coherent(asked) == asked.sums[2] <= asked.sums[1] \/ Credited(table)

MoneyInv ==
  /\ \A id \in Live(table) : Balanced(table[id])
  /\ \A c \in Clients : Coherent(request[c])

\* What a step of client c does to its request.
AsksCoherently(c) == \E asked : Coherent(asked) /\ request' = [request EXCEPT ![c] = asked]

LEMMA AnswersCoherently ==
  ASSUME NEW c \in Clients, NEW asked, IsRequest(asked), Coherent(asked), NEW answer,
         Answers(c, asked, answer)
  PROVE  AsksCoherently(c)
<1>1. Settled(asked, answer).sums \in {asked.sums, <<0, 0>>}
  BY DEF Settled, NoRequest, IsRequest, RequestFields
<1>2. Coherent(Settled(asked, answer))
  BY <1>1 DEF Coherent
<1>. QED  BY <1>2, Zenon DEF Answers, AsksCoherently

LEMMA SuspendsCoherently ==
  ASSUME NEW c \in Clients, NEW asked, IsRequest(asked), Coherent(asked), NEW stage,
         Suspends(c, asked, stage)
  PROVE  AsksCoherently(c)
<1>. DEFINE then == [asked EXCEPT !.stage = stage]
<1>1. then.sums = asked.sums
  BY DEF IsRequest, RequestFields
<1>2. request' = [request EXCEPT ![c] = then]
  BY DEF Suspends
<1>. HIDE DEF then
<1>3. Coherent(then)
  BY <1>1 DEF Coherent
<1>. QED  BY <1>2, <1>3, Zenon DEF AsksCoherently

\* A request has read nothing yet when it is asked.
LEMMA AskedCoherently ==
  ASSUME NEW op, NEW kind, NEW id, NEW fields, NEW at
  PROVE  \A asked \in {Asks(op, kind, id),
                       [Asks(op, kind, id) EXCEPT !.at = at],
                       [Asks(op, kind, id) EXCEPT !.fields = fields, !.at = at]} :
            IsRequest(asked) /\ Coherent(asked)
<1>. DEFINE base == Asks(op, kind, id)
<1>1. IsRequest(base) /\ base.sums = <<0, 0>>
  BY DEF Asks, NoRequest, IsRequest, RequestFields
<1>. HIDE DEF base
<1>2. \A asked \in {base, [base EXCEPT !.at = at], [base EXCEPT !.fields = fields, !.at = at]} :
         IsRequest(asked) /\ asked.sums = <<0, 0>>
  BY <1>1 DEF IsRequest, RequestFields
<1>3. \A asked : asked.sums = <<0, 0>> => Coherent(asked)
  BY DEF Coherent
<1>. QED  BY <1>2, <1>3, Zenon DEF base

\* What is outstanding is part of what was invoiced.
LEMMA FiguresAre ==
  ASSUME BusinessInv, MoneyInv, ~Credited(table)
  PROVE  InvoiceFigures[2] <= InvoiceFigures[1]
<1>. DEFINE E == Invoices({"sent", "paid"})
            D == Invoices({"sent"})
            f == [id \in E |-> table[id].amounts.total]
            e == [id \in D |-> table[id].amounts.total]
<1>1. E \in SUBSET Of(table, "invoice") /\ D \in SUBSET E
  BY DEF Invoices
<1>2. IsFiniteSet(E)
  <2>1. IsFiniteSet(1 .. MaxRows)
    <3>. 1 \in Int /\ MaxRows \in Int
      BY BusinessAssumption
    <3>. QED  BY FS_Interval, Zenon
  <2>2. E \in SUBSET (1 .. MaxRows)
    BY <1>1 DEF Of, Live, Ids
  <2>. QED  BY <2>1, <2>2, FS_Subset, Zenon
<1>3. \A id \in Of(table, "invoice") : table[id].amounts.total \in Nat
  <2>1. \A id \in Of(table, "invoice") : table[id].amounts.total \in Int
    BY DEF MoneyInv, Balanced, AddsUp, Of
  <2>2. \A id \in Of(table, "invoice") : ~(table[id].amounts.total < 0)
    BY DEF Credited
  <2>. QED  BY <2>1, <2>2
<1>. HIDE DEF D, E
<1>4. f \in [E -> Nat] /\ e \in [D -> Nat] /\ \A id \in D : e[id] = f[id]
  BY <1>1, <1>3
<1>5. SumFunction(e) <= SumFunction(f)
  <2>. HIDE DEF f, e
  <2>. QED  BY <1>1, <1>2, <1>4, SumGrows
<1>6. InvoiceFigures = <<SumFunction(f), SumFunction(e)>>
  BY Zenon DEF InvoiceFigures, Sum, D, E
<1>. HIDE DEF f, e
<1>. QED  BY <1>5, <1>6

\* An invoice is never deleted, nor its amounts changed.
KeepsInvoices ==
  \A id \in Of(table, "invoice") :
    id \in Of(table', "invoice") /\ table'[id].amounts = table[id].amounts

LEMMA InvoicesKept ==
  ASSUME BusinessInv, NEW id \in Ids, NEW row, table' = [table EXCEPT ![id] = row],
         id \in Of(table, "invoice") => /\ row.kind = table[id].kind /\ row # NoRow
                                        /\ row.amounts = table[id].amounts
  PROVE  KeepsInvoices
<1>1. \A i \in Ids : table'[i] = IF i = id THEN row ELSE table[i]
  BY DEF BusinessInv, StoresInv, StoresTyped
<1>. QED  BY <1>1 DEF KeepsInvoices, Of, Live

\* A row of the table is written balanced.
LEMMA TableBalanced ==
  ASSUME BusinessInv, MoneyInv, NEW id \in Ids, NEW row, row = NoRow \/ Balanced(row),
         table' = [table EXCEPT ![id] = row]
  PROVE  \A i \in Live(table') : Balanced(table'[i])
<1>1. \A i \in Ids : table'[i] = IF i = id THEN row ELSE table[i]
  BY DEF BusinessInv, StoresInv, StoresTyped
<1>. QED  BY <1>1 DEF Live, MoneyInv

LEMMA PatchedBalanced ==
  ASSUME NEW row, IsRow(row), Balanced(row), NEW fields, NEW parent
  PROVE  Balanced(Patched(row, fields, parent))
<1>1. /\ Patched(row, fields, parent).amounts = row.amounts
      /\ Patched(row, fields, parent).kind = row.kind
  BY DEF Patched, IsRow, RowFields
<1>. QED  BY <1>1 DEF Balanced

\* Whatever the client, the step keeps the money when it keeps the table's.
LEMMA MoneyKept ==
  ASSUME BusinessInv, MoneyInv, NEW c \in Clients, AsksCoherently(c),
         \A i \in Live(table') : Balanced(table'[i]), KeepsInvoices
  PROVE  MoneyInv'
<1>1. PICK asked : Coherent(asked) /\ request' = [request EXCEPT ![c] = asked]
  BY DEF AsksCoherently
<1>2. \A d \in Clients : request'[d] = IF d = c THEN asked ELSE request[d]
  BY <1>1 DEF BusinessInv, RequestsInv
<1>3. \A d \in Clients : Coherent(request[d])
  BY DEF MoneyInv
<1>4. \A d \in Clients : Coherent(request'[d])
  BY <1>1, <1>2, <1>3
<1>5. Credited(table) => Credited(table')
  BY DEF Credited, KeepsInvoices
<1>. QED  BY <1>4, <1>5 DEF MoneyInv, Balanced, AddsUp, Coherent, Live, Slack

LEMMA TableRests ==
  ASSUME MoneyInv, table' = table
  PROVE  (\A i \in Live(table') : Balanced(table'[i])) /\ KeepsInvoices
BY DEF MoneyInv, KeepsInvoices, Of, Live

LEMMA CreateBalances ==
  ASSUME BusinessInv, MoneyInv, NEW c \in Clients, NEW kind \in Kinds, NEW body,
         AddsUp(Rounded(body.amounts), Slack(kind, Rounded(body.amounts))),
         CreateRow(c, kind, body)
  PROVE  MoneyInv'
<1>. DEFINE id    == Min(Fresh)
            asked == [Asks("create", kind, id) EXCEPT !.fields = body.gives, !.at = commits + 1]
<1>1. id \in Ids /\ id \notin Live(table)
  BY LeastFresh DEF CreateRow, Fresh
<1>. HIDE DEF id
<1>2. IsRequest(asked) /\ Coherent(asked)
  BY AskedCoherently, Zenon
<1>. HIDE DEF asked
<1>3. \/ \E answer : Answers(c, asked, answer) /\ table' = table
      \/ /\ Suspends(c, asked, "refreshing")
         /\ table' = [table EXCEPT ![id] = TableRow(kind, body)]
  BY Zenon DEF CreateRow, KeepsStores, asked, id
<1>4. TableRow(kind, body).kind = kind /\ TableRow(kind, body).amounts = Rounded(body.amounts)
  BY DEF TableRow, Row
<1>5. Balanced(TableRow(kind, body))
  BY <1>4 DEF Balanced
<1>6. CASE \E answer : Answers(c, asked, answer) /\ table' = table
  BY <1>2, <1>6, AnswersCoherently, TableRests, MoneyKept
<1>7. CASE /\ Suspends(c, asked, "refreshing")
           /\ table' = [table EXCEPT ![id] = TableRow(kind, body)]
  <2>1. \A i \in Live(table') : Balanced(table'[i])
    BY <1>1, <1>5, <1>7, TableBalanced
  <2>2. AsksCoherently(c)
    BY <1>2, <1>7, SuspendsCoherently
  <2>3. KeepsInvoices
    BY <1>1, <1>7, InvoicesKept DEF Of
  <2>. QED  BY <2>1, <2>2, <2>3, MoneyKept
<1>. QED  BY <1>3, <1>6, <1>7

\* The steps that start or end a request, and leave the table.
LEMMA OthersBalance ==
  ASSUME BusinessInv, MoneyInv, NEW c \in Clients,
         \/ \E kind, id, patch : UpdateRow(c, kind, id, patch)
         \/ \E kind, id : DeleteRow(c, kind, id)
         \/ \E kind, id : GetRow(c, kind, id)
         \/ \E kind : ListRows(c, kind)
         \/ ReportSummary(c)
  PROVE  MoneyInv'
<1>1. table' = table
  BY Zenon DEF UpdateRow, DeleteRow, GetRow, ListRows, ReportSummary, KeepsStores
<1>2. \E asked : /\ IsRequest(asked) /\ Coherent(asked)
                 /\ (\E answer : Answers(c, asked, answer)) \/ (\E stage : Suspends(c, asked, stage))
  <2>1. CASE \E kind, id, patch : UpdateRow(c, kind, id, patch)
    <3>1. PICK kind, id, patch : UpdateRow(c, kind, id, patch)
      BY <2>1
    <3>. DEFINE store  == IF available THEN table ELSE memory
                asked  == Asks("update", kind, id)
                wanted == Wants(asked, store[id], patch)
                then   == [wanted EXCEPT !.at = commits + 1]
    <3>2. IsRequest(asked) /\ Coherent(asked)
      BY AskedCoherently, Zenon
    <3>. HIDE DEF asked, store
    <3>3. IsRequest(wanted) /\ wanted.sums = asked.sums
      BY <3>2 DEF Wants, IsRequest, RequestFields
    <3>. HIDE DEF wanted
    <3>4. IsRequest(then) /\ then.sums = asked.sums
      BY <3>3 DEF IsRequest, RequestFields
    <3>. HIDE DEF then
    <3>5. Coherent(wanted) /\ Coherent(then)
      BY <3>2, <3>3, <3>4 DEF Coherent
    <3>6. \/ \E answer : Answers(c, asked, answer)
          \/ \E answer : Answers(c, then, answer)
          \/ Suspends(c, wanted, "writing")
      BY <3>1, Zenon DEF UpdateRow, then, wanted, asked, store
    <3>. QED  BY <3>2, <3>3, <3>4, <3>5, <3>6, Zenon
  <2>2. CASE \E kind, id : DeleteRow(c, kind, id)
    <3>1. PICK kind, id : DeleteRow(c, kind, id)
      BY <2>2
    <3>2. IsRequest(Asks("delete", kind, id)) /\ Coherent(Asks("delete", kind, id))
      BY AskedCoherently, Zenon
    <3>. QED  BY <3>1, <3>2, Zenon DEF DeleteRow
  <2>3. CASE \E kind, id : GetRow(c, kind, id)
    <3>1. PICK kind, id : GetRow(c, kind, id)
      BY <2>3
    <3>2. IsRequest(Asks("get", kind, id)) /\ Coherent(Asks("get", kind, id))
      BY AskedCoherently, Zenon
    <3>. QED  BY <3>1, <3>2, Zenon DEF GetRow
  <2>4. CASE \E kind : ListRows(c, kind)
    <3>1. PICK kind : ListRows(c, kind)
      BY <2>4
    <3>2. IsRequest(Asks("list", kind, 0)) /\ Coherent(Asks("list", kind, 0))
      BY AskedCoherently, Zenon
    <3>. QED  BY <3>1, <3>2, Zenon DEF ListRows
  <2>5. CASE ReportSummary(c)
    <3>. DEFINE asked == Asks("report", "none", 0)
                next  == [asked EXCEPT !.at = 1]
    <3>1. /\ IsRequest(asked) /\ Coherent(asked)
          /\ IsRequest(next) /\ Coherent(next)
      BY AskedCoherently, Zenon
    <3>2. Suspends(c, next, "selecting") \/ Answers(c, asked, "ok")
      BY <2>5, Zenon DEF ReportSummary
    <3>. HIDE DEF asked, next
    <3>. QED  BY <3>1, <3>2, Zenon
  <2>. QED  BY <2>1, <2>2, <2>3, <2>4, <2>5
<1>3. AsksCoherently(c)
  BY <1>2, AnswersCoherently, SuspendsCoherently
<1>. QED  BY <1>1, <1>3, TableRests, MoneyKept

\* The steps of a suspended request.
LEMMA ResumesBalance ==
  ASSUME BusinessInv, MoneyInv, NEW c \in Clients, Resumes(c)
  PROVE  MoneyInv'
<1>. DEFINE asked == request[c]
<1>1. IsRequest(asked) /\ Coherent(asked)
  BY RequestIs DEF MoneyInv
<1>2. ASSUME NEW answer, Ends(c, answer) PROVE AsksCoherently(c)
  BY <1>1, <1>2, AnswersCoherently DEF Ends
<1>3. CASE RefreshEnds(c)
  <2>1. table' = table /\ \E answer : Ends(c, answer)
    BY <1>3, Zenon DEF RefreshEnds, KeepsStores
  <2>. QED  BY <1>2, <2>1, TableRests, MoneyKept
<1>4. CASE UpdateCommits(c)
  <2>. DEFINE next == [asked EXCEPT !.at = commits + 1]
              row  == Patched(table[asked.id], asked.fields, asked.parent)
  <2>1. \/ /\ asked.id \in Live(table)
           /\ table' = [table EXCEPT ![asked.id] = row]
           /\ Suspends(c, next, "refreshing")
        \/ Ends(c, "error") /\ table' = table
    BY <1>4 DEF UpdateCommits, KeepsStores
  <2>2. IsRequest(next) /\ next.sums = asked.sums
    BY <1>1 DEF IsRequest, RequestFields
  <2>. HIDE DEF next, row
  <2>3. Coherent(next)
    BY <1>1, <2>2 DEF Coherent
  <2>4. CASE /\ asked.id \in Live(table)
             /\ table' = [table EXCEPT ![asked.id] = row]
             /\ Suspends(c, next, "refreshing")
    <3>1. asked.id \in Ids /\ IsRow(table[asked.id]) /\ Balanced(table[asked.id])
      BY <2>4 DEF Live, MoneyInv, BusinessInv, StoresInv, StoresTyped
    <3>2. Balanced(row)
      BY <3>1, PatchedBalanced DEF row
    <3>3. \A i \in Live(table') : Balanced(table'[i])
      BY <2>4, <3>1, <3>2, TableBalanced
    <3>4. AsksCoherently(c)
      BY <2>2, <2>3, <2>4, SuspendsCoherently
    <3>5. row.kind = table[asked.id].kind /\ row.amounts = table[asked.id].amounts /\ row # NoRow
      <4>1. /\ row.kind = table[asked.id].kind /\ row.amounts = table[asked.id].amounts
            /\ row = [f \in RowFields |-> row[f]]
        BY <3>1 DEF row, Patched, IsRow, RowFields
      <4>. QED  BY <4>1 DEF NoRow, RowFields
    <3>6. KeepsInvoices
      BY <2>4, <3>1, <3>5, InvoicesKept
    <3>. QED  BY <3>3, <3>4, <3>6, MoneyKept
  <2>5. CASE Ends(c, "error") /\ table' = table
    BY <1>2, <2>5, TableRests, MoneyKept
  <2>. QED  BY <2>1, <2>4, <2>5
<1>5. CASE DeleteCommits(c)
  <2>1. \/ table' = [table EXCEPT ![asked.id] = NoRow] /\ Ends(c, "ok")
        \/ table' = table /\ Ends(c, "error")
    BY <1>5 DEF DeleteCommits, KeepsStores
  <2>2. asked.id \in Ids
    BY <1>5, RequestIs DEF DeleteCommits, Good
  <2>3. \A i \in Live(table') : Balanced(table'[i])
    BY <2>1, <2>2, TableBalanced, TableRests
  <2>4. asked.id \notin Of(table, "invoice")
    BY <1>5, RequestIs DEF DeleteCommits, Good, Of, Flat
  <2>5. KeepsInvoices
    BY <2>1, <2>2, <2>4, InvoicesKept, TableRests
  <2>. QED  BY <1>2, <2>1, <2>3, <2>5, MoneyKept
<1>6. CASE ReportSelects(c)
  <2>. DEFINE sums == IF Statements[asked.at] = "invoice" THEN InvoiceFigures ELSE asked.sums
              read == [asked EXCEPT !.at = asked.at + 1, !.sums = sums]
              last == [read EXCEPT !.at = 0]
  <2>1. sums[2] <= sums[1] \/ Credited(table)
    BY <1>1, FiguresAre DEF Coherent
  <2>2. /\ table' = table
        /\ \/ request' = [request EXCEPT ![c] = read]
           \/ Answers(c, last, "ok")
           \/ Ends(c, "error")
    BY <1>6, Zenon DEF ReportSelects, KeepsStores
  <2>. HIDE DEF sums
  <2>3. IsRequest(last) /\ read.sums = sums /\ last.sums = sums
    BY <1>1 DEF IsRequest, RequestFields
  <2>. HIDE DEF read, last
  <2>4. Coherent(read) /\ Coherent(last)
    BY <2>1, <2>3 DEF Coherent
  <2>5. AsksCoherently(c)
    BY <1>2, <2>2, <2>3, <2>4, AnswersCoherently DEF AsksCoherently
  <2>. QED  BY <2>2, <2>5, TableRests, MoneyKept
<1>. QED  BY <1>3, <1>4, <1>5, <1>6 DEF Resumes

LEMMA RestartBalances ==
  ASSUME BusinessInv, MoneyInv, Restarts
  PROVE  MoneyInv'
<1>1. ASSUME NEW c \in Clients PROVE Coherent(request'[c])
  <2>1. IsRequest(request[c]) /\ Coherent(request[c])
    BY <1>1, RequestIs DEF MoneyInv
  <2>2. request'[c] = request[c] \/ request'[c] = Settled(request[c], "error")
    BY <1>1 DEF Restarts
  <2>3. Settled(request[c], "error").sums = <<0, 0>>
    BY DEF Settled, NoRequest
  <2>. QED  BY <2>1, <2>2, <2>3 DEF Coherent
<1>2. table' = table
  BY DEF Restarts
<1>3. (\A i \in Live(table') : Balanced(table'[i])) /\ KeepsInvoices
  BY <1>2, TableRests
<1>4. Credited(table) => Credited(table')
  BY <1>3 DEF Credited, KeepsInvoices
<1>. QED  BY <1>1, <1>3, <1>4 DEF MoneyInv, Balanced, AddsUp, Coherent, Live, Slack

LEMMA MoneyStart == Init => MoneyInv
<1>. SUFFICES ASSUME Init PROVE MoneyInv
  OBVIOUS
<1>1. Live(table) = {}
  BY DEF Init, InitRepository, Live
<1>2. \A c \in Clients : request[c].sums = <<0, 0>>
  BY DEF Init, InitRepository, NoRequest
<1>3. \A c \in Clients : Coherent(request[c])
  BY <1>2 DEF Coherent
<1>. QED  BY <1>1, <1>3 DEF MoneyInv

LEMMA MoneyStep == BusinessInv /\ MoneyInv /\ [Next]_vars => MoneyInv'
<1>. SUFFICES ASSUME BusinessInv, MoneyInv, [Next]_vars PROVE MoneyInv'
  OBVIOUS
<1>1. ASSUME NEW c \in Clients, Serves(c) PROVE MoneyInv'
  <2>1. CASE \/ CreateCustomer(c) \/ CreateVendor(c) \/ CreateQuotation(c) \/ CreateInvoice(c)
             \/ CreatePurchaseOrder(c) \/ CreateBOQ(c) \/ CreateInventory(c) \/ CreateEstimation(c)
    <3>1. PICK kind \in Kinds : \E body : /\ AddsUp(Rounded(body.amounts),
                                                    Slack(kind, Rounded(body.amounts)))
                                          /\ CreateRow(c, kind, body)
      BY <2>1, BodiesAddUp, KindsAre, Zenon
         DEF CreateCustomer, CreateVendor, CreateQuotation, CreateInvoice, CreatePurchaseOrder,
             CreateBOQ, CreateInventory, CreateEstimation
    <3>. QED  BY <3>1, CreateBalances
  <2>2. CASE Resumes(c)
    BY <2>2, ResumesBalance
  <2>3. CASE \/ \E kind, id, patch : UpdateRow(c, kind, id, patch)
             \/ \E kind, id : DeleteRow(c, kind, id)
             \/ \E kind, id : GetRow(c, kind, id)
             \/ \E kind : ListRows(c, kind)
             \/ ReportSummary(c)
    BY <2>3, OthersBalance
  <2>4. \/ CreateCustomer(c) \/ CreateVendor(c) \/ CreateQuotation(c) \/ CreateInvoice(c)
        \/ CreatePurchaseOrder(c) \/ CreateBOQ(c) \/ CreateInventory(c) \/ CreateEstimation(c)
        \/ GetCustomer(c) \/ GetVendor(c) \/ GetQuotation(c) \/ GetInvoice(c)
        \/ GetPurchaseOrder(c) \/ GetBOQ(c) \/ GetInventory(c) \/ GetEstimation(c)
        \/ ListCustomers(c) \/ ListVendors(c) \/ ListQuotations(c) \/ ListInvoices(c)
        \/ ListPurchaseOrders(c) \/ ListBOQs(c) \/ ListInventory(c) \/ ListEstimations(c)
        \/ UpdateCustomer(c) \/ UpdateVendor(c) \/ UpdateInventory(c)
        \/ DeleteCustomer(c) \/ DeleteVendor(c) \/ DeleteInventory(c)
        \/ ReportSummary(c) \/ Resumes(c)
    BY <1>1, Zenon
       DEF Serves, Customers, Vendors, Quotations, InvoiceRoutes, PurchaseOrders, BOQs,
           Inventory, Estimations, Reports
  <2>5. CASE \/ GetCustomer(c) \/ GetVendor(c) \/ GetQuotation(c) \/ GetInvoice(c)
             \/ GetPurchaseOrder(c) \/ GetBOQ(c) \/ GetInventory(c) \/ GetEstimation(c)
    <3>1. \E kind, id : GetRow(c, kind, id)
      BY <2>5, Zenon DEF GetCustomer, GetVendor, GetQuotation, GetInvoice, GetPurchaseOrder,
                         GetBOQ, GetInventory, GetEstimation
    <3>. QED  BY <2>3, <3>1
  <2>6. CASE \/ ListCustomers(c) \/ ListVendors(c) \/ ListQuotations(c) \/ ListInvoices(c)
             \/ ListPurchaseOrders(c) \/ ListBOQs(c) \/ ListInventory(c) \/ ListEstimations(c)
    <3>1. \E kind : ListRows(c, kind)
      BY <2>6, Zenon DEF ListCustomers, ListVendors, ListQuotations, ListInvoices,
                         ListPurchaseOrders, ListBOQs, ListInventory, ListEstimations
    <3>. QED  BY <2>3, <3>1
  <2>7. CASE UpdateCustomer(c) \/ UpdateVendor(c) \/ UpdateInventory(c)
    <3>1. \E kind, id, patch : UpdateRow(c, kind, id, patch)
      BY <2>7, Zenon DEF UpdateCustomer, UpdateVendor, UpdateInventory
    <3>. QED  BY <2>3, <3>1
  <2>8. CASE DeleteCustomer(c) \/ DeleteVendor(c) \/ DeleteInventory(c)
    <3>1. \E kind, id : DeleteRow(c, kind, id)
      BY <2>8, Zenon DEF DeleteCustomer, DeleteVendor, DeleteInventory
    <3>. QED  BY <2>3, <3>1
  <2>. QED  BY <2>1, <2>2, <2>3, <2>4, <2>5, <2>6, <2>7, <2>8, Zenon
<1>2. CASE Restarts
  BY <1>2, RestartBalances
<1>3. CASE UNCHANGED vars
  BY <1>3 DEF vars, businessVars, MoneyInv, Balanced, AddsUp, Coherent, Credited, Of, Live, Slack
<1>. QED  BY <1>1, <1>2, <1>3 DEF Next

LEMMA MoneyInvariant == Spec => [](BusinessInv /\ MoneyInv)
BY BusinessInvariant, MoneyStart, MoneyStep, PTL DEF Spec

\* Whatever clients claim for the lines of a document, credits included, and
\* whatever its tax, on Postgres the stored total is the sum of the stored
\* subtotal and tax when subtotal and total are not negative: the tax is quantized
\* before it is added.  Otherwise it is within a cent.  An estimation's four
\* columns round apart, and its total is within a cent of the rest on Postgres,
\* within two on SQLite (create_quotation, create_estimation).
THEOREM StoredTotalsAddUp == Spec => []TotalsAddUp
<1>1. MoneyInv => TotalsAddUp
  BY DEF MoneyInv, Balanced, AddsUp, TotalsAddUp
<1>. QED  BY <1>1, MoneyInvariant, PTL

\* A report answers with no more outstanding than invoiced: both figures come
\* from one reading, and the invoices sent are among those sent or paid.  Only a
\* stored invoice with a negative total lets it say otherwise (report_summary).
THEOREM ReportsAreCoherent == Spec => []ReportIsCoherent
<1>1. MoneyInv => ReportIsCoherent
  BY DEF MoneyInv, Coherent, Credited, ReportIsCoherent, Answered
<1>. QED  BY <1>1, MoneyInvariant, PTL
=============================================================================
