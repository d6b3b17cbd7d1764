------------------------- MODULE BusinessRepository -------------------------
(***************************************************************************)
(* BusinessRepository (business/repository.py): rows in the process'       *)
(* memory or in a database, as the probe at the start of the process       *)
(* found.  In memory an operation is one step; in the database it is       *)
(* suspended between its statements, and other requests run in between.    *)
(* A statement of the database may fail, and the transaction with it.      *)
(* Field values are the commits that wrote them: 0 is a null, a default or *)
(* what no one sent.                                                       *)
(***************************************************************************)
EXTENDS BusinessSchema, FiniteSets, FiniteSetsExt

CONSTANTS
  Clients,
  MaxRows,       \* bound: ids a uuid4() may return; each is fresh
  MaxRequests    \* bound: requests of all clients

ASSUME BusinessAssumption == MaxRows \in Nat /\ MaxRequests \in Nat

Ids == 1 .. MaxRows

NoRow == [kind |-> "none"]   \* an id that has no row

VARIABLES
  available,   \* what the probe of this process found
  memory,      \* the dictionaries of the process
  table,       \* what the database has committed
  request,     \* per client: its last request, and where it is suspended
  commits,     \* commits so far
  requests,    \* requests so far
  gone         \* history variable: ids deleted, or lost with the memory

businessVars == <<available, memory, table, request, commits, requests, gone>>

Nothing   == [main |-> 0, extra |-> 0]
NoRequest == [op |-> "none", stage |-> "answered", answer |-> "none", id |-> 0, kind |-> "none",
              fields |-> {}, seen |-> Nothing, parent |-> 0, at |-> 0, by |-> "none",
              sums |-> <<0, 0>>]

InitRepository ==
  /\ available \in BOOLEAN
  /\ memory = [id \in Ids |-> NoRow]
  /\ table = [id \in Ids |-> NoRow]
  /\ request = [c \in Clients |-> NoRequest]
  /\ commits = 0 /\ requests = 0 /\ gone = {}

-----------------------------------------------------------------------------
(* Rows *)

Live(store)     == {id \in Ids : store[id] # NoRow}
Has(store, kind, id) == id \in Live(store) /\ store[id].kind = kind
Of(store, kind) == {id \in Live(store) : store[id].kind = kind}
Fresh  == Ids \ (Live(memory) \cup Live(table) \cup gone)
\* Ids a request may name: those that exist or existed.
Known  == Ids \ Fresh

Row(kind, body, given, amounts) ==
  [kind |-> kind, parent |-> body.parent, status |-> body.status, amounts |-> amounts,
   hasMain |-> given,
   main  |-> IF "main"  \in body.gives THEN commits + 1 ELSE 0,
   extra |-> IF "extra" \in body.gives THEN commits + 1 ELSE 0]

\* data | {...}: what was not sent is not there.
MemoryRow(kind, body) == Row(kind, body, "main" \in body.gives, body.amounts)
\* The column defaults fill in, the columns round.
TableRow(kind, body)  == Row(kind, body, TRUE, Rounded(body.amounts))

Answerable(row) == "main" \in Required(row.kind) => row.hasMain

\* Mutant: the whole body is written, what was not sent as null.
PatchedWhole(row, fields, parent) ==
  [row EXCEPT !.main    = IF "main"  \in fields THEN commits + 1 ELSE 0,
              !.extra   = IF "extra" \in fields THEN commits + 1 ELSE 0,
              !.parent  = IF parent # 0 THEN parent ELSE @,
              !.hasMain = @ \/ "main" \in fields]

Patched(row, fields, parent) ==
  [row EXCEPT !.main    = IF "main"  \in fields THEN commits + 1 ELSE @,
              !.extra   = IF "extra" \in fields THEN commits + 1 ELSE @,
              !.parent  = IF parent # 0 THEN parent ELSE @,
              !.hasMain = @ \/ "main" \in fields]

\* A patch can repeat only what is there.
Repeats(row, patch) ==
  /\ "main"  \in patch.repeats => row.hasMain
  /\ "extra" \in patch.repeats => row.extra # 0
\* What a patch wants of a row it has read.  The flush leaves out an attribute
\* that was set to the value it had.
Wants(asked, row, patch) ==
  [asked EXCEPT !.fields = patch.changes,
                !.seen   = [main  |-> IF "main"  \in patch.repeats THEN row.main  ELSE 0,
                            extra |-> IF "extra" \in patch.repeats THEN row.extra ELSE 0],
                !.parent = IF patch.parent = row.parent THEN 0 ELSE patch.parent]

-----------------------------------------------------------------------------
(* The database's constraints.  SQLite keeps to no foreign key unless it is *)
(* told to, connection by connection; db.py does not tell it.              *)

ForeignKeys == Engine = "postgres"

\* Mutant: no foreign key guards a deletion.
ReferredToNever(id) == FALSE

ParentHolds(kind, parent) ==
  IF parent = 0 THEN Table(kind).nullable ELSE ForeignKeys => Has(table, Table(kind).parent, parent)
Accepts(kind, body) ==
  /\ ParentHolds(kind, body.parent)
  /\ "main" \in body.gives \/ Table(kind).omitted = "filled"
ReferredTo(id) == ForeignKeys /\ \E child \in Live(table) : table[child].parent = id

-----------------------------------------------------------------------------
(* Requests *)

Starts(c) ==
  /\ request[c].stage = "answered"
  /\ requests < MaxRequests
  /\ requests' = requests + 1

Asks(op, kind, id) ==
  [NoRequest EXCEPT !.op = op, !.kind = kind, !.id = id,
                    !.by = IF available THEN "table" ELSE "memory"]
\* What a request named is kept only where a property speaks of it.
Settled(asked, answer) ==
  LET settled == [asked EXCEPT !.stage = "answered", !.answer = answer, !.parent = 0]
  IN IF answer = "error" THEN [NoRequest EXCEPT !.answer = "error"]
     ELSE IF asked.op \in {"get", "list"} /\ answer = "ok" THEN [NoRequest EXCEPT !.answer = "ok"]
     ELSE settled
Answers(c, asked, answer) == request' = [request EXCEPT ![c] = Settled(asked, answer)]
Suspends(c, asked, stage) == request' = [request EXCEPT ![c] = [asked EXCEPT !.stage = stage]]
Ends(c, answer)           == Answers(c, request[c], answer)

KeepsStores == UNCHANGED <<available, memory, table, commits, gone>>

-----------------------------------------------------------------------------
(* create: one insert and its commit, then a refresh *)

CreateRow(c, kind, body) ==
  /\ Starts(c) /\ Fresh # {}
  /\ LET id    == Min(Fresh)
         asked == [Asks("create", kind, id) EXCEPT !.fields = body.gives, !.at = commits + 1]
     IN \/ /\ ~available
           /\ memory' = [memory EXCEPT ![id] = MemoryRow(kind, body)]
           /\ commits' = commits + 1
           /\ Answers(c, asked, IF Answerable(MemoryRow(kind, body)) THEN "ok" ELSE "error")
           /\ UNCHANGED <<available, table, gone>>
        \/ /\ available /\ Accepts(kind, body)
           /\ table' = [table EXCEPT ![id] = TableRow(kind, body)]
           /\ commits' = commits + 1
           /\ Suspends(c, asked, "refreshing")
           /\ UNCHANGED <<available, memory, gone>>
        \/ /\ available
           /\ Answers(c, asked, "error")
           /\ KeepsStores

\* The row may be gone by now, or the connection.
RefreshEnds(c) ==
  /\ request[c].stage = "refreshing"
  /\ \/ /\ request[c].id \in Live(table)
        /\ Ends(c, IF Answerable(table[request[c].id]) THEN "ok" ELSE "error")
     \/ Ends(c, "error")
  /\ UNCHANGED requests /\ KeepsStores

-----------------------------------------------------------------------------
(* update: the row is read, and later the columns that differ are written *)

UpdateRow(c, kind, id, patch) ==
  /\ Starts(c) /\ id \in Known
  /\ LET store == IF available THEN table ELSE memory
         asked == Asks("update", kind, id)
     IN \/ /\ ~Has(store, kind, id)
           /\ Answers(c, asked, "not_found")
           /\ KeepsStores
        \/ /\ ~available /\ Has(store, kind, id) /\ Repeats(store[id], patch)
           /\ LET wanted == Wants(asked, store[id], patch)
                  row    == Patched(store[id], wanted.fields, wanted.parent)
              IN /\ memory' = [memory EXCEPT ![id] = row]
                 /\ commits' = commits + 1
                 /\ Answers(c, [wanted EXCEPT !.at = commits + 1],
                            IF Answerable(row) THEN "ok" ELSE "error")
           /\ UNCHANGED <<available, table, gone>>
        \/ /\ available /\ Has(store, kind, id) /\ Repeats(store[id], patch)
           /\ Suspends(c, Wants(asked, store[id], patch), "writing")
           /\ KeepsStores

\* Mutant: what was read is merged back, a row that is gone is inserted again.
UpdateMerges(c) ==
  /\ request[c].stage = "writing"
  /\ LET asked == request[c]
         blank == Row(asked.kind, [parent |-> 0, status |-> "none", gives |-> {}], TRUE, NoAmounts)
         row   == IF asked.id \in Live(table) THEN table[asked.id] ELSE blank
     IN /\ table' = [table EXCEPT ![asked.id] = Patched(row, asked.fields, asked.parent)]
        /\ commits' = commits + 1
        /\ Suspends(c, [asked EXCEPT !.at = commits + 1], "refreshing")
        /\ UNCHANGED <<available, memory, gone, requests>>

\* An UPDATE that finds no row raises, and so does a parent that is not there.
UpdateCommits(c) ==
  /\ request[c].stage = "writing"
  /\ LET asked == request[c]
     IN \/ /\ asked.id \in Live(table)
           /\ asked.parent # 0 => ParentHolds(asked.kind, asked.parent)
           /\ table' = [table EXCEPT ![asked.id] = Patched(@, asked.fields, asked.parent)]
           /\ commits' = commits + 1
           /\ Suspends(c, [asked EXCEPT !.at = commits + 1], "refreshing")
           /\ UNCHANGED <<available, memory, gone>>
        \/ Ends(c, "error") /\ KeepsStores
  /\ UNCHANGED requests

-----------------------------------------------------------------------------
(* delete: the row is read, and later deleted *)

DeleteRow(c, kind, id) ==
  /\ Starts(c) /\ id \in Known
  /\ LET store == IF available THEN table ELSE memory
         asked == Asks("delete", kind, id)
     IN \/ /\ ~Has(store, kind, id)
           /\ Answers(c, asked, "not_found")
           /\ KeepsStores
        \/ /\ ~available /\ Has(store, kind, id)
           /\ memory' = [memory EXCEPT ![id] = NoRow]
           /\ gone' = gone \cup {id}
           /\ Answers(c, asked, "ok")
           /\ UNCHANGED <<available, table, commits>>
        \/ /\ available /\ Has(store, kind, id)
           /\ Suspends(c, asked, "deleting")
           /\ KeepsStores

\* A DELETE that finds no row only warns; one of a row referred to raises.
DeleteCommits(c) ==
  /\ request[c].stage = "deleting"
  /\ \/ /\ ~ReferredTo(request[c].id)
        /\ table' = [table EXCEPT ![request[c].id] = NoRow]
        /\ gone' = gone \cup {request[c].id}
        /\ Ends(c, "ok")
        /\ UNCHANGED <<available, memory, commits>>
     \/ Ends(c, "error") /\ KeepsStores
  /\ UNCHANGED requests

-----------------------------------------------------------------------------
(* get, list and the report *)

GetRow(c, kind, id) ==
  /\ Starts(c) /\ id \in Known
  /\ LET store == IF available THEN table ELSE memory
         asked == Asks("get", kind, id)
     IN \/ ~Has(store, kind, id) /\ Answers(c, asked, "not_found")
        \/ Has(store, kind, id) /\ Answers(c, asked, IF Answerable(store[id]) THEN "ok" ELSE "error")
        \/ available /\ Answers(c, asked, "error")
  /\ KeepsStores

\* One row that cannot be answered fails the whole list.
ListRows(c, kind) ==
  /\ Starts(c)
  /\ LET store == IF available THEN table ELSE memory
         asked == Asks("list", kind, 0)
     IN \/ Answers(c, asked, IF \A id \in Of(store, kind) : Answerable(store[id])
                             THEN "ok" ELSE "error")
        \/ available /\ Answers(c, asked, "error")
  /\ KeepsStores

Sum(ids) == SumFunction([id \in ids |-> table[id].amounts.total])
Invoices(statuses) == {id \in Of(table, "invoice") : table[id].status \in statuses}
\* Both figures are computed from one reading of the invoices.
InvoiceFigures == <<Sum(Invoices({"sent", "paid"})), Sum(Invoices({"sent"}))>>

\* The tables report_summary reads, one statement each.
Statements == <<"customer", "vendor", "quotation", "invoice", "inventory">>

ReportSummary(c) ==
  /\ Starts(c)
  /\ IF available THEN Suspends(c, [Asks("report", "none", 0) EXCEPT !.at = 1], "selecting")
                  ELSE Answers(c, Asks("report", "none", 0), "ok")
  /\ KeepsStores

\* Mutant: what is outstanding is selected by a statement of its own.
ReportSelectsTwice(c) ==
  /\ request[c].stage = "selecting"
  /\ LET asked == request[c]
         read  == [asked EXCEPT !.at = @ + 1,
                     !.sums = IF asked.at = 4 THEN <<InvoiceFigures[1], 0>>
                              ELSE IF asked.at = 5 THEN <<@[1], InvoiceFigures[2]>> ELSE @]
     IN \/ asked.at < 5 /\ request' = [request EXCEPT ![c] = read]
        \/ asked.at = 5 /\ Answers(c, [read EXCEPT !.at = 0], "ok")
  /\ UNCHANGED requests /\ KeepsStores

\* request.at is the statement that runs next.
ReportSelects(c) ==
  /\ request[c].stage = "selecting"
  /\ LET asked == request[c]
         read  == [asked EXCEPT !.at = @ + 1,
                                !.sums = IF Statements[asked.at] = "invoice"
                                         THEN InvoiceFigures ELSE @]
     IN \/ asked.at < Len(Statements) /\ request' = [request EXCEPT ![c] = read]
        \/ /\ asked.at = Len(Statements)
           /\ Answers(c, [read EXCEPT !.at = 0], "ok")
        \/ Ends(c, "error")
  /\ UNCHANGED requests /\ KeepsStores

-----------------------------------------------------------------------------
(* The operations of the class *)

CreateCustomer(c)      == \E body \in CustomerBodies(Ids) : CreateRow(c, "customer", body)
CreateVendor(c)        == \E body \in VendorBodies(Ids) : CreateRow(c, "vendor", body)
CreateQuotation(c)     == \E body \in QuotationBodies(Ids) : CreateRow(c, "quotation", body)
CreateInvoice(c)       == \E body \in InvoiceBodies(Ids) : CreateRow(c, "invoice", body)
CreatePurchaseOrder(c) == \E body \in PurchaseOrderBodies(Ids) : CreateRow(c, "purchase_order", body)
CreateBOQ(c)           == \E body \in BOQBodies(Ids) : CreateRow(c, "boq", body)
CreateInventory(c)     == \E body \in InventoryBodies(Ids) : CreateRow(c, "inventory", body)
CreateEstimation(c)    == \E body \in EstimationBodies(Ids) : CreateRow(c, "estimation", body)

GetCustomer(c)      == \E id \in Ids : GetRow(c, "customer", id)
GetVendor(c)        == \E id \in Ids : GetRow(c, "vendor", id)
GetQuotation(c)     == \E id \in Ids : GetRow(c, "quotation", id)
GetInvoice(c)       == \E id \in Ids : GetRow(c, "invoice", id)
GetPurchaseOrder(c) == \E id \in Ids : GetRow(c, "purchase_order", id)
GetBOQ(c)           == \E id \in Ids : GetRow(c, "boq", id)
GetInventory(c)     == \E id \in Ids : GetRow(c, "inventory", id)
GetEstimation(c)    == \E id \in Ids : GetRow(c, "estimation", id)

ListCustomers(c)      == ListRows(c, "customer")
ListVendors(c)        == ListRows(c, "vendor")
ListQuotations(c)     == ListRows(c, "quotation")
ListInvoices(c)       == ListRows(c, "invoice")
ListPurchaseOrders(c) == ListRows(c, "purchase_order")
ListBOQs(c)           == ListRows(c, "boq")
ListInventory(c)      == ListRows(c, "inventory")
ListEstimations(c)    == ListRows(c, "estimation")

UpdateCustomer(c)  == \E id \in Ids, patch \in CustomerPatches(Ids) : UpdateRow(c, "customer", id, patch)
UpdateVendor(c)    == \E id \in Ids, patch \in VendorPatches(Ids) : UpdateRow(c, "vendor", id, patch)
UpdateInventory(c) == \E id \in Ids, patch \in InventoryPatches(Ids) : UpdateRow(c, "inventory", id, patch)

DeleteCustomer(c)  == \E id \in Ids : DeleteRow(c, "customer", id)
DeleteVendor(c)    == \E id \in Ids : DeleteRow(c, "vendor", id)
DeleteInventory(c) == \E id \in Ids : DeleteRow(c, "inventory", id)

\* The statements a suspended operation goes on with.
Resumes(c) == RefreshEnds(c) \/ UpdateCommits(c) \/ DeleteCommits(c) \/ ReportSelects(c)
=============================================================================
