----------------------------- MODULE BusinessApi -----------------------------
(***************************************************************************)
(* The business endpoints (business/routes.py) over the repository, and    *)
(* the restarts of the process that serves them.                           *)
(***************************************************************************)
EXTENDS BusinessRepository

CONSTANTS MaxRestarts  \* bound: restarts of the process
ASSUME RestartAssumption == MaxRestarts \in Nat

VARIABLES restarts
vars == <<businessVars, restarts>>

Init == InitRepository /\ restarts = 0

\* The memory goes with the process and what was in flight with its
\* connections; lifespan probes again.
Restarts ==
  /\ restarts < MaxRestarts
  /\ restarts' = restarts + 1
  /\ available' \in BOOLEAN
  /\ memory' = [id \in Ids |-> NoRow]
  /\ gone' = gone \cup Live(memory)
  /\ request' = [c \in Clients |->
                   IF request[c].stage = "answered" THEN request[c]
                   ELSE Settled(request[c], "error")]
  /\ UNCHANGED <<table, commits, requests>>

Customers(c) ==
  CreateCustomer(c) \/ GetCustomer(c) \/ ListCustomers(c) \/ UpdateCustomer(c) \/ DeleteCustomer(c)
Vendors(c) ==
  CreateVendor(c) \/ GetVendor(c) \/ ListVendors(c) \/ UpdateVendor(c) \/ DeleteVendor(c)
Quotations(c)     == CreateQuotation(c) \/ GetQuotation(c) \/ ListQuotations(c)
InvoiceRoutes(c)  == CreateInvoice(c) \/ GetInvoice(c) \/ ListInvoices(c)
PurchaseOrders(c) == CreatePurchaseOrder(c) \/ GetPurchaseOrder(c) \/ ListPurchaseOrders(c)
BOQs(c)           == CreateBOQ(c) \/ GetBOQ(c) \/ ListBOQs(c)
Inventory(c) ==
  CreateInventory(c) \/ GetInventory(c) \/ ListInventory(c) \/ UpdateInventory(c) \/ DeleteInventory(c)
Estimations(c)    == CreateEstimation(c) \/ GetEstimation(c) \/ ListEstimations(c)
Reports(c)        == ReportSummary(c)

Serves(c) ==
  \/ Customers(c) \/ Vendors(c)
  \/ Quotations(c) \/ InvoiceRoutes(c) \/ PurchaseOrders(c)
  \/ BOQs(c) \/ Inventory(c) \/ Estimations(c)
  \/ Reports(c)
  \/ Resumes(c)

Next == (\E c \in Clients : Serves(c) /\ UNCHANGED restarts) \/ Restarts
Spec == Init /\ [][Next]_vars

-----------------------------------------------------------------------------
(* Properties *)

StoreOf(asked) == IF asked.by = "table" THEN table ELSE memory
Answered(op, answer) ==
  {c \in Clients : /\ request[c].stage = "answered"
                   /\ request[c].op \in op /\ request[c].answer = answer}

\* A creation or a patch that was answered with success stays: until it is
\* deleted (or lost with the memory of the process) the row is there; a field
\* that was sent with a new value holds that value or what a later commit wrote;
\* and a field that was sent with the value it had holds what the patch read or
\* what was committed since, which is not always what was sent.  (Interleaved
\* updates, and a restart between the commit and the next request.)
AcknowledgedStays ==
  \A c \in Answered({"create", "update"}, "ok") :
    LET asked == request[c]
        row   == StoreOf(asked)[asked.id]
    IN asked.id \notin gone =>
         /\ asked.id \in Live(StoreOf(asked))
         /\ "main"  \in asked.fields => row.main  >= asked.at
         /\ "extra" \in asked.fields => row.extra >= asked.at
         /\ row.main >= asked.seen.main /\ row.extra >= asked.seen.extra

\* An id that was answered "not found", or deleted, never has a row again in
\* the store that answered.  (An update suspended while the row is deleted.)
NotFoundIsForever ==
  \A c \in Answered({"get", "update", "delete"}, "not_found") \cup Answered({"delete"}, "ok") :
    ~Has(StoreOf(request[c]), request[c].kind, request[c].id)

\* The database refers only to rows it has, of the right kind, as the tables
\* declare (models.py).
ReferencesHold ==
  \A id \in Live(table) :
    table[id].parent # 0 => Has(table, Table(table[id].kind).parent, table[id].parent)

\* The database has only rows every list can answer, and on Postgres, where the
\* foreign keys are enforced, only references that hold.  (Creations, patches and
\* deletions interleaved.)
TableIsSound ==
  /\ \A id \in Live(table) : Answerable(table[id])
  /\ Engine = "postgres" => ReferencesHold

\* The stored total of a document is the sum of its stored parts: exactly, for a
\* priced document on Postgres whose subtotal and total are not negative; within
\* a cent for every other priced document and for an estimation on Postgres (all
\* are whole cents); within two cents for an estimation on SQLite.
Slack(kind, amounts) ==
  IF kind = "estimation" THEN IF Engine = "postgres" THEN 2 * Cent - 1 ELSE 2 * Cent
  ELSE IF /\ Engine = "postgres" /\ kind \in Priced
          /\ amounts.parts[1] >= 0 /\ amounts.total >= 0
       THEN 0 ELSE Cent
TotalsAddUp ==
  \A id \in Live(table) :
    LET amounts == table[id].amounts
        slack   == Slack(table[id].kind, amounts)
    IN /\ amounts.total <= Total(amounts.parts) + slack
       /\ Total(amounts.parts) <= amounts.total + slack

\* No report says more is outstanding than was invoiced, although its five
\* statements interleave with new invoices, unless a stored invoice has a
\* negative total: a paid credit lowers what was invoiced.
ReportIsCoherent ==
  \A c \in Answered({"report"}, "ok") :
    \/ request[c].sums[2] <= request[c].sums[1]
    \/ \E id \in Of(table, "invoice") : table[id].amounts.total < 0
=============================================================================
