--------------------------- MODULE BusinessSchema ---------------------------
(***************************************************************************)
(* The tables of the business module (business/models.py) and the request  *)
(* and response models around them (business/schemas.py).  Of a row's      *)
(* fields four are told apart: "main", the one a request may leave out     *)
(* although somebody needs it; "extra", which may be null everywhere; the  *)
(* row it refers to; its status.  A document also has its amounts.         *)
(* Money is in units, whole parts of a cent.  A Numeric(12, 2) column      *)
(* rounds to a cent: Postgres a half away from zero; on SQLite the column  *)
(* is a float, and a half goes either way.                                 *)
(***************************************************************************)
EXTENDS Integers, Sequences, SequencesExt

CONSTANTS
  Engine,       \* the database: "postgres" or "sqlite"
  Cent,         \* units in a cent
  Carts,        \* the totals clients claim for the lines of a document
  CostSheets,   \* materials and labor of an estimation, in tens of units
  Rates,        \* taxes on a document: <<n, d>> is n/d percent
  TiesDown      \* amounts half a cent over a cent that the column cuts down

Flat      == {"customer", "vendor", "inventory"}
Priced    == {"quotation", "invoice", "purchase_order"}
Documents == Priced \cup {"boq", "estimation"}
Kinds     == Flat \cup Documents

-----------------------------------------------------------------------------
(* models.py: whom a row refers to, whether that may be null, and what the *)
(* database does with a row whose main field is left out: a column default *)
(* fills it, or NOT NULL refuses the row.                                  *)

CustomerTable      == [parent |-> "none",     nullable |-> TRUE,  omitted |-> "refused"]  \* name
VendorTable        == [parent |-> "none",     nullable |-> TRUE,  omitted |-> "refused"]  \* name
QuotationTable     == [parent |-> "customer", nullable |-> FALSE, omitted |-> "refused"]  \* title
InvoiceTable       == [parent |-> "customer", nullable |-> FALSE, omitted |-> "filled"]   \* status
PurchaseOrderTable == [parent |-> "vendor",   nullable |-> FALSE, omitted |-> "filled"]   \* status
BOQTable           == [parent |-> "none",     nullable |-> TRUE,  omitted |-> "refused"]  \* an item's item_code
InventoryTable     == [parent |-> "vendor",   nullable |-> TRUE,  omitted |-> "filled"]   \* quantity, prices
EstimationTable    == [parent |-> "none",     nullable |-> TRUE,  omitted |-> "filled"]   \* an item's costs

Table(kind) ==
  CASE kind = "customer"  -> CustomerTable
    [] kind = "vendor"    -> VendorTable
    [] kind = "quotation" -> QuotationTable
    [] kind = "invoice"   -> InvoiceTable
    [] kind = "purchase_order" -> PurchaseOrderTable
    [] kind = "boq"       -> BOQTable
    [] kind = "inventory" -> InventoryTable
    [] kind = "estimation" -> EstimationTable

-----------------------------------------------------------------------------
(* Money *)

ASSUME EngineAssumption ==
  /\ Engine \in {"postgres", "sqlite"}
  /\ TiesDown \subseteq Int /\ (Engine = "postgres" => TiesDown = {})

\* No schema bounds an amount or a tax: a line may be a credit.
ASSUME MoneyAssumption ==
  /\ Cent \in Nat \ {0}
  /\ Carts \subseteq Seq(Int)
  /\ CostSheets \subseteq Int \X Int
  /\ Rates \subseteq Int \X (Nat \ {0})

RoundCents(amount) ==
  LET rest == amount % Cent
      up   == IF 2 * rest = Cent THEN amount > 0 <=> amount \notin TiesDown
                                 ELSE 2 * rest > Cent
  IN (amount - rest) + (IF up THEN Cent ELSE 0)

\* Decimal.quantize of num/den cents: a half goes to the even cent.
Quantized(num, den) ==
  LET cents == num \div den
      rest  == 2 * (num % den)
      up    == rest > den \/ (rest = den /\ cents % 2 = 1)
  IN (cents + (IF up THEN 1 ELSE 0)) * Cent

NoAmounts == [parts |-> <<>>, total |-> 0]
Total(parts) == SumFunction(parts)

\* Mutant: the tax is not quantized.
UnquantizedAmounts(cart, rate) ==
  LET subtotal == Total(cart)
      tax == (subtotal * rate[1]) \div (100 * rate[2])
  IN [parts |-> <<subtotal, tax>>, total |-> subtotal + tax]

\* A quotation, an invoice or an order: the lines' totals, and the tax on them.
PricedAmounts(cart, rate) ==
  LET subtotal == Total(cart)
      tax == Quantized(subtotal * rate[1], 100 * rate[2] * Cent)
  IN [parts |-> <<subtotal, tax>>, total |-> subtotal + tax]

\* An estimation: materials, labor and a tenth of both as overhead.
EstimationAmounts(costs) ==
  LET overhead == costs[1] + costs[2]
  IN [parts |-> <<10 * costs[1], 10 * costs[2], overhead>>, total |-> 11 * overhead]

\* Every amount is a column of its own.
Rounded(amounts) ==
  [parts |-> [i \in DOMAIN amounts.parts |-> RoundCents(amounts.parts[i])],
   total |-> RoundCents(amounts.total)]

-----------------------------------------------------------------------------
(* schemas.py: the bodies of a creation.  "main" is in gives when the      *)
(* client sends it: model_dump(exclude_unset=True) drops what it does not, *)
(* the declared defaults included.                                         *)

Bodies(gives, parents, statuses, amounts) ==
  [gives : gives, parent : parents, status : statuses, amounts : amounts]

CustomerBodies(ids)      == Bodies({{"main"}, {"main", "extra"}}, {0}, {"none"}, {NoAmounts})
VendorBodies(ids)        == Bodies({{"main", "extra"}}, {0}, {"none"}, {NoAmounts})
QuotationBodies(ids)     == Bodies({{}, {"main"}}, ids, {"draft"},
                                   {PricedAmounts(cart, <<0, 1>>) : cart \in Carts})
InvoiceBodies(ids)       == Bodies({{"main"}}, ids, {"draft", "sent", "paid"},
                                   {PricedAmounts(cart, rate) : cart \in Carts, rate \in Rates})
PurchaseOrderBodies(ids) == Bodies({{"main"}}, ids, {"draft"},
                                   {PricedAmounts(cart, rate) : cart \in Carts, rate \in Rates})
BOQBodies(ids)           == Bodies({{}, {"main"}}, {0}, {"draft"}, {NoAmounts})
InventoryBodies(ids)     == Bodies({{}, {"main"}}, ids \cup {0}, {"none"}, {NoAmounts})
EstimationBodies(ids)    == Bodies({{"main"}}, {0}, {"draft"}, {EstimationAmounts(costs) : costs \in CostSheets})

\* What a response cannot be made without: required fields with no default.
CustomerResponse      == {"main"}  \* name
VendorResponse        == {"main"}  \* name
QuotationResponse     == {"main"}  \* title
InvoiceResponse       == {"main"}  \* status
PurchaseOrderResponse == {"main"}  \* status
BOQResponse           == {}        \* an item's item_code defaults to ""
InventoryResponse     == {"main"}  \* quantity, prices
EstimationResponse    == {}        \* an item's costs default to 0

Required(kind) ==
  CASE kind = "customer"  -> CustomerResponse
    [] kind = "vendor"    -> VendorResponse
    [] kind = "quotation" -> QuotationResponse
    [] kind = "invoice"   -> InvoiceResponse
    [] kind = "purchase_order" -> PurchaseOrderResponse
    [] kind = "boq"       -> BOQResponse
    [] kind = "inventory" -> InventoryResponse
    [] kind = "estimation" -> EstimationResponse

\* What PATCH may carry: columns it changes, and columns it sends with the value
\* they have.  A field sent as null is in neither (exclude_none).
Columns == {"main", "extra"}
Patches(parents) ==
  {patch \in [changes : SUBSET Columns, repeats : SUBSET Columns, parent : parents] :
     patch.changes \cap patch.repeats = {}}

CustomerPatches(ids)  == Patches({0})
VendorPatches(ids)    == Patches({0})
InventoryPatches(ids) == Patches(ids \cup {0})
=============================================================================
