--------------------------- MODULE BillingReports ---------------------------
(***************************************************************************)
(* What the API gateway answers about the invoices of billing.service.ts:   *)
(* to a user, the lists of user.controller.ts; to an operator, those of     *)
(* operator.controller.ts.  Each answer is a query over the tables of       *)
(* Billing at one moment, and is an expression over its variables.  A list  *)
(* comes in pages, with a count that an earlier statement has made: the     *)
(* list is modelled whole, and the count left out.                          *)
(*                                                                         *)
(* A definition Mut_X is a mutated form of the definition it precedes.      *)
(***************************************************************************)
EXTENDS Billing

CONSTANT Cost  \* what each invoice comes to

Statuses == {"pending", "paid", "overdue", "disputed"}

ASSUME ReportsAssumption == Cost \in [Ids -> Nat]

-----------------------------------------------------------------------------
(* A user's own.  The user_id of the token is part of every query.          *)

GetUserInvoices(u, states) == {i \in Issued : Bills(i, u) /\ status[i] \in states}

(* Any other id is answered with "Invoice not found".                       *)
GetInvoiceById(i, u) == {j \in Issued : j = i /\ Bills(j, u)}

(* No code writes invoice_line_items.                                       *)
GetInvoiceWithLineItems(i, u) == {[invoice |-> j, items |-> {}] : j \in GetInvoiceById(i, u)}

Mut_EverybodysHistory(u) == paidBy

GetPaymentHistory(u) == {p \in paidBy : Bills(target[p], u)}

(* The invoice of the month shown with the current cycle, if there is one:  *)
(* the last made, and of two made together either.                          *)
CurrentMonthInvoices(u) == GetUserInvoices(u, Statuses)

-----------------------------------------------------------------------------
(* An operator's.                                                           *)

Of(region) == {i \in Issued : region \in {AllRegions, Region[i[2][1]]}}
InStatus(region, states) == {i \in Of(region) : status[i] \in states}

GetOverdueInvoicesByRegion(region) == InStatus(region, {"overdue"})

(* SUM(total_cost), counted unit by unit; cost is that of each row.         *)
Amount(rows, cost) == Cardinality(UNION {{x} \X (1 .. cost[x]) : x \in rows})

(* getInvoiceAnalytics: its counts and its sums. *)
CountOf(region, states) == Cardinality(InStatus(region, states))
TotalInvoices(region) == Cardinality(Of(region))
CollectedRevenue(region) == Amount(InStatus(region, {"paid"}), Cost)
OutstandingRevenue(region) == Amount(InStatus(region, {"pending", "overdue"}), Cost)

ExportInvoicesCSV(region, states) == InStatus(region, states)

(* In JSON the export is the list of the user whose id is empty.            *)
ExportInvoiceData(region, states, format) ==
  IF format = "csv" THEN ExportInvoicesCSV(region, states) ELSE GetUserInvoices(NoUser, states)

-----------------------------------------------------------------------------
(* What is told of a month is one story at every moment, whatever payment,  *)
(* generation or deletion is underway.  The operators' export is what the   *)
(* users who are there see in their lists, none of it left by one who was   *)
(* deleted; an invoice is in its user's list as paid when its payment is in *)
(* the user's history; analytics leave no invoice out; and the revenue they *)
(* call collected is what the histories come to, unless an invoice was paid *)
(* twice through a race.                                                    *)
Known == Users \ gone
PaidIn ==
  Amount(UNION {GetPaymentHistory(u) : u \in Known}, [p \in paidBy |-> Cost[target[p]]])

ListsAgree ==
  /\ \A u \in Known : {target[p] : p \in GetPaymentHistory(u)} = GetUserInvoices(u, {"paid"})
  /\ ExportInvoiceData(AllRegions, Statuses, "csv")
       = UNION {CurrentMonthInvoices(u) : u \in Known}

RevenueAgrees ==
  /\ TotalInvoices(AllRegions)
       = CountOf(AllRegions, {"pending", "overdue"}) + CountOf(AllRegions, {"paid"})
           + CountOf(AllRegions, {"disputed"})
  /\ CollectedRevenue(AllRegions) # PaidIn =>
       CollectedRevenue(AllRegions) < PaidIn /\ paidBy \cap raced # {}

ReportsAgree == ListsAgree /\ RevenueAgrees
=============================================================================
