--------------------------- MODULE InvoiceLedger ---------------------------
(***************************************************************************)
(* What the tables of billing promise: an invoice is issued, paid and       *)
(* disputed in one step each.  Paying makes it paid for good, a dispute     *)
(* never touches a paid invoice, and the payments on record are those of    *)
(* the invoices that are paid.  Billing implements this with the several    *)
(* statements of its transactions.                                          *)
(***************************************************************************)
CONSTANTS Invoices, Payments

VARIABLES
  status,      \* "none" before an invoice is issued and after it is removed
  isDisputed,  \* whether it has ever been disputed
  paid         \* the payments on record, each with its invoice

ledger == <<status, isDisputed, paid>>

Init ==
  /\ status = [i \in Invoices |-> "none"]
  /\ isDisputed = [i \in Invoices |-> FALSE]
  /\ paid = {}

Issue(i) ==
  /\ status[i] = "none"
  /\ status' = [status EXCEPT ![i] = "pending"]
  /\ UNCHANGED <<isDisputed, paid>>

(* A payment made at the same time as another is recorded as well. *)
Pay(p, i) ==
  /\ status[i] # "none"
  /\ status' = [status EXCEPT ![i] = "paid"]
  /\ paid' = paid \cup {<<p, i>>}
  /\ UNCHANGED isDisputed

Dispute(i) ==
  /\ status[i] \in {"pending", "disputed"}
  /\ status' = [status EXCEPT ![i] = "disputed"]
  /\ isDisputed' = [isDisputed EXCEPT ![i] = TRUE]
  /\ UNCHANGED paid

(* A user is deleted, and the rows of his invoices. *)
Remove(rows) ==
  /\ status' = [i \in Invoices |-> IF i \in rows THEN "none" ELSE status[i]]
  /\ isDisputed' = [i \in Invoices |-> IF i \in rows THEN FALSE ELSE isDisputed[i]]
  /\ paid' = {x \in paid : x[2] \notin rows}

Next ==
  \/ \E i \in Invoices : Issue(i) \/ Dispute(i)
  \/ \E p \in Payments, i \in Invoices : Pay(p, i)
  \/ \E rows \in SUBSET {i \in Invoices : status[i] # "none"} : Remove(rows)

Spec == Init /\ [][Next]_ledger
=============================================================================
