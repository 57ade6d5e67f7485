----------------------------- MODULE MCBilling -----------------------------
(* Instances of Billing and its reports for TLC. *)
EXTENDS BillingReports, TLC

CONSTANTS u, v, m, n, p, q, d, e, g, h

MCUsers == {u, v}
MCMeters == {m, n}
MCPayers == {p, q}
MCDisputers == {d, e}
MCRuns == {g, h}
MCOwner == [r \in MCPayers \cup MCDisputers |-> IF r = e THEN v ELSE u]
(* Costs that tell every set of invoices from the others: a run makes one   *)
(* invoice of a user at most.                                               *)
MCCost == [i \in MCRuns \X (MCUsers \X MCMeters) |->
             IF i[2][1] = v THEN 4 ELSE IF i[1] = g THEN 1 ELSE 2]
MCRegions == {"Pune", "Delhi"}
MCRegion == [x \in MCUsers |-> IF x = u THEN "Pune" ELSE "Delhi"]
(* One run for all regions and one for the region of u. *)
MCAsked == [r \in MCRuns |-> IF r = g THEN AllRegions ELSE "Pune"]
MCSymmetry == Permutations(MCPayers) \cup Permutations(MCMeters)
=============================================================================
