--------------------------- MODULE Billing_proofs ---------------------------
(* Proofs about Billing, for all sets of users and requests.                *)
EXTENDS BillingReports, FiniteSetTheorems, TLAPS

(* What a request works on once it has a connection. *)
Targeted ==
  /\ \A r \in Payers \cup Disputers :
       at[r] \in {"begun", "checked", "written", "committed"} => target[r] \in Ids
  /\ \A g \in Runs :
       at[g] \in {"begun", "checked", "numbered", "written", "committed"} => current[g] \in Accounts
  /\ \A d \in second : at[d] = "begun"

(* A payment is recorded by its commit, and the row it has locked stays. *)
Paying ==
  /\ \A p \in paidBy : target[p] \in Ids /\ at[p] \notin {"ready", "begun", "checked", "written"}
  /\ \A p \in Payers : at[p] = "written" => status[target[p]] # "none"

(* A run inserts a row that is not there: it has looked for the account. *)
Fresh ==
  \A g \in Runs : at[g] \in {"checked", "numbered", "written"} =>
    status[<<g, current[g]>>] = "none"

(* What was checked before the same was committed has been noted. *)
Noted ==
  /\ \A p \in Payers, q \in paidBy :
       at[p] \in {"checked", "written"} /\ target[q] = target[p] => p \in raced
  /\ \A g \in Runs, i \in Issued :
       at[g] \in {"checked", "numbered", "written"} /\ i[2] = current[g] =>
         <<g, current[g]>> \in raced

(* As long as a user has kept his meter, it is what he was listed and       *)
(* billed with.                                                             *)
Kept(a) == a[1] \in moved \/ meter[a[1]] = a[2]
Steady ==
  /\ \A g \in Runs : \A a \in todo[g] : Kept(a)
  /\ \A g \in Runs : at[g] \in {"begun", "checked", "numbered", "written"} => Kept(current[g])
  /\ \A i \in Issued : Kept(i[2])

(* The numbers computed and not yet committed. *)
Numbering ==
  /\ \A g \in Runs : at[g] \in {"numbered", "written"} => numbered[g] \in 1 .. Capacity
  /\ gone = {} => \A g \in Runs : at[g] \in {"numbered", "written"} =>
       numbered[g] <= Cardinality(Issued) + 1
  /\ \A g \in Runs : at[g] = "written" =>
       /\ ~NumberTaken(numbered[g])
       /\ \A h \in Runs \ {g} : at[h] = "written" => numbered[g] # numbered[h]

LedgerInv == TypeOK /\ Targeted /\ Paying /\ Fresh /\ LedgerConsistent
OnlyByRace == PaidTwiceOnlyByRace /\ BilledTwiceOnlyByRace

RaceInv == Noted /\ OnlyByRace
NumberInv == Numbering /\ NumberingSound

-----------------------------------------------------------------------------
LEMMA IdsPairs ==
  /\ \A g \in Runs, a \in Accounts : <<g, a>> \in Ids
  /\ \A i \in Ids : i[1] \in Runs /\ i[2] \in Accounts /\ i = <<i[1], i[2]>>
  /\ \A a \in Accounts : a[1] \in Users /\ a[2] \in Meters /\ a = <<a[1], a[2]>>
BY DEF Ids, Accounts

LEMMA IssuedFinite ==
  /\ IsFiniteSet(Issued)
  /\ Cardinality(Issued) \in Nat
<1>1. IsFiniteSet(Ids)
  <2>1. IsFiniteSet(Accounts)
    BY RequestsAssumption, MetersAssumption, FS_Product DEF Accounts
  <2>. QED
    BY <2>1, RequestsAssumption, FS_Product DEF Ids
<1>2. IsFiniteSet(Issued)
  BY <1>1, FS_Subset DEF Issued
<1>. QED
  BY <1>2, FS_CardinalityType

LEMMA LpadType ==
  ASSUME NEW n \in Nat \ {0}
  PROVE  /\ Lpad(n) \in Nat
         /\ n <= Capacity + 1 => Lpad(n) \in 1 .. Capacity /\ Lpad(n) <= n
<1>. USE NumberingAssumption
<1>1. n \div Radix \in Nat
  BY Z3
<1>2. ASSUME n = Capacity + 1 PROVE n \div Radix \in 1 .. Capacity
  BY <1>2, Z3
<1>. QED
  BY <1>1, <1>2 DEF Lpad

(* The initial states satisfy the invariant. *)
LEMMA InitInvariant == Init => LedgerInv /\ RaceInv /\ Steady /\ NumberInv
<1>. SUFFICES ASSUME Init PROVE LedgerInv /\ RaceInv /\ Steady /\ NumberInv
  OBVIOUS
<1>. USE IdsPairs DEF Init
<1>1. Issued = {}
  BY DEF Issued
<1>2. TypeOK
  <2>1. asking \in [Runs -> SUBSET Regions]
    BY RegionsAssumption
  <2>. QED
    BY <2>1, BillingBoundsAssumption DEF TypeOK, Stages
<1>3. Targeted /\ Paying /\ Fresh
  BY RequestsAssumption DEF Targeted, Paying, Fresh, Requests
<1>4. LedgerConsistent /\ OnlyByRace
  BY <1>1 DEF LedgerConsistent, PaidIffPayment, DisputeIsFlagged, OnlyByRace,
              PaidTwiceOnlyByRace, BilledTwiceOnlyByRace
<1>5. Noted /\ Steady /\ Numbering
  BY <1>1 DEF Noted, Steady, Numbering, Requests
<1>6. Cardinality(Issued) = 0
  BY <1>1, FS_EmptySet
<1>7. NumberingSound
  BY <1>1, <1>6 DEF NumberingSound, NumbersUnique, NumbersHaveNoGap, NumbersFit
<1>. QED
  BY <1>2, <1>3, <1>4, <1>5, <1>7 DEF LedgerInv, RaceInv, NumberInv

(* Where a request goes. *)
LEMMA GotoType ==
  ASSUME TypeOK, NEW r \in Requests, NEW stage \in Stages, Goto(r, stage)
  PROVE  /\ at' \in [Requests -> Stages]
         /\ at'[r] = stage
         /\ \A x \in Requests \ {r} : at'[x] = at[x]
BY DEF Goto, TypeOK

(* A step that only moves a request keeps the types. *)
LEMMA OnlyMoves ==
  ASSUME TypeOK, NEW r \in Requests, NEW stage \in Stages, Goto(r, stage),
         UNCHANGED <<tables, locals, second, people, faults, raced>>
  PROVE  TypeOK'
BY GotoType DEF TypeOK, tables, locals, people

(* Everything but the numbers and the races is kept by every step. *)
LEMMA QuietStep ==
  ASSUME LedgerInv, NEW r \in Requests,
         \/ Connect(r) \/ CheckInvoice(r) \/ WritePayment(r) \/ TakeSecond(r)
         \/ CommitDispute(r) \/ ListUsers(r) \/ NextUser(r) \/ CheckPeriod(r)
         \/ TakeNumber(r) \/ InsertInvoice(r) \/ Publish(r) \/ StatementFails(r) \/ ListFails(r)
  PROVE  LedgerInv'
<1>. USE RequestsAssumption DEF LedgerInv, locals, tables, people
<1>1. CASE Connect(r)
  <2>. USE <1>1 DEF Connect, Goto
  <2>1. TypeOK'
    BY IdsPairs DEF TypeOK, Stages, Requests, Issued
  <2>2. Targeted'
    BY DEF Targeted, TypeOK, Requests, Issued
  <2>3. Paying'
    BY DEF Paying, TypeOK, Requests
  <2>4. Fresh'
    BY DEF Fresh, TypeOK, Requests
  <2>5. LedgerConsistent'
    BY DEF LedgerConsistent, PaidIffPayment, DisputeIsFlagged, Paying, TypeOK
  <2>. QED
    BY <2>1, <2>2, <2>3, <2>4, <2>5
<1>2. CASE CheckInvoice(r)
  <2>0. \E stage \in Stages : Goto(r, stage)
    BY <1>2 DEF CheckInvoice, Rollback, Stages
  <2>1. TypeOK'
    BY <1>2, <2>0, OnlyMoves DEF CheckInvoice
  <2>. USE <1>2 DEF CheckInvoice, Goto, Rollback
  <2>2. Targeted'
    BY DEF Targeted, TypeOK, Requests, Issued
  <2>3. Paying'
    BY DEF Paying, TypeOK, Requests
  <2>4. Fresh'
    BY DEF Fresh, TypeOK, Requests
  <2>5. LedgerConsistent'
    BY DEF LedgerConsistent, PaidIffPayment, DisputeIsFlagged, Paying, TypeOK
  <2>. QED
    BY <2>1, <2>2, <2>3, <2>4, <2>5
<1>3. CASE WritePayment(r)
  <2>0. \E stage \in Stages : Goto(r, stage)
    BY <1>3 DEF WritePayment, Stages
  <2>1. TypeOK'
    BY <1>3, <2>0, OnlyMoves DEF WritePayment
  <2>. USE <1>3 DEF WritePayment, Goto
  <2>2. Targeted'
    BY DEF Targeted, TypeOK, Requests, Issued
  <2>3. Paying'
    BY DEF Paying, TypeOK, Requests
  <2>4. Fresh'
    BY DEF Fresh, TypeOK, Requests
  <2>5. LedgerConsistent'
    BY DEF LedgerConsistent, PaidIffPayment, DisputeIsFlagged, Paying, TypeOK
  <2>. QED
    BY <2>1, <2>2, <2>3, <2>4, <2>5
<1>4. CASE TakeSecond(r)
  <2>. USE <1>4 DEF TakeSecond, Goto
  <2>1. TypeOK'
    BY IdsPairs DEF TypeOK, Stages, Requests, Issued
  <2>2. Targeted'
    BY DEF Targeted, TypeOK, Requests, Issued
  <2>3. Paying'
    BY DEF Paying, TypeOK, Requests
  <2>4. Fresh'
    BY DEF Fresh, TypeOK, Requests
  <2>5. LedgerConsistent'
    BY DEF LedgerConsistent, PaidIffPayment, DisputeIsFlagged, Paying, TypeOK
  <2>. QED
    BY <2>1, <2>2, <2>3, <2>4, <2>5
<1>5. CASE CommitDispute(r)
  <2>0. \E stage \in Stages : Goto(r, stage)
    BY <1>5 DEF CommitDispute, Stages
  <2>1. TypeOK'
    BY <1>5, <2>0, OnlyMoves DEF CommitDispute
  <2>. USE <1>5 DEF CommitDispute, Goto
  <2>2. Targeted'
    BY DEF Targeted, TypeOK, Requests, Issued
  <2>3. Paying'
    BY DEF Paying, TypeOK, Requests
  <2>4. Fresh'
    BY DEF Fresh, TypeOK, Requests
  <2>5. LedgerConsistent'
    BY DEF LedgerConsistent, PaidIffPayment, DisputeIsFlagged, Paying, TypeOK
  <2>. QED
    BY <2>1, <2>2, <2>3, <2>4, <2>5
<1>6. CASE ListUsers(r)
  <2>. USE <1>6 DEF ListUsers, Listing, Covered, Goto
  <2>1. TypeOK'
    BY IdsPairs DEF TypeOK, Stages, Requests, Issued
  <2>2. Targeted'
    BY DEF Targeted, TypeOK, Requests, Issued
  <2>3. Paying'
    BY DEF Paying, TypeOK, Requests
  <2>4. Fresh'
    BY DEF Fresh, TypeOK, Requests
  <2>5. LedgerConsistent'
    BY DEF LedgerConsistent, PaidIffPayment, DisputeIsFlagged, Paying, TypeOK
  <2>. QED
    BY <2>1, <2>2, <2>3, <2>4, <2>5
<1>7. CASE NextUser(r)
  <2>1. PICK a : \/ /\ a \in todo[r]
                    /\ todo' = [todo EXCEPT ![r] = @ \ {a}]
                    /\ current' = [current EXCEPT ![r] = a]
                    /\ Goto(r, "begun")
                 \/ /\ current' = [current EXCEPT ![r] = NoUser]
                    /\ todo' = todo
                    /\ Goto(r, "succeeded")
    BY <1>7 DEF NextUser
  <2>2. /\ r \in Runs /\ at[r] = "listed" /\ numbered' = [numbered EXCEPT ![r] = 0]
        /\ UNCHANGED <<tables, target, asking, second, people, faults, raced>>
    BY <1>7 DEF NextUser
  <2>3. a \in todo[r] => a \in Accounts
    BY <2>2 DEF TypeOK
  <2>. HIDE <1>7
  <2>. USE <2>1, <2>2, <2>3 DEF Goto
  <2>4. todo' \in [Runs -> SUBSET Accounts] /\ current' \in [Runs -> Accounts \cup {NoUser}]
    BY DEF TypeOK
  <2>5. at' \in [Requests -> Stages] /\ numbered' \in [Runs -> Nat]
    BY DEF TypeOK, Stages
  <2>6. TypeOK'
    BY <2>4, <2>5 DEF TypeOK
  <2>7. Targeted'
    BY DEF Targeted, TypeOK, Requests
  <2>8. Paying'
    BY DEF Paying, TypeOK, Requests
  <2>9. Fresh'
    BY DEF Fresh, TypeOK, Requests
  <2>10. LedgerConsistent'
    BY DEF LedgerConsistent, PaidIffPayment, DisputeIsFlagged
  <2>. QED
    BY <2>6, <2>7, <2>8, <2>9, <2>10
<1>8. CASE CheckPeriod(r)
  <2>0. \E stage \in Stages : Goto(r, stage)
    BY <1>8 DEF CheckPeriod, Rollback, Stages
  <2>1. TypeOK'
    BY <1>8, <2>0, OnlyMoves DEF CheckPeriod
  <2>. USE <1>8 DEF CheckPeriod, Goto, Rollback
  <2>2. Targeted'
    BY DEF Targeted, TypeOK, Requests, Issued
  <2>3. Paying'
    BY DEF Paying, TypeOK, Requests
  <2>4. Fresh'
    BY IdsPairs DEF Fresh, TypeOK, Requests, Targeted, Issued
  <2>5. LedgerConsistent'
    BY DEF LedgerConsistent, PaidIffPayment, DisputeIsFlagged, Paying, TypeOK
  <2>. QED
    BY <2>1, <2>2, <2>3, <2>4, <2>5
<1>9. CASE TakeNumber(r)
  <2>. USE <1>9 DEF TakeNumber, Goto
  <2>1. TypeOK'
    BY IssuedFinite, LpadType, IdsPairs DEF TypeOK, Stages, Requests, Issued
  <2>2. Targeted'
    BY DEF Targeted, TypeOK, Requests, Issued
  <2>3. Paying'
    BY DEF Paying, TypeOK, Requests
  <2>4. Fresh'
    BY DEF Fresh, TypeOK, Requests
  <2>5. LedgerConsistent'
    BY DEF LedgerConsistent, PaidIffPayment, DisputeIsFlagged, Paying, TypeOK
  <2>. QED
    BY <2>1, <2>2, <2>3, <2>4, <2>5
<1>10. CASE InsertInvoice(r)
  <2>0. \E stage \in Stages : Goto(r, stage)
    BY <1>10 DEF InsertInvoice, Rollback, Stages
  <2>1. TypeOK'
    BY <1>10, <2>0, OnlyMoves DEF InsertInvoice
  <2>. USE <1>10 DEF InsertInvoice, Goto, Rollback
  <2>2. Targeted'
    BY DEF Targeted, TypeOK, Requests, Issued
  <2>3. Paying'
    BY DEF Paying, TypeOK, Requests
  <2>4. Fresh'
    BY DEF Fresh, TypeOK, Requests
  <2>5. LedgerConsistent'
    BY DEF LedgerConsistent, PaidIffPayment, DisputeIsFlagged, Paying, TypeOK
  <2>. QED
    BY <2>1, <2>2, <2>3, <2>4, <2>5
<1>11. CASE Publish(r)
  <2>0. \E stage \in Stages : Goto(r, stage)
    BY <1>11 DEF Publish, Stages
  <2>1. TypeOK'
    BY <1>11, <2>0, OnlyMoves DEF Publish
  <2>. USE <1>11 DEF Publish, Goto
  <2>2. Targeted'
    BY DEF Targeted, TypeOK, Requests, Issued
  <2>3. Paying'
    BY DEF Paying, TypeOK, Requests
  <2>4. Fresh'
    BY DEF Fresh, TypeOK, Requests
  <2>5. LedgerConsistent'
    BY DEF LedgerConsistent, PaidIffPayment, DisputeIsFlagged, Paying, TypeOK
  <2>. QED
    BY <2>1, <2>2, <2>3, <2>4, <2>5
<1>12. CASE StatementFails(r)
  <2>. USE <1>12 DEF StatementFails, Goto, Rollback, Fault, Open
  <2>1. TypeOK'
    BY BillingBoundsAssumption, IdsPairs DEF TypeOK, Stages, Requests, Issued
  <2>2. Targeted'
    BY DEF Targeted, TypeOK, Requests, Issued
  <2>3. Paying'
    BY DEF Paying, TypeOK, Requests
  <2>4. Fresh'
    BY DEF Fresh, TypeOK, Requests
  <2>5. LedgerConsistent'
    BY DEF LedgerConsistent, PaidIffPayment, DisputeIsFlagged, Paying, TypeOK
  <2>. QED
    BY <2>1, <2>2, <2>3, <2>4, <2>5
<1>13. CASE ListFails(r)
  <2>. USE <1>13 DEF ListFails, Listing, Goto, Fault
  <2>1. TypeOK'
    BY BillingBoundsAssumption, IdsPairs DEF TypeOK, Stages, Requests, Issued
  <2>2. Targeted'
    BY DEF Targeted, TypeOK, Requests, Issued
  <2>3. Paying'
    BY DEF Paying, TypeOK, Requests
  <2>4. Fresh'
    BY DEF Fresh, TypeOK, Requests
  <2>5. LedgerConsistent'
    BY DEF LedgerConsistent, PaidIffPayment, DisputeIsFlagged, Paying, TypeOK
  <2>. QED
    BY <2>1, <2>2, <2>3, <2>4, <2>5
<1>. QED
  BY <1>1, <1>2, <1>3, <1>4, <1>5, <1>6, <1>7, <1>8, <1>9, <1>10, <1>11, <1>12, <1>13

(* A payment takes effect. *)
LEMMA CommitPaymentStep ==
  ASSUME LedgerInv, NEW p \in Requests, CommitPayment(p)
  PROVE  LedgerInv'
<1>. USE RequestsAssumption DEF LedgerInv, locals, people
<1>1. /\ p \in Payers /\ at[p] = "written" /\ target[p] \in Ids
      /\ status[target[p]] # "none"
  BY DEF CommitPayment, Targeted, Paying
<1>2. /\ status' = [status EXCEPT ![target[p]] = "paid"]
      /\ paidBy' = paidBy \cup {p}
      /\ UNCHANGED <<number, isDisputed, locals, second, people>>
  BY DEF CommitPayment, PaymentTakesEffect
<1>3. /\ at' \in [Requests -> Stages]
      /\ at'[p] \in {"committed", "failed"}
      /\ \A x \in Requests \ {p} : at'[x] = at[x]
  BY <1>1 DEF CommitPayment, Goto, Rollback, TypeOK, Stages
<1>4. TypeOK'
  <2>1. faults' \in 0 .. MaxFaults
    BY BillingBoundsAssumption DEF CommitPayment, Fault, TypeOK
  <2>2. raced' \subseteq Payers \cup Ids
    BY DEF CommitPayment, PaymentTakesEffect, TypeOK
  <2>. QED
    BY <1>1, <1>2, <1>3, <2>1, <2>2 DEF TypeOK
<1>5. Targeted'
  BY <1>1, <1>2, <1>3 DEF Targeted, TypeOK, Requests
<1>6. Paying'
  BY <1>1, <1>2, <1>3 DEF Paying, TypeOK, Requests
<1>7. Fresh'
  <2>1. \A i \in Ids : status[i] = "none" => status'[i] = "none"
    BY <1>1, <1>2 DEF TypeOK
  <2>2. \A g \in Runs : at'[g] = at[g] /\ todo'[g] \subseteq Accounts /\ current'[g] = current[g]
    BY <1>1, <1>2, <1>3 DEF Requests, TypeOK
  <2>. QED
    BY <1>2, <2>1, <2>2, IdsPairs DEF Fresh, Targeted
<1>8. LedgerConsistent'
  BY <1>1, <1>2 DEF LedgerConsistent, PaidIffPayment, DisputeIsFlagged, TypeOK
<1>. QED
  BY <1>4, <1>5, <1>6, <1>7, <1>8

(* A dispute finds a row that is not paid, and no lock on it. *)
LEMMA WriteDisputeStep ==
  ASSUME LedgerInv, NEW d \in Requests, WriteDispute(d)
  PROVE  LedgerInv'
<1>. USE RequestsAssumption DEF LedgerInv, locals, people
<1>1. /\ d \in Disputers /\ at[d] = "begun" /\ target[d] \in Ids
  BY DEF WriteDispute, Targeted, TypeOK
<1>2. /\ UNCHANGED <<number, paidBy, locals, people, faults, raced>>
      /\ second' = second \ {d}
      /\ \/ /\ status[target[d]] \in Payable
            /\ status' = [status EXCEPT ![target[d]] = "disputed"]
            /\ isDisputed' = [isDisputed EXCEPT ![target[d]] = TRUE]
         \/ UNCHANGED <<status, isDisputed>>
  BY DEF WriteDispute
<1>3. /\ at' \in [Requests -> Stages]
      /\ at'[d] \in {"written", "failed"}
      /\ \A x \in Requests \ {d} : at'[x] = at[x]
  BY <1>1 DEF WriteDispute, Goto, Rollback, TypeOK, Stages
<1>4. TypeOK'
  BY <1>1, <1>2, <1>3 DEF TypeOK
<1>5. Targeted'
  BY <1>1, <1>2, <1>3 DEF Targeted, TypeOK, Requests
<1>6. \A i \in Ids : (status[i] = "none" <=> status'[i] = "none")
                   /\ (status[i] = "paid" <=> status'[i] = "paid")
  BY <1>1, <1>2 DEF TypeOK, Payable
<1>7. Paying'
  BY <1>1, <1>2, <1>3, <1>6 DEF Paying, TypeOK, Requests, Targeted
<1>8. Fresh'
  <2>2. \A g \in Runs : at'[g] = at[g] /\ todo'[g] \subseteq Accounts /\ current'[g] = current[g]
    BY <1>1, <1>2, <1>3 DEF Requests, TypeOK
  <2>. QED
    BY <1>2, <1>6, <2>2, IdsPairs DEF Fresh, Targeted
<1>9. LedgerConsistent'
  <2>1. PaidIffPayment'
    BY <1>2, <1>6 DEF LedgerConsistent, PaidIffPayment
  <2>2. DisputeIsFlagged'
    BY <1>1, <1>2 DEF LedgerConsistent, DisputeIsFlagged, TypeOK
  <2>. QED
    BY <2>1, <2>2 DEF LedgerConsistent
<1>. QED
  BY <1>4, <1>5, <1>7, <1>8, <1>9

(* An invoice takes effect: its row is a new one. *)
LEMMA CommitInvoiceStep ==
  ASSUME LedgerInv, NEW g \in Requests, CommitInvoice(g)
  PROVE  LedgerInv'
<1>. USE RequestsAssumption DEF LedgerInv, locals, people
<1>. DEFINE i == <<g, current[g]>>
<1>1. /\ g \in Runs /\ at[g] = "written" /\ current[g] \in Accounts /\ i \in Ids
      /\ status[i] = "none"
  BY IdsPairs DEF CommitInvoice, Targeted, Fresh
<1>2. /\ status' = [status EXCEPT ![i] = "pending"]
      /\ number' = [number EXCEPT ![i] = numbered[g]]
      /\ UNCHANGED <<isDisputed, paidBy, locals, second, people>>
  BY DEF CommitInvoice, InvoiceTakesEffect
<1>3. /\ at' \in [Requests -> Stages]
      /\ at'[g] \in {"committed", "listed"}
      /\ \A x \in Requests \ {g} : at'[x] = at[x]
  BY <1>1 DEF CommitInvoice, Goto, Rollback, TypeOK, Stages
<1>4. TypeOK'
  <2>1. faults' \in 0 .. MaxFaults
    BY BillingBoundsAssumption DEF CommitInvoice, Fault, TypeOK
  <2>2. raced' \subseteq Payers \cup Ids
    BY <1>1, IdsPairs DEF CommitInvoice, InvoiceTakesEffect, TypeOK
  <2>3. number' \in [Ids -> Nat]
    BY <1>1, <1>2 DEF TypeOK
  <2>4. status' \in [Ids -> {"none", "pending", "disputed", "paid"}]
    BY <1>1, <1>2 DEF TypeOK
  <2>. QED
    BY <1>2, <1>3, <2>1, <2>2, <2>3, <2>4 DEF TypeOK
<1>5. Targeted'
  BY <1>1, <1>2, <1>3 DEF Targeted, TypeOK, Requests
<1>6. Paying'
  <2>1. \A p \in Payers : at'[p] = at[p] /\ target'[p] = target[p]
    BY <1>1, <1>2, <1>3 DEF Requests
  <2>2. \A j \in Ids : status[j] # "none" => status'[j] # "none"
    BY <1>1, <1>2 DEF TypeOK
  <2>. QED
    BY <1>2, <2>1, <2>2 DEF Paying, TypeOK, Targeted
<1>7. Fresh'
  <2>1. \A j \in Ids : j # i => status'[j] = status[j]
    BY <1>2 DEF TypeOK
  <2>2. ASSUME NEW h \in Runs, at'[h] \in {"checked", "numbered", "written"}
        PROVE  /\ at'[h] = at[h] /\ current'[h] = current[h] /\ <<h, current[h]>> \in Ids
               /\ <<h, current[h]>> # i
    BY <1>1, <1>2, <1>3, <2>2, IdsPairs DEF Requests, Targeted
  <2>. QED
    BY <2>1, <2>2 DEF Fresh
<1>8. LedgerConsistent'
  BY <1>1, <1>2 DEF LedgerConsistent, PaidIffPayment, DisputeIsFlagged, TypeOK
<1>. QED
  BY <1>4, <1>5, <1>6, <1>7, <1>8

(* A deleted user takes invoices and payments along. *)
LEMMA DeleteUserStep ==
  ASSUME LedgerInv, NEW u \in Users, DeleteUser(u)
  PROVE  LedgerInv'
<1>. USE RequestsAssumption, IdsPairs DEF LedgerInv, locals, people
<1>1. /\ \A i \in Ids : status'[i] = IF Bills(i, u) THEN "none" ELSE status[i]
      /\ \A i \in Ids : isDisputed'[i] = IF Bills(i, u) THEN FALSE ELSE isDisputed[i]
      /\ paidBy' = {p \in paidBy : ~Bills(target[p], u)}
      /\ UNCHANGED <<at, locals, second, meter, moved, raced>>
  BY DEF DeleteUser
<1>2. TypeOK'
  <2>1. faults' \in 0 .. MaxFaults
    BY BillingBoundsAssumption DEF DeleteUser, Fault, TypeOK
  <2>2. status' \in [Ids -> {"none", "pending", "disputed", "paid"}]
    BY DEF DeleteUser, TypeOK
  <2>3. number' \in [Ids -> Nat] /\ isDisputed' \in [Ids -> BOOLEAN]
    BY DEF DeleteUser, TypeOK
  <2>. QED
    BY <1>1, <2>1, <2>2, <2>3 DEF TypeOK, DeleteUser
<1>3. Targeted'
  BY <1>1 DEF Targeted
<1>4. Paying'
  <2>1. \A p \in Payers : at[p] = "written" => ~Bills(target[p], u)
    BY DEF DeleteUser, Referred, Invoice, Requests
  <2>. QED
    BY <1>1, <2>1 DEF Paying, Targeted
<1>5. Fresh'
  BY <1>1 DEF Fresh, TypeOK, Targeted
<1>6. PaidIffPayment'
  BY <1>1 DEF LedgerConsistent, PaidIffPayment
<1>7. DisputeIsFlagged'
  <2>1. ASSUME NEW i \in Ids
        PROVE  /\ status'[i] = "disputed" => isDisputed'[i]
               /\ isDisputed'[i] => status'[i] \in {"disputed", "paid"}
    <3>1. /\ status[i] = "disputed" => isDisputed[i]
          /\ isDisputed[i] => status[i] \in {"disputed", "paid"}
      BY DEF LedgerConsistent, DisputeIsFlagged
    <3>2. CASE Bills(i, u)
      BY <1>1, <3>2
    <3>3. CASE ~Bills(i, u)
      BY <1>1, <3>1, <3>3
    <3>. QED
      BY <3>2, <3>3
  <2>. QED
    BY <2>1 DEF DisputeIsFlagged
<1>. QED
  BY <1>2, <1>3, <1>4, <1>5, <1>6, <1>7 DEF LedgerConsistent

(* Another meter leaves the tables as they are. *)
LEMMA ChangeMeterStep ==
  ASSUME LedgerInv, NEW u \in Users, NEW m \in Meters \cup {NoMeter}, ChangeMeter(u, m)
  PROVE  LedgerInv'
<1>1. /\ meter' = [meter EXCEPT ![u] = m] /\ moved' \subseteq moved \cup {u}
      /\ UNCHANGED <<tables, at, locals, second, gone, raced>>
      /\ faults' \in 0 .. MaxFaults
  BY BillingBoundsAssumption DEF ChangeMeter, Fault, LedgerInv, TypeOK
<1>2. TypeOK'
  BY <1>1 DEF LedgerInv, TypeOK, tables, locals
<1>3. Targeted' /\ Paying' /\ Fresh'
  BY <1>1 DEF LedgerInv, tables, locals, Targeted, Paying, Fresh
<1>4. LedgerConsistent'
  BY <1>1 DEF LedgerInv, tables, locals, LedgerConsistent, PaidIffPayment, DisputeIsFlagged
<1>. QED
  BY <1>2, <1>3, <1>4 DEF LedgerInv

(* The end of the process leaves the tables as they are. *)
LEMMA CrashStep ==
  ASSUME LedgerInv, Crash
  PROVE  LedgerInv'
<1>. USE DEF LedgerInv, locals, tables, people, Crash
<1>1. at' \in [Requests -> Stages]
  BY DEF TypeOK, Stages
<1>2. \A r \in Requests : at'[r] = at[r] \/ at'[r] = "failed"
  OBVIOUS
<1>3. faults' \in 0 .. MaxFaults
  BY BillingBoundsAssumption DEF Fault, TypeOK
<1>4. TypeOK'
  BY <1>1, <1>3 DEF TypeOK
<1>5. Targeted' /\ Paying' /\ Fresh'
  BY <1>2 DEF Targeted, Paying, Fresh, Requests, TypeOK
<1>6. LedgerConsistent'
  BY DEF LedgerConsistent, PaidIffPayment, DisputeIsFlagged
<1>. QED
  BY <1>4, <1>5, <1>6

(* The ledger's part of the invariant is kept by every step. *)
LEMMA LedgerStep ==
  ASSUME LedgerInv, [Next]_vars
  PROVE  LedgerInv'
<1>1. CASE UNCHANGED vars
  BY <1>1 DEF vars, tables, locals, people, LedgerInv, TypeOK, Targeted, Paying, Fresh,
     LedgerConsistent, PaidIffPayment, DisputeIsFlagged
<1>2. ASSUME NEW r \in Requests, Work(r) \/ StatementFails(r) \/ ListFails(r) PROVE LedgerInv'
  BY <1>2, QuietStep, CommitPaymentStep, WriteDisputeStep, CommitInvoiceStep
     DEF Work, Pay, Dispute, Generate
<1>. QED
  BY <1>1, <1>2, DeleteUserStep, ChangeMeterStep, CrashStep DEF Next

(* The invariant of the ledger holds in every reachable state. *)
LEMMA LedgerInvariant == Spec => []LedgerInv
<1>1. Init => LedgerInv
  BY InitInvariant
<1>. QED
  BY <1>1, LedgerStep, PTL DEF Spec

(* What is stored in every state has the type TypeOK says. *)
THEOREM BillingTypes == Spec => []TypeOK
<1>1. LedgerInv => TypeOK
  BY DEF LedgerInv
<1>. QED
  BY <1>1, LedgerInvariant, PTL

(* An invoice is paid when and only when a payment of it is on record, and  *)
(* disputed only with its flag, whatever overlaps, fails or crashes.        *)
THEOREM LedgerStaysConsistent == Spec => []LedgerConsistent
<1>1. LedgerInv => LedgerConsistent
  BY DEF LedgerInv
<1>. QED
  BY <1>1, LedgerInvariant, PTL

-----------------------------------------------------------------------------
(* The refinement.                                                          *)

LEMMA LedgerInit == Init => Ledger!Init
BY DEF Init, Ledger!Init

(* A step that leaves rows and payments alone is a stutter of the ledger,   *)
(* as long as no payment on record is made out to another invoice.          *)
LEMMA QuietLedger ==
  ASSUME LedgerInv, UNCHANGED <<status, isDisputed, paidBy>>,
         \A p \in paidBy : target'[p] = target[p]
  PROVE  UNCHANGED Ledger!ledger
BY DEF Ledger!ledger

(* Every step of Billing is a step of the ledger or none. *)
LEMMA LedgerSimulation ==
  ASSUME LedgerInv, [Next]_vars
  PROVE  [Ledger!Next]_(Ledger!ledger)
<1>. USE RequestsAssumption DEF LedgerInv
<1>1. CASE UNCHANGED vars
  BY <1>1, QuietLedger DEF vars, tables, locals, people
<1>2. ASSUME NEW r \in Requests,
             \/ CheckInvoice(r) \/ WritePayment(r) \/ TakeSecond(r)
             \/ CommitDispute(r) \/ ListUsers(r) \/ NextUser(r) \/ CheckPeriod(r)
             \/ TakeNumber(r) \/ InsertInvoice(r) \/ Publish(r) \/ StatementFails(r) \/ ListFails(r)
      PROVE  UNCHANGED Ledger!ledger
  <2>1. UNCHANGED <<status, isDisputed, paidBy, target>>
    BY <1>2 DEF CheckInvoice, WritePayment, TakeSecond, CommitDispute, ListUsers, NextUser,
                CheckPeriod, TakeNumber, InsertInvoice, Publish, StatementFails, ListFails, Listing, tables, locals
  <2>. QED
    BY <2>1, QuietLedger
<1>3. ASSUME NEW r \in Requests, Connect(r) PROVE UNCHANGED Ledger!ledger
  <2>1. UNCHANGED <<status, isDisputed, paidBy>> /\ r \notin paidBy
    BY <1>3 DEF Connect, Paying, tables
  <2>2. \A p \in paidBy : target'[p] = target[p]
    BY <1>3, <2>1 DEF Connect, TypeOK
  <2>. QED
    BY <2>1, <2>2, QuietLedger
<1>4. ASSUME NEW p \in Requests, CommitPayment(p) PROVE Ledger!Next
  <2>1. /\ p \in Payers /\ target[p] \in Ids /\ status[target[p]] # "none"
    BY <1>4 DEF CommitPayment, Targeted, Paying
  <2>2. /\ status' = [status EXCEPT ![target[p]] = "paid"]
        /\ paidBy' = paidBy \cup {p}
        /\ UNCHANGED <<isDisputed, target>>
    BY <1>4 DEF CommitPayment, PaymentTakesEffect, locals
  <2>3. {<<q, target'[q]>> : q \in paidBy'} = {<<q, target[q]>> : q \in paidBy} \cup {<<p, target[p]>>}
    BY <2>2
  <2>4. {<<q, target'[q]>> : q \in paidBy'} = {<<q, target[q]>> : q \in paidBy} \cup {<<p, target[p]>>}
        /\ status[target[p]] # "none"
        /\ status' = [status EXCEPT ![target[p]] = "paid"]
        /\ isDisputed' = isDisputed
    BY <2>1, <2>2, <2>3
  <2>. QED
    BY <2>1, <2>4 DEF Ledger!Pay, Ledger!Next
<1>5. ASSUME NEW d \in Requests, WriteDispute(d)
      PROVE  Ledger!Dispute(target[d]) \/ UNCHANGED Ledger!ledger
  <2>1. UNCHANGED <<paidBy, target>>
    BY <1>5 DEF WriteDispute, locals
  <2>2. CASE status[target[d]] \in Payable
    BY <1>5, <2>1, <2>2 DEF WriteDispute, Ledger!Dispute, Payable
  <2>3. CASE status[target[d]] \notin Payable
    BY <1>5, <2>1, <2>3, QuietLedger DEF WriteDispute
  <2>. QED
    BY <2>2, <2>3
<1>6. ASSUME NEW g \in Requests, CommitInvoice(g) PROVE Ledger!Issue(<<g, current[g]>>)
  <2>1. status[<<g, current[g]>>] = "none"
    BY <1>6 DEF CommitInvoice, Fresh
  <2>. QED
    BY <1>6, <2>1 DEF CommitInvoice, InvoiceTakesEffect, Ledger!Issue, locals
<1>7. ASSUME NEW u \in Users, DeleteUser(u),
             NEW rows, rows = {i \in Ids : status[i] # "none" /\ Bills(i, u)}
      PROVE  Ledger!Remove(rows)
  <2>1. \A p \in paidBy : target[p] \in Ids /\ (target[p] \in rows <=> Bills(target[p], u))
    BY <1>7 DEF Paying, LedgerConsistent, PaidIffPayment
  <2>2. status' = [i \in Ids |-> IF i \in rows THEN "none" ELSE status[i]]
    BY <1>7 DEF DeleteUser, TypeOK
  <2>3. isDisputed' = [i \in Ids |-> IF i \in rows THEN FALSE ELSE isDisputed[i]]
    <3>1. \A i \in Ids : isDisputed[i] => status[i] # "none"
      BY DEF LedgerConsistent, DisputeIsFlagged
    <3>2. \A i \in Ids : (IF Bills(i, u) THEN FALSE ELSE isDisputed[i])
                        = (IF i \in rows THEN FALSE ELSE isDisputed[i])
      BY <1>7, <3>1 DEF TypeOK
    <3>3. isDisputed' = [i \in Ids |-> IF Bills(i, u) THEN FALSE ELSE isDisputed[i]]
      BY <1>7 DEF DeleteUser
    <3>. QED
      BY <3>2, <3>3, Zenon
  <2>4. paidBy' = {p \in paidBy : ~Bills(target[p], u)} /\ target' = target
    BY <1>7 DEF DeleteUser, locals
  <2>5. {<<p, target'[p]>> : p \in paidBy'} = {x \in {<<p, target[p]>> : p \in paidBy} : x[2] \notin rows}
    BY <2>1, <2>4
  <2>. QED
    BY <2>2, <2>3, <2>5, Zenon DEF Ledger!Remove
<1>8. ASSUME Crash PROVE UNCHANGED Ledger!ledger
  BY <1>8, QuietLedger DEF Crash, tables, locals
<1>. QED
  <2>1. ASSUME NEW r \in Requests, Work(r) \/ StatementFails(r) \/ ListFails(r)
        PROVE  Ledger!Next \/ UNCHANGED Ledger!ledger
    <3>1. CASE CommitPayment(r)
      BY <3>1, <1>4
    <3>2. CASE WriteDispute(r)
      <4>1. target[r] \in Ids
        BY <3>2 DEF WriteDispute, Targeted, TypeOK
      <4>. QED
        BY <3>2, <4>1, <1>5 DEF Ledger!Next
    <3>3. CASE CommitInvoice(r)
      <4>1. <<r, current[r]>> \in Ids
        BY <3>3, IdsPairs DEF CommitInvoice, Targeted
      <4>. QED
        BY <3>3, <4>1, <1>6 DEF Ledger!Next
    <3>. QED
      BY <2>1, <3>1, <3>2, <3>3, <1>2, <1>3 DEF Work, Pay, Dispute, Generate
  <2>2. ASSUME NEW u \in Users, DeleteUser(u) PROVE Ledger!Next
    <3>1. PICK rows : rows = {i \in Ids : status[i] # "none" /\ Bills(i, u)}
      OBVIOUS
    <3>2. rows \in SUBSET {i \in Ids : status[i] # "none"}
      BY <3>1
    <3>3. Ledger!Remove(rows)
      BY <2>2, <3>1, <1>7
    <3>. QED
      BY <3>2, <3>3 DEF Ledger!Next
  <2>3. ASSUME NEW u \in Users, NEW m \in Meters \cup {NoMeter}, ChangeMeter(u, m)
        PROVE  UNCHANGED Ledger!ledger
    BY <2>3, QuietLedger DEF ChangeMeter, tables, locals
  <2>. QED
    BY <1>1, <1>8, <2>1, <2>2, <2>3 DEF Next

(* Whatever overlaps, fails or crashes, the tables change as if every       *)
(* payment, dispute, generation and deletion were one step of the ledger.   *)
THEOREM BillingImplementsLedger == Spec => ImplementsLedger
<1>1. Init => Ledger!Init
  BY LedgerInit
<1>2. LedgerInv /\ [Next]_vars => [Ledger!Next]_(Ledger!ledger)
  BY LedgerSimulation
<1>. QED
  BY <1>1, <1>2, LedgerInvariant, PTL DEF Spec, ImplementsLedger, Ledger!Spec

-----------------------------------------------------------------------------
(* Races.                                                                   *)

(* A step that commits nothing. *)
LEMMA QuietRace ==
  ASSUME LedgerInv, RaceInv, NEW r \in Requests,
         \/ Connect(r) \/ CheckInvoice(r) \/ WritePayment(r) \/ TakeSecond(r)
         \/ CommitDispute(r) \/ ListUsers(r) \/ NextUser(r) \/ CheckPeriod(r)
         \/ TakeNumber(r) \/ InsertInvoice(r) \/ Publish(r) \/ StatementFails(r) \/ ListFails(r)
  PROVE  RaceInv'
<1>. USE RequestsAssumption DEF LedgerInv, RaceInv
<1>1. UNCHANGED <<status, paidBy, raced>>
  BY DEF Connect, CheckInvoice, WritePayment, TakeSecond, CommitDispute, ListUsers, NextUser,
         CheckPeriod, TakeNumber, InsertInvoice, Publish, StatementFails, ListFails, Listing, tables
<1>2. Issued' = Issued
  BY <1>1 DEF Issued
<1>3. \A x \in Requests \ {r} : at'[x] = at[x]
  BY DEF Connect, CheckInvoice, WritePayment, TakeSecond, CommitDispute, ListUsers, NextUser,
         CheckPeriod, TakeNumber, InsertInvoice, Publish, StatementFails, ListFails, Listing, Goto, Rollback, TypeOK
<1>4. \A x \in Payers : /\ x # r \/ at[r] # "ready" => target'[x] = target[x]
                        /\ x \in paidBy => at[x] # "ready"
  BY DEF Connect, CheckInvoice, WritePayment, TakeSecond, CommitDispute, ListUsers, NextUser,
         CheckPeriod, TakeNumber, InsertInvoice, Publish, StatementFails, ListFails, Listing, locals, TypeOK, Paying
<1>5. \A x \in Runs : x # r \/ at[r] # "listed" => current'[x] = current[x]
  BY DEF Connect, CheckInvoice, WritePayment, TakeSecond, CommitDispute, ListUsers, NextUser,
         CheckPeriod, TakeNumber, InsertInvoice, Publish, StatementFails, ListFails, Listing, locals, TypeOK
<1>6. ASSUME r \in Payers, at'[r] \in {"checked", "written"}
      PROVE  \/ at[r] \in {"checked", "written"}
             \/ at[r] = "begun" /\ status[target[r]] # "paid"
  BY <1>6 DEF Connect, CheckInvoice, WritePayment, TakeSecond, CommitDispute, ListUsers, NextUser,
         CheckPeriod, TakeNumber, InsertInvoice, Publish, StatementFails, ListFails, Listing, Goto, Rollback, TypeOK,
         Payable, Requests
<1>7. ASSUME r \in Runs, at'[r] \in {"checked", "numbered", "written"}
      PROVE  \/ at[r] \in {"checked", "numbered", "written"}
             \/ at[r] = "begun" /\ ~\E i \in Issued : i[2] = current[r]
  BY <1>7 DEF Connect, CheckInvoice, WritePayment, TakeSecond, CommitDispute, ListUsers, NextUser,
         CheckPeriod, TakeNumber, InsertInvoice, Publish, StatementFails, ListFails, Listing, Goto, Rollback, TypeOK,
         Requests
<1>8. ASSUME NEW p \in Payers, NEW q \in paidBy,
             at'[p] \in {"checked", "written"}, target[q] = target'[p]
      PROVE  p \in raced
  <2>1. CASE p = r
    <3>1. at[r] # "ready" /\ target'[p] = target[p]
      BY <1>4, <1>6, <1>8, <2>1
    <3>2. at[p] = "begun" => target[p] \in Ids /\ status[target[p]] = "paid"
      BY <1>8, <3>1 DEF Targeted, LedgerConsistent, PaidIffPayment
    <3>. QED
      BY <1>6, <1>8, <2>1, <3>1, <3>2 DEF Noted
  <2>2. CASE p # r
    BY <1>3, <1>4, <1>8, <2>2 DEF Noted, Requests
  <2>. QED
    BY <2>1, <2>2
<1>9. ASSUME NEW g \in Runs, NEW i \in Issued,
             at'[g] \in {"checked", "numbered", "written"}, i[2] = current'[g]
      PROVE  <<g, current'[g]>> \in raced
  <2>1. CASE g = r
    BY <1>5, <1>7, <1>9, <2>1 DEF Noted
  <2>2. CASE g # r
    BY <1>3, <1>5, <1>9, <2>2 DEF Noted, Requests
  <2>. QED
    BY <2>1, <2>2
<1>10. Noted'
  <2>1. \A q \in paidBy : target'[q] = target[q]
    BY <1>4 DEF TypeOK
  <2>. QED
    BY <1>1, <1>2, <1>8, <1>9, <2>1 DEF Noted
<1>11. OnlyByRace'
  <2>1. \A q \in paidBy : target'[q] = target[q]
    BY <1>4 DEF TypeOK
  <2>. QED
    BY <1>1, <1>2, <2>1 DEF OnlyByRace, PaidTwiceOnlyByRace, BilledTwiceOnlyByRace
<1>. QED
  BY <1>10, <1>11

(* Every step notes what it overtakes. *)
LEMMA RaceStep ==
  ASSUME LedgerInv, RaceInv, [Next]_vars
  PROVE  RaceInv'
<1>. USE RequestsAssumption DEF LedgerInv, RaceInv
<1>1. CASE UNCHANGED vars
  BY <1>1 DEF vars, tables, locals, people, Issued, Noted, OnlyByRace, PaidTwiceOnlyByRace,
              BilledTwiceOnlyByRace
<1>2. ASSUME NEW p \in Requests, CommitPayment(p) PROVE RaceInv'
  <2>1. /\ p \in Payers /\ at[p] = "written" /\ target[p] \in Ids
        /\ status[target[p]] # "none"
    BY <1>2 DEF CommitPayment, Targeted, Paying
  <2>2. /\ status' = [status EXCEPT ![target[p]] = "paid"] /\ paidBy' = paidBy \cup {p}
        /\ target' = target /\ current' = current
        /\ raced \subseteq raced'
        /\ \A q \in Payers \ {p} : at[q] \in {"checked", "written"} /\ target[q] = target[p] =>
             q \in raced'
    BY <1>2 DEF CommitPayment, PaymentTakesEffect, locals
  <2>3. /\ at'[p] \in {"committed", "failed"}
        /\ \A x \in Requests \ {p} : at'[x] = at[x]
    BY <1>2, <2>1 DEF CommitPayment, Goto, Rollback, TypeOK
  <2>4. Issued' = Issued
    BY <2>1, <2>2 DEF Issued, TypeOK
  <2>5. Noted'
    <3>1. \A q \in Payers, c \in paidBy' :
            at'[q] \in {"checked", "written"} /\ target[c] = target[q] => q \in raced'
      BY <2>1, <2>2, <2>3 DEF Noted, Requests
    <3>2. \A g \in Runs : at'[g] = at[g]
      BY <2>1, <2>3 DEF Requests
    <3>. QED
      BY <2>2, <2>4, <3>1, <3>2 DEF Noted
  <2>6. OnlyByRace'
    BY <2>1, <2>2, <2>4 DEF Noted, OnlyByRace, PaidTwiceOnlyByRace, BilledTwiceOnlyByRace
  <2>. QED
    BY <2>5, <2>6
<1>3. ASSUME NEW d \in Requests, WriteDispute(d) PROVE RaceInv'
  <2>1. /\ d \in Disputers /\ target[d] \in Ids
        /\ \A x \in Requests \ {d} : at'[x] = at[x]
        /\ UNCHANGED <<paidBy, locals, raced>>
    BY <1>3 DEF WriteDispute, Goto, Rollback, Targeted, TypeOK
  <2>2. Issued' = Issued
    BY <1>3, <2>1 DEF WriteDispute, Issued, Payable, TypeOK
  <2>3. \A x \in Payers \cup Runs : at'[x] = at[x]
    BY <2>1 DEF Requests
  <2>. QED
    BY <2>1, <2>2, <2>3 DEF locals, Noted, OnlyByRace, PaidTwiceOnlyByRace,
                            BilledTwiceOnlyByRace
<1>4. ASSUME NEW g \in Requests, CommitInvoice(g) PROVE RaceInv'
  <2>1. /\ g \in Runs /\ at[g] = "written" /\ current[g] \in Accounts /\ <<g, current[g]>> \in Ids
    BY <1>4, IdsPairs DEF CommitInvoice, Targeted
  <2>2. /\ status' = [status EXCEPT ![<<g, current[g]>>] = "pending"]
        /\ paidBy' = paidBy /\ target' = target /\ current' = current
        /\ raced \subseteq raced'
        /\ \A h \in Runs \ {g} : current[h] = current[g] /\ at[h] \in {"checked", "numbered", "written"} =>
             <<h, current[h]>> \in raced'
    BY <1>4 DEF CommitInvoice, InvoiceTakesEffect, locals
  <2>3. /\ at'[g] \in {"committed", "listed"}
        /\ \A x \in Requests \ {g} : at'[x] = at[x]
    BY <1>4, <2>1 DEF CommitInvoice, Goto, Rollback, TypeOK
  <2>4. Issued' = Issued \cup {<<g, current[g]>>}
    BY <2>1, <2>2 DEF Issued, TypeOK
  <2>5. \A p \in Payers : at'[p] = at[p]
    BY <2>1, <2>3 DEF Requests
  <2>6. \A h \in Runs, i \in Issued' :
          at'[h] \in {"checked", "numbered", "written"} /\ i[2] = current[h] =>
            <<h, current[h]>> \in raced'
    BY <2>1, <2>2, <2>3, <2>4 DEF Noted, Requests
  <2>7. Noted'
    BY <2>2, <2>5, <2>6 DEF Noted
  <2>8. PaidTwiceOnlyByRace'
    BY <2>2 DEF OnlyByRace, PaidTwiceOnlyByRace
  <2>9. BilledTwiceOnlyByRace'
    BY <2>1, <2>2, <2>4 DEF Noted, OnlyByRace, BilledTwiceOnlyByRace
  <2>. QED
    BY <2>7, <2>8, <2>9 DEF OnlyByRace
<1>5. ASSUME NEW u \in Users, DeleteUser(u) PROVE RaceInv'
  <2>1. /\ paidBy' \subseteq paidBy /\ UNCHANGED <<at, target, current, raced>>
        /\ Issued' \subseteq Issued
    BY <1>5 DEF DeleteUser, locals, Issued
  <2>. QED
    BY <2>1 DEF Noted, OnlyByRace, PaidTwiceOnlyByRace, BilledTwiceOnlyByRace
<1>6. ASSUME NEW u \in Users, NEW m \in Meters \cup {NoMeter}, ChangeMeter(u, m) PROVE RaceInv'
  <2>1. UNCHANGED <<at, paidBy, target, current, raced>> /\ Issued' = Issued
    BY <1>6 DEF ChangeMeter, tables, locals, Issued
  <2>. QED
    BY <2>1 DEF Noted, OnlyByRace, PaidTwiceOnlyByRace, BilledTwiceOnlyByRace
<1>8. ASSUME Crash PROVE RaceInv'
  <2>1. UNCHANGED <<status, paidBy, target, current, raced>> /\ Issued' = Issued
    BY <1>8 DEF Crash, tables, locals, Issued
  <2>2. \A r \in Requests : at'[r] = at[r] \/ at'[r] = "failed"
    BY <1>8 DEF Crash
  <2>. QED
    BY <2>1, <2>2 DEF Noted, OnlyByRace, PaidTwiceOnlyByRace, BilledTwiceOnlyByRace, Requests
<1>7. ASSUME NEW r \in Requests, Work(r) \/ StatementFails(r) \/ ListFails(r) PROVE RaceInv'
  BY <1>2, <1>3, <1>4, <1>7, QuietRace DEF Work, Pay, Dispute, Generate
<1>. QED
  BY <1>1, <1>5, <1>6, <1>7, <1>8 DEF Next

(* A change of meter is noted for all that was listed and billed before. *)
LEMMA KeptStep ==
  ASSUME LedgerInv, [Next]_vars, NEW a \in Accounts, Kept(a)
  PROVE  Kept(a)'
<1>1. CASE UNCHANGED <<meter, moved>>
  BY <1>1 DEF Kept
<1>2. ASSUME NEW u \in Users, NEW m \in Meters \cup {NoMeter}, ChangeMeter(u, m)
      PROVE  Kept(a)'
  <2>1. /\ meter' = [meter EXCEPT ![u] = m] /\ moved \subseteq moved'
        /\ meter[u] \in Meters => u \in moved'
    BY <1>2 DEF ChangeMeter
  <2>2. a[1] \in Users /\ a[2] \in Meters /\ meter[a[1]] \in Meters \cup {NoMeter}
    BY IdsPairs DEF LedgerInv, TypeOK
  <2>. QED
    BY <2>1, <2>2, MetersAssumption DEF Kept, LedgerInv, TypeOK
<1>3. ASSUME NEW r \in Requests, Work(r) \/ StatementFails(r) \/ ListFails(r)
      PROVE  UNCHANGED <<meter, moved>>
  BY <1>3 DEF Work, Connect, Pay, CheckInvoice, WritePayment, CommitPayment, Dispute, TakeSecond,
       WriteDispute, CommitDispute, Generate, ListUsers, NextUser, CheckPeriod, TakeNumber,
       InsertInvoice, CommitInvoice, Publish, StatementFails, ListFails, people
<1>4. ASSUME NEW u \in Users, DeleteUser(u) PROVE UNCHANGED <<meter, moved>>
  BY <1>4 DEF DeleteUser
<1>5. CASE Crash \/ UNCHANGED vars
  BY <1>1, <1>5 DEF Crash, vars, people
<1>. QED
  BY <1>1, <1>2, <1>3, <1>4, <1>5 DEF Next

(* What a run lists and bills is a user with the meter he has, or had. *)
LEMMA SteadyStep ==
  ASSUME LedgerInv, Steady, [Next]_vars
  PROVE  Steady'
<1>. USE RequestsAssumption DEF LedgerInv
<1>. DEFINE Busy == {"begun", "checked", "numbered", "written"}
<1>1. ASSUME \A g \in Runs : todo'[g] \subseteq todo[g],
             \A g \in Runs : at'[g] \in Busy =>
                \/ at[g] \in Busy /\ current'[g] = current[g]
                \/ current'[g] \in todo[g],
             \A i \in Issued' : i \in Issued \/ (i[1] \in Runs /\ at[i[1]] \in Busy /\ i[2] = current[i[1]])
      PROVE  Steady'
  <2>1. ASSUME NEW g \in Runs, NEW a \in todo'[g] PROVE Kept(a)'
    BY <1>1, <2>1, KeptStep DEF Steady, TypeOK
  <2>2. ASSUME NEW g \in Runs, at'[g] \in Busy PROVE Kept(current[g])'
    <3>1. PICK a \in Accounts : a = current'[g] /\ Kept(a)
      BY <1>1, <2>2 DEF Steady, Targeted, TypeOK
    <3>2. Kept(a)'
      BY <3>1, KeptStep
    <3>. QED
      BY <3>1, <3>2 DEF Kept
  <2>3. ASSUME NEW i \in Issued' PROVE Kept(i[2])'
    <3>1. i[2] \in Accounts /\ Kept(i[2])
      BY <1>1, IdsPairs DEF Steady, Targeted, Issued
    <3>. QED
      BY <3>1, KeptStep
  <2>. QED
    BY <2>1, <2>2, <2>3 DEF Steady
<1>2. ASSUME NEW g \in Runs, ListUsers(g) PROVE Steady'
  <2>1. PICK region : todo' = [todo EXCEPT ![g] = Covered(region)]
    BY <1>2 DEF ListUsers
  <2>2. /\ at'[g] = "listed" /\ \A h \in Runs \ {g} : at'[h] = at[h]
        /\ UNCHANGED <<current, meter, moved>> /\ Issued' = Issued
    BY <1>2 DEF ListUsers, Listing, Goto, TypeOK, Requests, tables, people, Issued
  <2>3. \A a \in Covered(region) : Kept(a)
    BY DEF Covered, Kept
  <2>4. ASSUME NEW h \in Runs, NEW a \in todo'[h] PROVE Kept(a)
    BY <2>1, <2>3, <2>4 DEF Steady, TypeOK
  <2>. QED
    BY <2>2, <2>4 DEF Steady, Kept
<1>3. ASSUME NEW g \in Runs, NextUser(g) PROVE Steady'
  <2>1. PICK a : \/ /\ a \in todo[g]
                    /\ todo' = [todo EXCEPT ![g] = @ \ {a}]
                    /\ current' = [current EXCEPT ![g] = a]
                 \/ /\ current' = [current EXCEPT ![g] = NoUser]
                    /\ todo' = todo
                    /\ Goto(g, "succeeded")
    BY <1>3 DEF NextUser
  <2>2. Issued' = Issued /\ \A h \in Runs \ {g} : at'[h] = at[h]
    BY <1>3 DEF NextUser, tables, Issued, Goto, TypeOK, Requests
  <2>3. at'[g] = "succeeded" \/ (at'[g] = "begun" /\ current'[g] = a /\ a \in todo[g])
    BY <1>3, <2>1 DEF NextUser, Goto, TypeOK, Requests
  <2>4. \A h \in Runs : todo'[h] \subseteq todo[h]
    BY <2>1 DEF TypeOK
  <2>5. \A h \in Runs \ {g} : current'[h] = current[h]
    BY <2>1 DEF TypeOK
  <2>. QED
    BY <1>1, <2>2, <2>3, <2>4, <2>5
<1>4. ASSUME NEW r \in Requests,
             \/ Connect(r) \/ Pay(r) \/ Dispute(r) \/ CheckPeriod(r) \/ TakeNumber(r)
             \/ InsertInvoice(r) \/ Publish(r) \/ StatementFails(r) \/ ListFails(r)
      PROVE  Steady'
  <2>1. UNCHANGED <<todo, current>>
    BY <1>4 DEF Connect, Pay, CheckInvoice, WritePayment, CommitPayment, Dispute, TakeSecond,
         WriteDispute, CommitDispute, CheckPeriod, TakeNumber, InsertInvoice, Publish,
         StatementFails, ListFails, locals
  <2>2. ASSUME NEW g \in Runs, at'[g] \in Busy PROVE at[g] \in Busy
    BY <1>4, <2>2 DEF Connect, Pay, CheckInvoice, WritePayment, CommitPayment, Dispute, TakeSecond,
         WriteDispute, CommitDispute, CheckPeriod, TakeNumber, InsertInvoice, Publish,
         StatementFails, ListFails, Listing, Goto, Rollback, Requests, TypeOK
  <2>3. Issued' = Issued
    BY <1>4 DEF Connect, Pay, CheckInvoice, WritePayment, CommitPayment, PaymentTakesEffect, Dispute,
         TakeSecond, WriteDispute, CommitDispute, CheckPeriod, TakeNumber, InsertInvoice, Publish,
         StatementFails, ListFails, tables, Issued, Payable, Paying, TypeOK
  <2>. QED
    BY <1>1, <2>1, <2>2, <2>3
<1>5. ASSUME NEW g \in Runs, CommitInvoice(g) PROVE Steady'
  <2>1. /\ at[g] = "written" /\ <<g, current[g]>> \in Ids /\ UNCHANGED <<todo, current>>
        /\ status' = [status EXCEPT ![<<g, current[g]>>] = "pending"]
        /\ at'[g] \notin Busy /\ \A h \in Runs \ {g} : at'[h] = at[h]
    BY <1>5, IdsPairs DEF CommitInvoice, InvoiceTakesEffect, Targeted, locals, Goto, Rollback,
         TypeOK, Requests
  <2>2. Issued' = Issued \cup {<<g, current[g]>>}
    BY <2>1 DEF Issued, TypeOK
  <2>. QED
    BY <1>1, <2>1, <2>2
<1>6. ASSUME NEW u \in Users, DeleteUser(u) PROVE Steady'
  <2>1. UNCHANGED <<at, todo, current>> /\ Issued' \subseteq Issued
    BY <1>6 DEF DeleteUser, locals, Issued
  <2>. QED
    BY <1>1, <2>1
<1>7. ASSUME NEW u \in Users, NEW m \in Meters \cup {NoMeter}, ChangeMeter(u, m) PROVE Steady'
  <2>1. UNCHANGED <<at, todo, current>> /\ Issued' = Issued
    BY <1>7 DEF ChangeMeter, tables, locals, Issued
  <2>. QED
    BY <1>1, <2>1
<1>8. CASE Crash \/ UNCHANGED vars
  <2>1. UNCHANGED <<todo, current>> /\ Issued' = Issued
    BY <1>8 DEF Crash, vars, tables, locals, Issued
  <2>2. \A g \in Runs : at'[g] = at[g] \/ at'[g] = "failed"
    BY <1>8 DEF Crash, vars, Requests
  <2>. QED
    BY <1>1, <2>1, <2>2
<1>9. ASSUME NEW r \in Requests, Work(r) \/ StatementFails(r) \/ ListFails(r) PROVE Steady'
  BY <1>2, <1>3, <1>4, <1>5, <1>9 DEF Work, Generate, ListUsers, Listing, NextUser, CommitInvoice
<1>. QED
  BY <1>6, <1>7, <1>8, <1>9 DEF Next

(* Two payments of an invoice, or two invoices of a user and a meter for    *)
(* the month, are committed only if one was checked before the other's      *)
(* commit; and two invoices of a user with different meters only when a     *)
(* meter he had was changed or taken away.                                  *)
THEOREM TwiceOnlyThroughRaces == Spec => []TwiceOnlyByRace
<1>1. Init => LedgerInv /\ RaceInv /\ Steady
  BY InitInvariant
<1>2. LedgerInv /\ RaceInv /\ Steady => TwiceOnlyByRace
  <2>. SUFFICES ASSUME LedgerInv, Steady, NEW i \in Issued, NEW j \in Issued,
                       i[2][1] = j[2][1], i[2] # j[2]
                PROVE  i[2][1] \in moved
    BY DEF RaceInv, OnlyByRace, TwiceOnlyByRace, BilledAgainOnlyIfMoved
  <2>1. i[2] \in Accounts /\ j[2] \in Accounts
    BY IdsPairs DEF Issued
  <2>2. i[2][2] # j[2][2]
    BY <2>1, IdsPairs
  <2>3. Kept(i[2]) /\ Kept(j[2])
    BY DEF Steady
  <2>. QED
    BY <2>2, <2>3 DEF Kept
<1>. QED
  BY <1>1, <1>2, LedgerStep, RaceStep, SteadyStep, PTL DEF Spec

-----------------------------------------------------------------------------
(* Numbers.                                                                 *)

(* There are no more invoices than numbers. *)
LEMMA IssuedBounded ==
  ASSUME TypeOK, NumberingSound
  PROVE  Cardinality(Issued) <= Capacity
<1>. USE NumberingAssumption, IssuedFinite
<1>. DEFINE f == [i \in Issued |-> number[i]]
<1>1. f \in Injection(Issued, 1 .. Capacity)
  BY DEF NumberingSound, NumbersUnique, NumbersFit, Injection, IsInjective
<1>2. IsFiniteSet(1 .. Capacity) /\ Cardinality(1 .. Capacity) = Capacity
  BY FS_Interval
<1>. HIDE DEF f
<1>3. Cardinality(Issued) <= Cardinality(1 .. Capacity)
  BY <1>1, <1>2, FS_Injection, Zenon
<1>. QED
  BY <1>2, <1>3

(* A step that commits nothing, but the two that make a number. *)
LEMMA QuietNumbers ==
  ASSUME LedgerInv, NumberInv,
         UNCHANGED <<number, gone>>, Issued' = Issued,
         \A g \in Runs : at'[g] = "numbered" => at[g] = "numbered" /\ numbered'[g] = numbered[g],
         \A g \in Runs : at'[g] = "written" => at[g] = "written" /\ numbered'[g] = numbered[g]
  PROVE  NumberInv'
<1>. USE DEF NumberInv
<1>1. NumberingSound'
  BY DEF NumberingSound, NumbersUnique, NumbersHaveNoGap, NumbersFit
<1>2. \A n : NumberTaken(n)' <=> NumberTaken(n)
  BY DEF NumberTaken
<1>3. Cardinality(Issued)' = Cardinality(Issued)
  OBVIOUS
<1>4. \A g \in Runs : at'[g] \in {"numbered", "written"} => numbered'[g] \in 1 .. Capacity
  BY DEF Numbering
<1>5. gone' = {} => \A g \in Runs : at'[g] \in {"numbered", "written"} =>
        numbered'[g] <= Cardinality(Issued)' + 1
  BY <1>3 DEF Numbering
<1>6. \A g \in Runs : at'[g] = "written" =>
        /\ ~NumberTaken(numbered[g])'
        /\ \A h \in Runs \ {g} : at'[h] = "written" => numbered'[g] # numbered'[h]
  BY <1>2 DEF Numbering
<1>. QED
  BY <1>1, <1>4, <1>5, <1>6 DEF Numbering

LEMMA TakeNumberStep ==
  ASSUME LedgerInv, NumberInv, NEW g \in Runs, TakeNumber(g)
  PROVE  NumberInv'
<1>. USE RequestsAssumption DEF NumberInv, LedgerInv
<1>. DEFINE c == Cardinality(Issued)
<1>1. /\ UNCHANGED <<status, number, gone>>
      /\ numbered' = [numbered EXCEPT ![g] = Lpad(c + 1)]
      /\ at'[g] = "numbered" /\ \A h \in Runs \ {g} : at'[h] = at[h]
  BY DEF TakeNumber, Goto, tables, people, TypeOK, Requests
<1>2. Issued' = Issued /\ Cardinality(Issued)' = c
  BY <1>1 DEF Issued
<1>3. c \in Nat /\ c <= Capacity
  BY IssuedBounded, IssuedFinite
<1>. HIDE DEF c
<1>4. Lpad(c + 1) \in 1 .. Capacity /\ Lpad(c + 1) <= c + 1
  BY <1>3, LpadType, NumberingAssumption
<1>5. numbered'[g] = Lpad(c + 1) /\ \A h \in Runs \ {g} : numbered'[h] = numbered[h]
  BY <1>1 DEF TypeOK
<1>6. NumberingSound'
  BY <1>1, <1>2 DEF NumberingSound, NumbersUnique, NumbersHaveNoGap, NumbersFit
<1>7. \A n : NumberTaken(n)' <=> NumberTaken(n)
  BY <1>1, <1>2 DEF NumberTaken
<1>8. \A h \in Runs : at'[h] \in {"numbered", "written"} => numbered'[h] \in 1 .. Capacity
  BY <1>1, <1>4, <1>5 DEF Numbering
<1>9. gone' = {} => \A h \in Runs : at'[h] \in {"numbered", "written"} =>
        numbered'[h] <= Cardinality(Issued)' + 1
  BY <1>1, <1>2, <1>4, <1>5 DEF Numbering, c
<1>10. \A h \in Runs : at'[h] = "written" => h # g
  BY <1>1
<1>11. \A h \in Runs : at'[h] = "written" =>
        /\ ~NumberTaken(numbered[h])'
        /\ \A k \in Runs \ {h} : at'[k] = "written" => numbered'[h] # numbered'[k]
  BY <1>1, <1>5, <1>7, <1>10 DEF Numbering
<1>. QED
  BY <1>6, <1>8, <1>9, <1>11 DEF Numbering

LEMMA InsertInvoiceStep ==
  ASSUME LedgerInv, NumberInv, NEW g \in Runs, InsertInvoice(g)
  PROVE  NumberInv'
<1>. USE RequestsAssumption DEF NumberInv, LedgerInv
<1>1. /\ UNCHANGED <<status, number, numbered, gone>> /\ at[g] = "numbered"
      /\ at'[g] \in {"written", "listed"}
      /\ at'[g] = "written" => ~NumberTaken(numbered[g])
      /\ \A h \in Runs : at[h] = "written" => numbered[h] # numbered[g]
      /\ \A h \in Runs \ {g} : at'[h] = at[h]
  BY DEF InsertInvoice, Goto, Rollback, tables, locals, people, TypeOK, Requests
<1>2. Issued' = Issued /\ Cardinality(Issued)' = Cardinality(Issued)
  BY <1>1 DEF Issued
<1>3. NumberingSound'
  BY <1>1, <1>2 DEF NumberingSound, NumbersUnique, NumbersHaveNoGap, NumbersFit
<1>4. \A n : NumberTaken(n)' <=> NumberTaken(n)
  BY <1>1, <1>2 DEF NumberTaken
<1>5. \A h \in Runs : at'[h] \in {"numbered", "written"} => numbered'[h] \in 1 .. Capacity
  BY <1>1 DEF Numbering
<1>6. gone' = {} => \A h \in Runs : at'[h] \in {"numbered", "written"} =>
        numbered'[h] <= Cardinality(Issued)' + 1
  BY <1>1, <1>2 DEF Numbering
<1>7. \A h \in Runs : at'[h] = "written" =>
        /\ ~NumberTaken(numbered[h])'
        /\ \A k \in Runs \ {h} : at'[k] = "written" => numbered'[h] # numbered'[k]
  BY <1>1, <1>4 DEF Numbering
<1>. QED
  BY <1>3, <1>5, <1>6, <1>7 DEF Numbering

(* The number of a new invoice is the next one, as long as no user was      *)
(* deleted.                                                                 *)
LEMMA NumberInvoiceStep ==
  ASSUME LedgerInv, NumberInv, NEW g \in Runs, CommitInvoice(g)
  PROVE  NumberInv'
<1>. USE RequestsAssumption DEF NumberInv, LedgerInv
<1>. DEFINE i == <<g, current[g]>>
            n == numbered[g]
            c == Cardinality(Issued)
<1>1. at[g] = "written" /\ i \in Ids /\ status[i] = "none" /\ i \notin Issued
  BY IdsPairs DEF CommitInvoice, Targeted, Fresh, Issued
<1>2. /\ Issued' = Issued \cup {i}
      /\ number' = [number EXCEPT ![i] = n]
      /\ UNCHANGED <<numbered, gone>>
      /\ at'[g] \in {"committed", "listed"} /\ \A h \in Runs \ {g} : at'[h] = at[h]
  BY <1>1 DEF CommitInvoice, InvoiceTakesEffect, Issued, Goto, Rollback, locals, people, TypeOK,
     Requests
<1>3. /\ number'[i] = n /\ n \in 1 .. Capacity
      /\ \A j \in Issued : number'[j] = number[j] /\ number[j] # n
  BY <1>1, <1>2 DEF Numbering, NumberTaken, TypeOK, Issued
<1>4. c \in Nat /\ Cardinality(Issued)' = c + 1
  BY <1>1, <1>2, IssuedFinite, FS_AddElement
<1>5. NumbersUnique' /\ NumbersFit'
  BY <1>2, <1>3 DEF NumberingSound, NumbersUnique, NumbersFit
<1>6. NumbersHaveNoGap'
  <2>1. SUFFICES ASSUME gone = {} PROVE {number'[j] : j \in Issued'} = 1 .. (c + 1)
    BY <1>2, <1>4 DEF NumbersHaveNoGap
  <2>2. {number[j] : j \in Issued} = 1 .. c
    BY <2>1 DEF NumberingSound, NumbersHaveNoGap
  <2>3. {number'[j] : j \in Issued'} = {number[j] : j \in Issued} \cup {n}
    BY <1>2, <1>3
  <2>4. n <= c + 1
    BY <1>1, <2>1 DEF Numbering
  <2>5. n \notin {number[j] : j \in Issued}
    BY <1>3
  <2>. HIDE DEF c, n
  <2>6. n = c + 1
    <3>1. n \notin 1 .. c
      BY <2>2, <2>5
    <3>2. n \in Nat /\ n >= 1
      BY <1>3, NumberingAssumption
    <3>. QED
      BY <1>4, <2>4, <3>1, <3>2
  <2>7. 1 .. (c + 1) = (1 .. c) \cup {c + 1}
    BY <1>4
  <2>. QED
    BY <2>2, <2>3, <2>6, <2>7
<1>7. ASSUME NEW h \in Runs, at'[h] = "written"
      PROVE  /\ ~NumberTaken(numbered[h])'
             /\ \A k \in Runs \ {h} : at'[k] = "written" => numbered'[h] # numbered'[k]
  <2>1. h # g /\ at[h] = "written" /\ numbered[h] # n
    BY <1>1, <1>2, <1>7 DEF Numbering
  <2>2. ~NumberTaken(numbered[h])
    BY <2>1 DEF Numbering
  <2>3. ~NumberTaken(numbered[h])'
    BY <1>2, <1>3, <2>1, <2>2 DEF NumberTaken
  <2>. QED
    BY <1>2, <2>1, <2>3 DEF Numbering
<1>8. \A h \in Runs : at'[h] \in {"numbered", "written"} => numbered'[h] \in 1 .. Capacity
  BY <1>2 DEF Numbering
<1>9. gone' = {} => \A h \in Runs : at'[h] \in {"numbered", "written"} =>
        numbered'[h] <= Cardinality(Issued)' + 1
  <2>1. ASSUME gone = {}, NEW h \in Runs, at'[h] \in {"numbered", "written"}
        PROVE  numbered[h] <= c + 1 /\ numbered[h] \in Nat
    BY <1>2, <2>1 DEF Numbering, TypeOK
  <2>. HIDE DEF c
  <2>. QED
    BY <1>2, <1>4, <2>1
<1>. QED
  BY <1>5, <1>6, <1>7, <1>8, <1>9 DEF Numbering, NumberingSound

LEMMA NumberStep ==
  ASSUME LedgerInv, NumberInv, [Next]_vars
  PROVE  NumberInv'
<1>. USE RequestsAssumption DEF LedgerInv
<1>1. CASE UNCHANGED vars
  <2>1. Issued' = Issued /\ UNCHANGED <<number, gone, at, numbered>>
    BY <1>1 DEF vars, tables, locals, people, Issued
  <2>. QED
    BY <2>1, QuietNumbers
<1>2. ASSUME NEW r \in Requests,
             \/ Connect(r) \/ CheckInvoice(r) \/ WritePayment(r) \/ TakeSecond(r)
             \/ CommitDispute(r) \/ ListUsers(r) \/ NextUser(r) \/ CheckPeriod(r)
             \/ Publish(r) \/ StatementFails(r) \/ ListFails(r)
      PROVE  NumberInv'
  <2>1. Issued' = Issued /\ UNCHANGED <<number, gone>>
    BY <1>2 DEF Connect, CheckInvoice, WritePayment, TakeSecond, CommitDispute, ListUsers,
       NextUser, CheckPeriod, Publish, StatementFails, ListFails, Listing, tables, people, Issued
  <2>2. ASSUME NEW g \in Runs, at'[g] \in {"numbered", "written"}
        PROVE  at[g] = at'[g] /\ numbered'[g] = numbered[g]
    BY <1>2, <2>2 DEF Connect, CheckInvoice, WritePayment, TakeSecond, CommitDispute, ListUsers,
       NextUser, CheckPeriod, Publish, StatementFails, ListFails, Listing, Goto, Rollback, locals, TypeOK, Requests
  <2>. QED
    BY <2>1, <2>2, QuietNumbers
<1>3. ASSUME NEW p \in Requests, CommitPayment(p) \/ WriteDispute(p) PROVE NumberInv'
  <2>1. /\ p \in Payers \cup Disputers /\ UNCHANGED <<number, gone, numbered>>
        /\ \A x \in Requests \ {p} : at'[x] = at[x]
    BY <1>3 DEF CommitPayment, WriteDispute, PaymentTakesEffect, Goto, Rollback, locals, people,
       TypeOK
  <2>2. \A i \in Ids : status'[i] = "none" <=> status[i] = "none"
    BY <1>3 DEF CommitPayment, WriteDispute, PaymentTakesEffect, Paying, Payable, TypeOK
  <2>3. Issued' = Issued
    BY <2>2 DEF Issued
  <2>4. \A g \in Runs : at'[g] = at[g]
    BY <2>1 DEF Requests
  <2>. QED
    BY <2>1, <2>3, <2>4, QuietNumbers
<1>4. ASSUME NEW u \in Users, DeleteUser(u) PROVE NumberInv'
  <2>1. /\ Issued' \subseteq Issued /\ gone' # {} /\ UNCHANGED <<at, numbered>>
        /\ \A i \in Issued' : number'[i] = number[i]
    BY <1>4 DEF DeleteUser, locals, Issued
  <2>2. NumberingSound'
    BY <2>1 DEF NumberInv, NumberingSound, NumbersUnique, NumbersHaveNoGap, NumbersFit
  <2>3. \A n : NumberTaken(n)' => NumberTaken(n)
    BY <2>1 DEF NumberTaken
  <2>. QED
    BY <2>1, <2>2, <2>3 DEF NumberInv, Numbering
<1>8. ASSUME NEW u \in Users, NEW m \in Meters \cup {NoMeter}, ChangeMeter(u, m) PROVE NumberInv'
  <2>1. Issued' = Issued /\ UNCHANGED <<number, gone, at, numbered>>
    BY <1>8 DEF ChangeMeter, tables, locals, Issued
  <2>. QED
    BY <2>1, QuietNumbers
<1>5. ASSUME Crash PROVE NumberInv'
  <2>1. Issued' = Issued /\ UNCHANGED <<number, gone, numbered>>
    BY <1>5 DEF Crash, tables, locals, people, Issued
  <2>2. \A r \in Requests : at'[r] = at[r] \/ at'[r] = "failed"
    BY <1>5 DEF Crash
  <2>. QED
    BY <2>1, <2>2, QuietNumbers DEF Requests
<1>6. ASSUME NEW r \in Requests, TakeNumber(r) \/ InsertInvoice(r) \/ CommitInvoice(r)
      PROVE  NumberInv'
  <2>1. r \in Runs
    BY <1>6 DEF TakeNumber, InsertInvoice, CommitInvoice
  <2>. QED
    BY <1>6, <2>1, TakeNumberStep, InsertInvoiceStep, NumberInvoiceStep
<1>7. ASSUME NEW r \in Requests, Work(r) \/ StatementFails(r) \/ ListFails(r) PROVE NumberInv'
  BY <1>2, <1>3, <1>6, <1>7 DEF Work, Pay, Dispute, Generate
<1>. QED
  BY <1>1, <1>4, <1>5, <1>7, <1>8 DEF Next

(* Invoice numbers are unique, have no gap as long as no user is deleted,   *)
(* and fit their digits, however many runs generate a month's invoices.     *)
THEOREM NumbersStaySound == Spec => []NumberingSound
<1>1. Init => LedgerInv /\ NumberInv
  BY InitInvariant
<1>2. NumberInv => NumberingSound
  BY DEF NumberInv
<1>. QED
  BY <1>1, <1>2, LedgerStep, NumberStep, PTL DEF Spec

(* What the books say of a month, invoice by invoice, is right. *)
THEOREM BooksStaySound == Spec => []BooksSound
BY LedgerStaysConsistent, NumbersStaySound, PTL DEF BooksSound
-----------------------------------------------------------------------------
(* The reports.                                                             *)

(* Nothing on record belongs to a deleted user: an invoice that is about to *)
(* be committed is of a user whom its lock keeps.                           *)
Standing ==
  /\ IsFiniteSet(paidBy)
  /\ \A i \in Issued : i[2][1] \notin gone
  /\ \A g \in Runs : at[g] = "written" => current[g][1] \notin gone

LEMMA StandingStep ==
  ASSUME LedgerInv, Standing, [Next]_vars
  PROVE  Standing'
<1>. USE RequestsAssumption DEF LedgerInv
<1>1. CASE UNCHANGED vars
  BY <1>1 DEF vars, tables, locals, people, Issued, Standing
<1>2. ASSUME NEW g \in Runs, InsertInvoice(g) PROVE Standing'
  <2>1. /\ at[g] = "numbered" /\ UNCHANGED <<status, paidBy, current, gone>>
        /\ \A x \in Requests \ {g} : at'[x] = at[x]
        /\ at'[g] = "written" => current[g][1] \notin gone
    BY <1>2 DEF InsertInvoice, Goto, Rollback, TypeOK, tables, locals, people, Requests
  <2>. QED
    BY <2>1 DEF Standing, Issued, Requests
<1>3. ASSUME NEW r \in Requests,
             \/ Connect(r) \/ CheckInvoice(r) \/ WritePayment(r) \/ TakeSecond(r) \/ WriteDispute(r)
             \/ CommitDispute(r) \/ ListUsers(r) \/ NextUser(r) \/ CheckPeriod(r)
             \/ TakeNumber(r) \/ Publish(r) \/ StatementFails(r) \/ ListFails(r)
      PROVE  Standing'
  <2>1. UNCHANGED <<paidBy, gone>> /\ Issued' = Issued
    BY <1>3 DEF Connect, CheckInvoice, WritePayment, TakeSecond, WriteDispute, CommitDispute, ListUsers,
                NextUser, CheckPeriod, TakeNumber, Publish, StatementFails, ListFails, Listing,
                tables, people, Issued, Payable, TypeOK
  <2>2. \A g \in Runs : at'[g] = "written" => at[g] = "written" /\ current'[g] = current[g]
    <3>1. CASE Connect(r)
      BY <3>1 DEF Connect, Goto, TypeOK, Requests
    <3>2. CASE CheckInvoice(r) \/ WritePayment(r)
      BY <3>2 DEF CheckInvoice, WritePayment, Goto, Rollback, TypeOK, Requests, locals
    <3>3. CASE TakeSecond(r) \/ WriteDispute(r) \/ CommitDispute(r)
      BY <3>3 DEF TakeSecond, WriteDispute, CommitDispute, Goto, Rollback, TypeOK, Requests, locals
    <3>4. CASE ListUsers(r)
      BY <3>4 DEF ListUsers, Goto, TypeOK, Requests
    <3>5. CASE NextUser(r)
      BY <3>5 DEF NextUser, Goto, TypeOK, Requests
    <3>6. CASE CheckPeriod(r) \/ TakeNumber(r) \/ Publish(r) \/ StatementFails(r) \/ ListFails(r)
      BY <3>6 DEF CheckPeriod, TakeNumber, Publish, StatementFails, ListFails, Listing, Goto, Rollback, TypeOK, Requests, locals
    <3>. QED
      BY <1>3, <3>1, <3>2, <3>3, <3>4, <3>5, <3>6
  <2>. QED
    BY <2>1, <2>2 DEF Standing
<1>4. ASSUME NEW p \in Payers, CommitPayment(p) PROVE Standing'
  <2>1. /\ paidBy' = paidBy \cup {p} /\ Issued' = Issued /\ UNCHANGED <<current, gone>>
        /\ \A g \in Runs : at'[g] = at[g]
    BY <1>4 DEF CommitPayment, PaymentTakesEffect, Goto, Rollback, TypeOK, Requests, locals,
                people, Issued,
                Targeted, Paying
  <2>2. IsFiniteSet(paidBy')
    BY <2>1, FS_AddElement DEF Standing
  <2>. QED
    BY <2>1, <2>2 DEF Standing
<1>5. ASSUME NEW g \in Runs, CommitInvoice(g) PROVE Standing'
  <2>1. /\ Issued' = Issued \cup {<<g, current[g]>>} /\ UNCHANGED <<current, gone, paidBy>>
        /\ at[g] = "written" /\ at'[g] # "written" /\ \A h \in Runs \ {g} : at'[h] = at[h]
    BY <1>5, IdsPairs DEF CommitInvoice, InvoiceTakesEffect, Goto, Rollback, TypeOK, Requests, locals, people,
                Issued, Targeted
  <2>. QED
    BY <2>1 DEF Standing
<1>6. ASSUME NEW u \in Users, DeleteUser(u) PROVE Standing'
  <2>1. /\ paidBy' \subseteq paidBy /\ gone' = gone \cup {u} /\ UNCHANGED <<at, current>>
        /\ \A i \in Issued' : i \in Issued /\ i[2][1] # u
    BY <1>6 DEF DeleteUser, locals, Issued, Bills
  <2>2. \A g \in Runs : at[g] = "written" => current[g][1] # u
    BY <1>6 DEF DeleteUser, Referred, Bills, Invoice
  <2>3. IsFiniteSet(paidBy')
    BY <2>1, FS_Subset DEF Standing
  <2>. QED
    BY <2>1, <2>2, <2>3 DEF Standing
<1>9. ASSUME NEW u \in Users, NEW m \in Meters \cup {NoMeter}, ChangeMeter(u, m) PROVE Standing'
  <2>1. UNCHANGED <<at, paidBy, current, gone>> /\ Issued' = Issued
    BY <1>9 DEF ChangeMeter, tables, locals, Issued
  <2>. QED
    BY <2>1 DEF Standing
<1>7. CASE Crash
  BY <1>7 DEF Crash, tables, locals, people, Issued, Standing, Requests
<1>8. ASSUME NEW r \in Requests, Work(r) \/ StatementFails(r) \/ ListFails(r) PROVE Standing'
  BY <1>2, <1>3, <1>4, <1>5, <1>8
     DEF Work, Pay, Dispute, Generate, InsertInvoice, CommitPayment, CommitInvoice
<1>. QED
  BY <1>1, <1>6, <1>7, <1>8, <1>9 DEF Next

LEMMA ImageFinite ==
  ASSUME NEW S, IsFiniteSet(S), NEW g
  PROVE  IsFiniteSet({g[x] : x \in S})
<1>. DEFINE T == {g[x] : x \in S}
            h == [x \in S |-> g[x]]
<1>1. h \in Surjection(S, T)
  BY DEF Surjection
<1>. HIDE DEF T, h
<1>2. IsFiniteSet(T)
  BY <1>1, FS_Surjection
<1>. QED
  BY <1>2 DEF T

(* An amount is a natural number. *)
LEMMA AmountType ==
  ASSUME NEW rows, IsFiniteSet(rows), NEW cost, \A x \in rows : cost[x] \in Nat
  PROVE  /\ IsFiniteSet(UNION {{x} \X (1 .. cost[x]) : x \in rows})
         /\ Amount(rows, cost) \in Nat
<1>. DEFINE Part(x) == {x} \X (1 .. cost[x])
            parts   == {Part(x) : x \in rows}
<1>1. IsFiniteSet(parts)
  <2>. DEFINE g == [x \in rows |-> Part(x)]
  <2>1. parts = {g[x] : x \in rows}
    OBVIOUS
  <2>. HIDE DEF parts, g
  <2>. QED
    BY <2>1, ImageFinite
<1>2. ASSUME NEW x \in rows PROVE IsFiniteSet(Part(x))
  <2>1. cost[x] \in Int
    OBVIOUS
  <2>2. IsFiniteSet(1 .. cost[x])
    BY <2>1, FS_Interval
  <2>3. IsFiniteSet({x})
    BY FS_Singleton
  <2>. QED
    BY <2>2, <2>3, FS_Product
<1>3. IsFiniteSet(UNION parts)
  BY <1>1, <1>2, FS_UNION
<1>. QED
  BY <1>3, FS_CardinalityType DEF Amount

(* The rows of one list, each paid for by the rows of another, come to no   *)
(* more than those, and to as much when none is paid for twice.             *)
LEMMA AmountOfImage ==
  ASSUME NEW rows, IsFiniteSet(rows), NEW cost, NEW f,
         \A x \in rows : cost[f[x]] \in Nat
  PROVE  LET image == {f[x] : x \in rows}
             paid  == [x \in rows |-> cost[f[x]]]
         IN  /\ Amount(image, cost) \in Nat /\ Amount(rows, paid) \in Nat
             /\ Amount(image, cost) <= Amount(rows, paid)
             /\ (\A x, y \in rows : f[x] = f[y] => x = y) => Amount(image, cost) = Amount(rows, paid)
<1>. DEFINE image == {f[x] : x \in rows}
            paid  == [x \in rows |-> cost[f[x]]]
            S     == UNION {{x} \X (1 .. paid[x]) : x \in rows}
            T     == UNION {{i} \X (1 .. cost[i]) : i \in image}
            h     == [s \in S |-> <<f[s[1]], s[2]>>]
<1>1. IsFiniteSet(image)
  BY ImageFinite
<1>2. IsFiniteSet(S) /\ Amount(rows, paid) \in Nat /\ IsFiniteSet(T) /\ Amount(image, cost) \in Nat
  <2>1. \A x \in rows : paid[x] \in Nat
    OBVIOUS
  <2>2. \A i \in image : cost[i] \in Nat
    OBVIOUS
  <2>3. IsFiniteSet(S) /\ Amount(rows, paid) \in Nat
    <3>. HIDE DEF paid
    <3>. QED
      BY <2>1, AmountType
  <2>4. IsFiniteSet(T) /\ Amount(image, cost) \in Nat
    <3>. HIDE DEF image
    <3>. QED
      BY <1>1, <2>2, AmountType
  <2>. QED
    BY <2>3, <2>4
<1>3. Cardinality(S) = Amount(rows, paid) /\ Cardinality(T) = Amount(image, cost)
  BY DEF Amount
<1>4. \A s \in S : s[1] \in rows /\ s[2] \in 1 .. cost[f[s[1]]] /\ s = <<s[1], s[2]>>
  OBVIOUS
<1>5. \A x \in rows : \A k \in 1 .. cost[f[x]] : <<x, k>> \in S /\ <<f[x], k>> \in T
  OBVIOUS
<1>6. h \in [S -> T]
  BY <1>4, <1>5
<1>7. \A t \in T : \E s \in S : h[s] = t
  <2>. SUFFICES ASSUME NEW t \in T PROVE \E s \in S : h[s] = t
    OBVIOUS
  <2>1. PICK x \in rows : t[1] = f[x] /\ t[2] \in 1 .. cost[f[x]] /\ t = <<t[1], t[2]>>
    OBVIOUS
  <2>2. <<x, t[2]>> \in S
    BY <1>5, <2>1
  <2>. QED
    BY <2>1, <2>2
<1>8. h \in Surjection(S, T)
  BY <1>6, <1>7 DEF Surjection
<1>9. (\A x, y \in rows : f[x] = f[y] => x = y) => h \in Injection(S, T)
  <2>. SUFFICES ASSUME \A x, y \in rows : f[x] = f[y] => x = y,
                       NEW a \in S, NEW b \in S, h[a] = h[b]
                PROVE  a = b
    <3>. HIDE DEF h, S, T
    <3>. QED
      BY <1>6 DEF Injection, IsInjective
  <2>1. f[a[1]] = f[b[1]] /\ a[2] = b[2]
    OBVIOUS
  <2>. QED
    BY <1>4, <2>1
<1>10. /\ Cardinality(T) <= Cardinality(S)
       /\ h \in Injection(S, T) => Cardinality(T) = Cardinality(S)
  <2>. HIDE DEF h, S, T
  <2>. QED
    BY <1>2, <1>8, FS_Surjection
<1>. QED
  BY <1>2, <1>3, <1>9, <1>10

LEMMA DisjointUnion ==
  ASSUME NEW S, NEW T, IsFiniteSet(S), IsFiniteSet(T), S \cap T = {}
  PROVE  /\ IsFiniteSet(S \cup T)
         /\ Cardinality(S \cup T) = Cardinality(S) + Cardinality(T)
<1>1. Cardinality(S \cap T) = 0
  BY FS_EmptySet
<1>2. Cardinality(S) \in Nat /\ Cardinality(T) \in Nat
  BY FS_CardinalityType
<1>3. /\ IsFiniteSet(S \cup T)
      /\ Cardinality(S \cup T) = Cardinality(S) + Cardinality(T) - Cardinality(S \cap T)
  BY FS_Union, Zenon
<1>. QED
  BY <1>1, <1>2, <1>3

(* What the reports say follows from the tables at any moment. *)
LEMMA TablesReport ==
  ASSUME LedgerInv, RaceInv, Standing
  PROVE  ReportsAgree
<1>. USE DEF LedgerInv, Bills
<1>1. \A i \in Issued : i \in Ids /\ i[2][1] \in Known /\ status[i] \in {"pending", "disputed", "paid"}
  BY IdsPairs DEF Standing, Known, Issued, TypeOK
<1>2. \A p \in paidBy : target[p] \in Issued /\ status[target[p]] = "paid" /\ target[p][2][1] \in Known
  BY <1>1 DEF Paying, LedgerConsistent, PaidIffPayment, Issued
<1>3. \A i \in Issued : status[i] = "paid" => \E p \in paidBy : target[p] = i
  BY <1>1 DEF LedgerConsistent, PaidIffPayment
<1>4. ListsAgree
  <2>1. ASSUME NEW u \in Known
        PROVE  {target[p] : p \in GetPaymentHistory(u)} = GetUserInvoices(u, {"paid"})
    BY <1>2, <1>3 DEF GetPaymentHistory, GetUserInvoices
  <2>2. ExportInvoiceData(AllRegions, Statuses, "csv") = Issued
    BY <1>1 DEF ExportInvoiceData, ExportInvoicesCSV, InStatus, Of, Statuses
  <2>3. UNION {CurrentMonthInvoices(u) : u \in Known} = Issued
    BY <1>1 DEF CurrentMonthInvoices, GetUserInvoices, Statuses
  <2>. QED
    BY <2>1, <2>2, <2>3 DEF ListsAgree
<1>5. Of(AllRegions) = Issued
  BY DEF Of
<1>6. TotalInvoices(AllRegions)
        = CountOf(AllRegions, {"pending", "overdue"}) + CountOf(AllRegions, {"paid"})
            + CountOf(AllRegions, {"disputed"})
  <2>. DEFINE A == InStatus(AllRegions, {"pending", "overdue"})
              B == InStatus(AllRegions, {"paid"})
              C == InStatus(AllRegions, {"disputed"})
  <2>1. A \subseteq Issued /\ B \subseteq Issued /\ C \subseteq Issued /\ Issued = (A \cup B) \cup C
    BY <1>1, <1>5 DEF InStatus
  <2>2. A \cap B = {} /\ (A \cup B) \cap C = {}
    BY DEF InStatus
  <2>3. TotalInvoices(AllRegions) = Cardinality(Issued) /\ CountOf(AllRegions, {"paid"}) = Cardinality(B)
        /\ CountOf(AllRegions, {"pending", "overdue"}) = Cardinality(A)
        /\ CountOf(AllRegions, {"disputed"}) = Cardinality(C)
    BY <1>5 DEF TotalInvoices, CountOf
  <2>. HIDE DEF A, B, C
  <2>4. IsFiniteSet(A) /\ IsFiniteSet(B) /\ IsFiniteSet(C)
    BY <2>1, IssuedFinite, FS_Subset
  <2>5. IsFiniteSet(A \cup B) /\ Cardinality(A \cup B) = Cardinality(A) + Cardinality(B)
    BY <2>2, <2>4, DisjointUnion
  <2>6. Cardinality((A \cup B) \cup C) = Cardinality(A \cup B) + Cardinality(C)
    BY <2>2, <2>4, <2>5, DisjointUnion
  <2>. QED
    BY <2>1, <2>3, <2>5, <2>6
<1>7. CollectedRevenue(AllRegions) # PaidIn =>
        CollectedRevenue(AllRegions) < PaidIn /\ paidBy \cap raced # {}
  <2>. DEFINE image == {target[p] : p \in paidBy}
              paid  == [p \in paidBy |-> Cost[target[p]]]
  <2>1. UNION {GetPaymentHistory(u) : u \in Known} = paidBy
    BY <1>2 DEF GetPaymentHistory
  <2>2. InStatus(AllRegions, {"paid"}) = image
    BY <1>2, <1>3, <1>5 DEF InStatus
  <2>3. PaidIn = Amount(paidBy, paid) /\ CollectedRevenue(AllRegions) = Amount(image, Cost)
    <3>. HIDE DEF image
    <3>. QED
      BY <2>1, <2>2 DEF PaidIn, CollectedRevenue
  <2>4. \A p \in paidBy : Cost[target[p]] \in Nat
    BY <1>1, <1>2, ReportsAssumption
  <2>5. /\ Amount(image, Cost) \in Nat /\ Amount(paidBy, paid) \in Nat
        /\ Amount(image, Cost) <= Amount(paidBy, paid)
        /\ (\A p, q \in paidBy : target[p] = target[q] => p = q) => Amount(image, Cost) = Amount(paidBy, paid)
    <3>1. IsFiniteSet(paidBy)
      BY DEF Standing
    <3>. QED
      BY <2>4, <3>1, AmountOfImage, SMTT(60)
  <2>6. (\E p, q \in paidBy : target[p] = target[q] /\ p # q) => paidBy \cap raced # {}
    BY DEF RaceInv, OnlyByRace, PaidTwiceOnlyByRace
  <2>. HIDE DEF image, paid
  <2>. QED
    BY <2>3, <2>5, <2>6
<1>. QED
  BY <1>4, <1>6, <1>7 DEF ReportsAgree, RevenueAgrees

(* What is told of a month, in lists, exports and sums, is one story at     *)
(* every moment.                                                            *)
THEOREM ReportsStayAgreed == Spec => []ReportsAgree
<1>1. Init => LedgerInv /\ RaceInv /\ Standing
  <2>. SUFFICES ASSUME Init PROVE Standing
    BY InitInvariant
  <2>1. paidBy = {} /\ Issued = {} /\ \A g \in Runs : at[g] # "written"
    BY DEF Init, Issued, Requests
  <2>. QED
    BY <2>1, FS_EmptySet DEF Standing
<1>. QED
  BY <1>1, LedgerStep, RaceStep, StandingStep, TablesReport, PTL DEF Spec

-----------------------------------------------------------------------------
(* Waiting.                                                                 *)

(* The places a payment and a dispute go through. *)
Placed ==
  /\ \A p \in Payers : at[p] \notin {"listed", "numbered"}
  /\ \A d \in Disputers : at[d] \notin {"listed", "checked", "numbered"}

LEMMA PlacedStep ==
  ASSUME LedgerInv, Placed, [Next]_vars
  PROVE  Placed'
<1>. USE RequestsAssumption DEF LedgerInv
<1>1. CASE UNCHANGED vars
  BY <1>1 DEF vars, Placed
<1>2. ASSUME NEW r \in Requests, NEW stage, Goto(r, stage),
             r \in Payers => stage \notin {"listed", "numbered"},
             r \in Disputers => stage \notin {"listed", "checked", "numbered"}
      PROVE  Placed'
  BY <1>2 DEF Goto, Placed, TypeOK, Requests
<1>3. ASSUME NEW r \in Requests, Connect(r) \/ Pay(r) \/ TakeSecond(r) PROVE Placed'
  BY <1>1, <1>2, <1>3 DEF Connect, Pay, CheckInvoice, WritePayment, CommitPayment, Rollback, TakeSecond, Placed
<1>4. ASSUME NEW r \in Requests, WriteDispute(r) \/ CommitDispute(r) PROVE Placed'
  <2>1. r \in Disputers /\ (Goto(r, "written") \/ Goto(r, "failed") \/ Goto(r, "committed"))
    BY <1>4 DEF WriteDispute, CommitDispute, Rollback, TypeOK
  <2>. QED
    BY <1>2, <2>1
<1>5. ASSUME NEW r \in Requests, Generate(r) PROVE Placed'
  <2>1. r \in Runs /\ \E stage : Goto(r, stage)
    BY <1>5 DEF Generate, ListUsers, Listing, NextUser, CheckPeriod, TakeNumber, InsertInvoice, CommitInvoice, Rollback
  <2>. QED
    BY <1>2, <2>1
<1>6. ASSUME NEW r \in Requests, Publish(r) \/ StatementFails(r) \/ ListFails(r) PROVE Placed'
  BY <1>2, <1>6 DEF Publish, StatementFails, ListFails, Rollback
<1>7. ASSUME \/ \E u \in Users : DeleteUser(u)
             \/ \E u \in Users, m \in Meters \cup {NoMeter} : ChangeMeter(u, m)
      PROVE  Placed'
  BY <1>7 DEF DeleteUser, ChangeMeter, Placed
<1>8. CASE Crash
  BY <1>8 DEF Crash, Placed, Requests
<1>. QED
  BY <1>1, <1>3, <1>4, <1>5, <1>6, <1>7, <1>8 DEF Next, Work, Dispute

(* Payments and runs wait for a connection only before they hold one, for a *)
(* row only behind a payment that can commit, and for a number only behind  *)
(* a run that can.  So when nobody can work only disputes hold connections, *)
(* each waiting for its second; and if one is free, all have ended.         *)
LEMMA NobodyWaits ==
  ASSUME LedgerInv, Placed
  PROVE  SomebodyCanWork
<1>. SUFFICES ASSUME ~DisputesHoldAll, \A r \in Requests : ~CanWork(r)
              PROVE  Ended
  BY DEF SomebodyCanWork
<1>. USE DEF LedgerInv, CanWork
<1>1. \A p \in Payers : at[p] \in {"ready", "succeeded", "failed"}
  <2>1. \A p \in Payers : at[p] # "written"
    BY DEF Requests
  <2>2. \A i : ~Locked(i)
    BY <2>1 DEF Locked
  <2>. QED
    BY <2>1, <2>2 DEF Placed, TypeOK, Stages, Requests
<1>2. \A g \in Runs : at[g] \in {"ready", "listed", "succeeded", "failed"}
  <2>1. \A g \in Runs : at[g] # "written"
    BY DEF Requests
  <2>. QED
    BY <2>1 DEF TypeOK, Stages, Requests
<1>3. second = {} /\ \A d \in Disputers : at[d] \in {"ready", "begun", "succeeded", "failed"}
  <2>1. \A i : ~Locked(i)
    BY <1>1 DEF Locked
  <2>2. \A d \in Disputers : at[d] = "begun" => d \notin second
    BY <2>1 DEF Requests
  <2>3. second = {}
    BY <2>2 DEF Targeted, TypeOK
  <2>. QED
    BY <2>3 DEF Placed, TypeOK, Stages, Requests
<1>4. Free
  <2>1. ASSUME NEW r \in Requests, Holds(r) PROVE Waiting(r)
    BY <1>1, <1>2, <1>3, <2>1 DEF Holds, Open, Waiting, Requests
  <2>. QED
    BY <2>1 DEF DisputesHoldAll
<1>5. ASSUME NEW r \in Requests
      PROVE  \/ at[r] \in {"succeeded", "failed"}
             \/ r \notin Runs /\ at[r] = "ready" /\ ~\E i \in Issued : Bills(i, Owner[r])
  <2>1. at[r] \notin {"begun", "listed"}
    BY <1>1, <1>2, <1>3, <1>4, RequestsAssumption DEF Requests
  <2>. QED
    BY <1>1, <1>2, <1>3, <1>4, <2>1 DEF Requests
<1>. QED
  BY <1>5 DEF Ended

(* Until everybody has ended somebody can work, unless disputes hold every  *)
(* connection and each waits for a second.                                  *)
THEOREM SomebodyAlwaysCanWork == Spec => []SomebodyCanWork
<1>1. Init => LedgerInv /\ Placed
  BY InitInvariant DEF Init, Placed, Requests
<1>. QED
  BY <1>1, LedgerStep, PlacedStep, NobodyWaits, PTL DEF Spec

=============================================================================
