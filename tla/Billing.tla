------------------------------ MODULE Billing ------------------------------
(***************************************************************************)
(* Billing in the API gateway: billing.service.ts over the tables invoices  *)
(* and payment_transactions.  Payments, disputes and the generation of a    *)
(* month's invoices are requests that run at the same time; each holds a    *)
(* connection of one pool from its first statement to the end of its        *)
(* publication.  PostgreSQL runs their transactions READ COMMITTED: a       *)
(* statement sees what was committed when it began, an update waits for the *)
(* row's lock, an insert for a transaction that holds the same unique key.  *)
(*                                                                         *)
(* One month is modelled.  An invoice is of an account, a user with a meter *)
(* of his, and named by the account and the generation run that made it: a  *)
(* user whose meter is changed has another account.  Users do not move to   *)
(* another region.  A definition Mut_X is a mutated form of the definition  *)
(* it precedes.                                                             *)
(***************************************************************************)
EXTENDS Integers, FiniteSets

CONSTANTS
  Users,          \* users
  Meters,         \* meters that are assigned to users
  NoMeter,        \* what a user without a meter has
  Payers,         \* requests to mark an invoice as paid
  Disputers,      \* requests to dispute an invoice
  Runs,           \* requests to generate the month's invoices
  Owner,          \* the user who pays or disputes
  Regions,        \* VALID_REGIONS
  Region,         \* the region of each user, which the invoice keeps
  Asked,          \* the region a run is for, or AllRegions
  PoolSize,       \* connections of postgresPool
  Capacity,       \* the largest sequence number that fits its digits, 9999
  Radix,          \* the base it is written in, 10
  MaxFaults       \* bound: failed statements, crashes, deletions and changes by an admin

Requests == Payers \cup Disputers \cup Runs
AllRegions == "All Regions"

ASSUME RequestsAssumption ==
  /\ Payers \cap Disputers = {} /\ Payers \cap Runs = {} /\ Disputers \cap Runs = {}
  /\ IsFiniteSet(Users) /\ IsFiniteSet(Disputers) /\ IsFiniteSet(Runs)
  /\ Owner \in [Payers \cup Disputers -> Users]
ASSUME MetersAssumption ==
  IsFiniteSet(Meters) /\ NoMeter \notin Meters
ASSUME RegionsAssumption ==
  /\ AllRegions \notin Regions /\ Regions # {}
  /\ Region \in [Users -> Regions] /\ Asked \in [Runs -> Regions \cup {AllRegions}]
ASSUME BillingBoundsAssumption ==
  PoolSize \in Nat \ {0} /\ MaxFaults \in Nat
ASSUME NumberingAssumption ==
  Capacity \in Nat \ {0} /\ Radix \in Nat \ {0, 1} /\ (Capacity + 1) % Radix = 0

VARIABLES
  status,      \* invoices: "none" when there is no such row
  number,      \* invoices: the sequence number, 0 without a row
  isDisputed,  \* invoices: the flag a dispute sets
  paidBy,      \* payment_transactions: the payers whose payment is committed
  at,          \* what each request is doing
  target,      \* the invoice a payment or a dispute is about
  asking,      \* the regions a run has still to list
  todo,        \* the accounts of a region it has still to bill
  current,     \* the account it is billing
  numbered,    \* the sequence number it has computed
  second,      \* the disputes that hold a second connection
  meter,       \* users: the meter_id of each
  gone,        \* deleted users
  faults,      \* faults so far
  raced,       \* history: what was checked before the same was committed
  moved        \* history: the users who have lost a meter they had

tables == <<status, number, isDisputed, paidBy>>
people == <<meter, gone, moved>>
locals == <<target, asking, todo, current, numbered>>
vars == <<tables, at, locals, second, people, faults, raced>>

-----------------------------------------------------------------------------
Accounts == Users \X Meters
Ids == Runs \X Accounts
NoInvoice == <<>>
NoUser == <<>>

Bills(i, u) == i[2][1] = u
Issued == {i \in Ids : status[i] # "none"}
Payable == {"pending", "disputed"}

(* A transaction is open from BEGIN to COMMIT or ROLLBACK; the connection is *)
(* kept until the message is published.                                     *)
Open(r) == at[r] \in {"begun", "checked", "numbered", "written"}
Holds(r) == Open(r) \/ at[r] = "committed"
Held == Cardinality({r \in Requests : Holds(r)}) + Cardinality(second)
Free == Held < PoolSize

(* The row locks of uncommitted payments. *)
Locked(i) == \E p \in Payers : at[p] = "written" /\ target[p] = i

(* The UNIQUE of users.meter_id. *)
MetersUnique ==
  \A u, w \in Users \ gone : meter[u] = meter[w] /\ meter[u] # NoMeter => u = w

Init ==
  /\ status = [i \in Ids |-> "none"]
  /\ number = [i \in Ids |-> 0]
  /\ isDisputed = [i \in Ids |-> FALSE]
  /\ paidBy = {}
  /\ at = [r \in Requests |-> "ready"]
  /\ target = [r \in Payers \cup Disputers |-> NoInvoice]
  /\ asking = [g \in Runs |-> IF Asked[g] = AllRegions THEN Regions ELSE {Asked[g]}]
  /\ todo = [g \in Runs |-> {}]
  /\ current = [g \in Runs |-> NoUser]
  /\ numbered = [g \in Runs |-> 0]
  /\ second = {} /\ gone = {} /\ moved = {}
  /\ meter \in [Users -> Meters \cup {NoMeter}] /\ MetersUnique
  /\ faults = 0 /\ raced = {}

Fault == faults < MaxFaults /\ faults' = faults + 1

Goto(r, stage) == at' = [at EXCEPT ![r] = stage]

(* ROLLBACK and release, the error to the caller: a run notes it and goes   *)
(* on with the next user.                                                   *)
Rollback(r) == Goto(r, IF r \in Runs THEN "listed" ELSE "failed")

-----------------------------------------------------------------------------
(* markInvoiceAsPaid and disputeInvoice.                                    *)

(* pool.connect() and BEGIN. *)
Connect(r) ==
  /\ at[r] = "ready" /\ r \notin Runs
  /\ Free
  /\ \E i \in Issued : Bills(i, Owner[r]) /\ target' = [target EXCEPT ![r] = i]
  /\ Goto(r, "begun")
  /\ UNCHANGED <<tables, asking, todo, current, numbered, second, people, faults, raced>>

(* The status is read without a lock. *)
CheckInvoice(p) ==
  /\ p \in Payers /\ at[p] = "begun"
  /\ IF status[target[p]] \in Payable THEN Goto(p, "checked") ELSE Rollback(p)
  /\ UNCHANGED <<tables, locals, second, people, faults, raced>>

Mut_PayThroughPool(p) ==
  /\ p \in Payers /\ at[p] = "checked"
  /\ ~Locked(target[p]) /\ Free
  /\ Goto(p, IF status[target[p]] # "none" THEN "written" ELSE "failed")
  /\ UNCHANGED <<tables, locals, second, people, faults, raced>>

(* The UPDATE, which waits for the row and asks for nothing but its id, and *)
(* the INSERT of the transaction.  Nobody sees either before the COMMIT.    *)
WritePayment(p) ==
  /\ p \in Payers /\ at[p] = "checked"
  /\ ~Locked(target[p])
  /\ Goto(p, IF status[target[p]] # "none" THEN "written" ELSE "failed")
  /\ UNCHANGED <<tables, locals, second, people, faults, raced>>

Mut_UpdateForgotten(p) ==
  /\ paidBy' = paidBy \cup {p}
  /\ UNCHANGED <<status, number, isDisputed, raced>>

Mut_StatusOfTransaction(p) ==
  /\ status' = [status EXCEPT ![target[p]] = "completed"]
  /\ paidBy' = paidBy \cup {p}
  /\ UNCHANGED <<number, isDisputed, raced>>

PaymentTakesEffect(p) ==
  /\ status' = [status EXCEPT ![target[p]] = "paid"]
  /\ paidBy' = paidBy \cup {p}
  /\ raced' = raced \cup {q \in Payers \ {p} : at[q] \in {"checked", "written"}
                                               /\ target[q] = target[p]}
  /\ UNCHANGED <<number, isDisputed>>

CommitPayment(p) ==
  /\ p \in Payers /\ at[p] = "written"
  /\ PaymentTakesEffect(p)
  /\ \/ Goto(p, "committed") /\ UNCHANGED faults
     \/ Fault /\ Rollback(p)          \* committed, and the answer is lost
  /\ UNCHANGED <<locals, second, people>>

(* The UPDATE of a dispute goes through the pool, not through the client    *)
(* that has begun: it takes a second connection and commits by itself.      *)
TakeSecond(d) ==
  /\ d \in Disputers \ second /\ at[d] = "begun"
  /\ Free
  /\ second' = second \cup {d}
  /\ UNCHANGED <<tables, at, locals, people, faults, raced>>

Mut_DisputeAnything(d) ==
  /\ d \in second
  /\ ~Locked(target[d])
  /\ second' = second \ {d}
  /\ LET i == target[d]
     IN IF status[i] # "none"
        THEN /\ status' = [status EXCEPT ![i] = "disputed"]
             /\ isDisputed' = [isDisputed EXCEPT ![i] = TRUE]
             /\ Goto(d, "written")
        ELSE /\ Rollback(d) /\ UNCHANGED <<status, isDisputed>>
  /\ UNCHANGED <<number, paidBy, locals, people, faults, raced>>

WriteDispute(d) ==
  /\ d \in second
  /\ ~Locked(target[d])
  /\ second' = second \ {d}
  /\ LET i == target[d]
     IN IF status[i] \in Payable
        THEN /\ status' = [status EXCEPT ![i] = "disputed"]
             /\ isDisputed' = [isDisputed EXCEPT ![i] = TRUE]
             /\ Goto(d, "written")
        ELSE /\ Rollback(d) /\ UNCHANGED <<status, isDisputed>>
  /\ UNCHANGED <<number, paidBy, locals, people, faults, raced>>

(* The COMMIT of a transaction in which nothing was done. *)
CommitDispute(d) ==
  /\ d \in Disputers /\ at[d] = "written"
  /\ Goto(d, "committed")
  /\ UNCHANGED <<tables, locals, second, people, faults, raced>>

-----------------------------------------------------------------------------
(* generateMonthlyInvoicesForRegion and generateMonthlyInvoice.             *)

(* The users of a region with the meter each has now. *)
Covered(region) ==
  {a \in Accounts : a[1] \notin gone /\ Region[a[1]] = region /\ meter[a[1]] = a[2]}

(* Without a region in the request it goes through all of them, one after   *)
(* the other, in an order of its own.                                       *)
Listing(g) == g \in Runs /\ at[g] \in {"ready", "listed"} /\ todo[g] = {} /\ asking[g] # {}

ListUsers(g) ==
  /\ Listing(g)
  /\ Free
  /\ \E region \in asking[g] : /\ asking' = [asking EXCEPT ![g] = @ \ {region}]
                              /\ todo' = [todo EXCEPT ![g] = Covered(region)]
  /\ Goto(g, "listed")
  /\ UNCHANGED <<tables, target, current, numbered, second, people, faults, raced>>

(* The list fails, and the request with it. *)
ListFails(g) ==
  /\ Listing(g)
  /\ Fault
  /\ Goto(g, "failed")
  /\ UNCHANGED <<tables, locals, second, people, raced>>

NextUser(g) ==
  /\ g \in Runs /\ at[g] = "listed"
  /\ \/ /\ Free
        /\ \E a \in todo[g] : /\ todo' = [todo EXCEPT ![g] = @ \ {a}]
                              /\ current' = [current EXCEPT ![g] = a]
        /\ Goto(g, "begun")
     \/ /\ todo[g] = {} /\ asking[g] = {}
        /\ Goto(g, "succeeded")
        /\ current' = [current EXCEPT ![g] = NoUser]
        /\ UNCHANGED todo
  /\ numbered' = [numbered EXCEPT ![g] = 0]
  /\ UNCHANGED <<tables, target, asking, second, people, faults, raced>>

Mut_AnotherRunsInvoice(g) ==
  /\ g \in Runs /\ at[g] = "begun"
  /\ IF current[g][1] \in gone \/ <<g, current[g]>> \in Issued
       THEN Rollback(g) ELSE Goto(g, "checked")
  /\ UNCHANGED <<tables, locals, second, people, faults, raced>>

(* The user is there, but may have another meter by now; and no invoice of  *)
(* the period is found for the user and the meter that was listed.          *)
CheckPeriod(g) ==
  /\ g \in Runs /\ at[g] = "begun"
  /\ IF current[g][1] \in gone \/ \E i \in Issued : i[2] = current[g]
       THEN Rollback(g) ELSE Goto(g, "checked")
  /\ UNCHANGED <<tables, locals, second, people, faults, raced>>

(* LPAD to four digits, which keeps the first four of a longer number. *)
Lpad(n) == IF n <= Capacity THEN n ELSE n \div Radix

(* generate_invoice_number, a statement of its own, sees what has been      *)
(* committed since the period was checked.                                  *)
TakeNumber(g) ==
  /\ g \in Runs /\ at[g] = "checked"
  /\ numbered' = [numbered EXCEPT ![g] = Lpad(Cardinality(Issued) + 1)]
  /\ Goto(g, "numbered")
  /\ UNCHANGED <<tables, target, asking, todo, current, second, people, faults, raced>>

NumberTaken(n) == \E i \in Issued : number[i] = n

(* The INSERT waits for a transaction that has inserted the same number. *)
InsertInvoice(g) ==
  /\ g \in Runs /\ at[g] = "numbered"
  /\ \A h \in Runs : at[h] = "written" => numbered[h] # numbered[g]
  /\ IF current[g][1] \in gone \/ NumberTaken(numbered[g])
       THEN Rollback(g) ELSE Goto(g, "written")
  /\ UNCHANGED <<tables, locals, second, people, faults, raced>>

InvoiceTakesEffect(g) ==
  LET i == <<g, current[g]>>
  IN /\ status' = [status EXCEPT ![i] = "pending"]
     /\ number' = [number EXCEPT ![i] = numbered[g]]
     /\ raced' = raced \cup {<<h, current[h]>> : h \in
                   {h \in Runs \ {g} : current[h] = current[g]
                                       /\ at[h] \in {"checked", "numbered", "written"}}}
     /\ UNCHANGED <<isDisputed, paidBy>>

CommitInvoice(g) ==
  /\ g \in Runs /\ at[g] = "written"
  /\ InvoiceTakesEffect(g)
  /\ \/ Goto(g, "committed") /\ UNCHANGED faults
     \/ Fault /\ Rollback(g)          \* committed, and the answer is lost
  /\ UNCHANGED <<locals, second, people>>

-----------------------------------------------------------------------------
(* What the three have in common.                                           *)

Invoice(r) == IF r \in Runs THEN <<r, current[r]>> ELSE target[r]

(* The message is published or, which is only logged, it is not; then the   *)
(* connection goes back.                                                    *)
Publish(r) ==
  /\ at[r] = "committed"
  /\ Goto(r, IF r \in Runs THEN "listed" ELSE "succeeded")
  /\ UNCHANGED <<tables, locals, second, people, faults, raced>>

(* A statement fails, the query of the consumption in TimescaleDB included. *)
StatementFails(r) ==
  /\ Open(r)
  /\ Fault
  /\ Rollback(r)
  /\ second' = second \ {r}
  /\ UNCHANGED <<tables, locals, people, raced>>

(* What a payment or an invoice refers to its user by keeps the user's row  *)
(* until the COMMIT.                                                        *)
Referred(u) == \E r \in Payers \cup Runs : at[r] = "written" /\ Bills(Invoice(r), u)

(* An admin deletes a user: invoices and payments go with it.  The DELETE   *)
(* waits for the rows it needs.                                             *)
DeleteUser(u) ==
  /\ u \notin gone
  /\ Free
  /\ Fault
  /\ ~Referred(u)
  /\ gone' = gone \cup {u}
  /\ status' = [i \in Ids |-> IF Bills(i, u) THEN "none" ELSE status[i]]
  /\ number' = [i \in Ids |-> IF Bills(i, u) THEN 0 ELSE number[i]]
  /\ isDisputed' = [i \in Ids |-> IF Bills(i, u) THEN FALSE ELSE isDisputed[i]]
  /\ paidBy' = {p \in paidBy : ~Bills(target[p], u)}
  /\ UNCHANGED <<at, locals, second, meter, moved, raced>>

(* A user is given a meter nobody has, or his own is taken away.  The       *)
(* column is a key of the users: the UPDATE waits as the DELETE does.       *)
ChangeMeter(u, m) ==
  /\ u \notin gone /\ m # meter[u]
  /\ m \in Meters => \A w \in Users \ gone : meter[w] # m
  /\ Free
  /\ Fault
  /\ ~Referred(u)
  /\ meter' = [meter EXCEPT ![u] = m]
  /\ moved' = IF meter[u] \in Meters THEN moved \cup {u} ELSE moved
  /\ UNCHANGED <<tables, at, locals, second, gone, raced>>

(* The gateway ends: its connections are gone, and the transactions with    *)
(* them.                                                                    *)
Crash ==
  /\ Fault
  /\ at' = [r \in Requests |-> IF at[r] \in {"ready", "succeeded"} THEN at[r] ELSE "failed"]
  /\ second' = {}
  /\ UNCHANGED <<tables, locals, people, raced>>

Pay(p) == CheckInvoice(p) \/ WritePayment(p) \/ CommitPayment(p)
Dispute(d) == TakeSecond(d) \/ WriteDispute(d) \/ CommitDispute(d)
Generate(g) == ListUsers(g) \/ NextUser(g) \/ CheckPeriod(g) \/ TakeNumber(g)
                 \/ InsertInvoice(g) \/ CommitInvoice(g)
Work(r) == Connect(r) \/ Pay(r) \/ Dispute(r) \/ Generate(r) \/ Publish(r)

Next ==
  \/ \E r \in Requests : Work(r) \/ StatementFails(r) \/ ListFails(r)
  \/ \E u \in Users : DeleteUser(u) \/ \E m \in Meters \cup {NoMeter} : ChangeMeter(u, m)
  \/ Crash

Spec == Init /\ [][Next]_vars

-----------------------------------------------------------------------------
Stages == {"ready", "listed", "begun", "checked", "numbered", "written", "committed",
           "succeeded", "failed"}

TypeOK ==
  /\ status \in [Ids -> {"none", "pending", "disputed", "paid"}]
  /\ number \in [Ids -> Nat]
  /\ isDisputed \in [Ids -> BOOLEAN]
  /\ paidBy \subseteq Payers
  /\ at \in [Requests -> Stages]
  /\ target \in [Payers \cup Disputers -> Ids \cup {NoInvoice}]
  /\ asking \in [Runs -> SUBSET Regions]
  /\ todo \in [Runs -> SUBSET Accounts]
  /\ current \in [Runs -> Accounts \cup {NoUser}]
  /\ numbered \in [Runs -> Nat]
  /\ second \subseteq Disputers
  /\ meter \in [Users -> Meters \cup {NoMeter}]
  /\ gone \subseteq Users /\ moved \subseteq Users
  /\ faults \in 0 .. MaxFaults
  /\ raced \subseteq Payers \cup Ids

(* Whatever overlaps, fails or crashes, the tables change as if every       *)
(* payment, dispute, generation and deletion were one step: a paid invoice  *)
(* stays paid, and no dispute takes hold of it.                             *)
Ledger == INSTANCE InvoiceLedger WITH
  Invoices <- Ids, Payments <- Payers, paid <- {<<p, target[p]>> : p \in paidBy}

ImplementsLedger == Ledger!Spec

(* An invoice is paid when and only when a payment of it is committed; it   *)
(* is disputed only with its flag, and the flag is left by nothing but a    *)
(* payment.                                                                 *)
PaidIffPayment ==
  \A i \in Ids : status[i] = "paid" <=> \E p \in paidBy : target[p] = i
DisputeIsFlagged ==
  \A i \in Ids : /\ status[i] = "disputed" => isDisputed[i]
                 /\ isDisputed[i] => status[i] \in {"disputed", "paid"}

LedgerConsistent == PaidIffPayment /\ DisputeIsFlagged

(* Invoice numbers are unique, have no gap as long as no user is deleted,   *)
(* and never need a digit more than they have.                              *)
NumbersUnique ==
  \A i, j \in Issued : number[i] = number[j] => i = j
NumbersHaveNoGap ==
  gone = {} => {number[i] : i \in Issued} = 1 .. Cardinality(Issued)
NumbersFit ==
  \A i \in Issued : number[i] \in 1 .. Capacity

NumberingSound == NumbersUnique /\ NumbersHaveNoGap /\ NumbersFit

(* What the books say of a month, invoice by invoice. *)
BooksSound == LedgerConsistent /\ NumberingSound

(* Two payments of an invoice, or two invoices of a user and a meter for    *)
(* the month, are committed only if one of them had been checked before the *)
(* other's commit: "Invoice is already paid" and "Invoice already exists"   *)
(* hold for requests one after the other.  The check asks for the meter     *)
(* too, so a run after the other may bill a user again, for another meter;  *)
(* but only one whose meter was changed or taken away.                      *)
PaidTwiceOnlyByRace ==
  \A p, q \in paidBy : p # q /\ target[p] = target[q] => p \in raced \/ q \in raced
BilledTwiceOnlyByRace ==
  \A i, j \in Issued : i # j /\ i[2] = j[2] => i \in raced \/ j \in raced
BilledAgainOnlyIfMoved ==
  \A i, j \in Issued : i[2][1] = j[2][1] /\ i[2] # j[2] => i[2][1] \in moved

TwiceOnlyByRace == PaidTwiceOnlyByRace /\ BilledTwiceOnlyByRace /\ BilledAgainOnlyIfMoved

(* Nobody is left waiting for a connection, a row or a number as long as    *)
(* one request can go on, and one can until all are done, with one          *)
(* exception: when disputes hold every connection, each waiting for its     *)
(* second, nothing ever moves again.                                        *)
Ended ==
  \A r \in Requests : \/ at[r] \in {"succeeded", "failed"}
                       \/ /\ r \notin Runs /\ at[r] = "ready"
                          /\ ~\E i \in Issued : Bills(i, Owner[r])

(* What a request waits for, by where it is.                                *)
CanWork(r) ==
  \/ at[r] = "committed"
  \/ /\ at[r] = "ready" /\ Free
     /\ r \in Runs \/ \E i \in Issued : Bills(i, Owner[r])
  \/ r \in Payers /\ (at[r] \in {"begun", "written"} \/ (at[r] = "checked" /\ ~Locked(target[r])))
  \/ /\ r \in Disputers
     /\ \/ at[r] = "begun" /\ (IF r \in second THEN ~Locked(target[r]) ELSE Free)
        \/ at[r] = "written"
  \/ /\ r \in Runs
     /\ \/ at[r] \in {"begun", "checked", "written"}
        \/ at[r] = "listed" /\ (Free \/ (todo[r] = {} /\ asking[r] = {}))
        \/ at[r] = "numbered" /\ \A h \in Runs : at[h] = "written" => numbered[h] # numbered[r]

Waiting(d) == d \in Disputers \ second /\ at[d] = "begun"
DisputesHoldAll == ~Free /\ \A r \in Requests : Holds(r) => Waiting(r)

SomebodyCanWork == Ended \/ DisputesHoldAll \/ \E r \in Requests : CanWork(r)

NobodyStuck ==
  /\ SomebodyCanWork
  /\ \A r \in Requests : CanWork(r) <=> ENABLED Work(r)
=============================================================================
