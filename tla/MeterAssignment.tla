-------------------------- MODULE MeterAssignment --------------------------
(***************************************************************************)
(* Registration and meter assignment in the API gateway:                    *)
(* register.controller.ts and meter-assignment.service.ts over the table    *)
(* users, where an email and a meter are each unique.  An assignment is a   *)
(* transaction (READ COMMITTED) on a connection of postgresPool; to look    *)
(* for a free meter it takes a second connection of the same pool, which    *)
(* has no timeout.                                                          *)
(*                                                                         *)
(* A user is named by its email.  A statement of its own is one step: it    *)
(* needs a free connection, and gives it back.  A definition Mut_X is a     *)
(* mutated form of the definition it precedes.                              *)
(***************************************************************************)
EXTENDS Integers, FiniteSets

CONSTANTS
  Users,          \* emails
  MeterCount,     \* meters are numbered from 1
  Registrations,  \* requests to register
  Admins,         \* requests of an admin to assign a meter
  Bulks,          \* requests to assign a meter to everyone without one
  Owner,          \* the user who registers, or is to get a meter
  Wish,           \* the meter an admin asks for, or NoMeter
  PoolSize,       \* connections of postgresPool
  MaxFaults       \* bound: failures, and statements of admins on users

Requests == Registrations \cup Admins \cup Bulks
Meters == 1 .. MeterCount
NoMeter == 0
NoRow == -1
NoUser == <<>>

ASSUME AssignmentAssumption ==
  /\ Registrations \cap Admins = {} /\ Registrations \cap Bulks = {} /\ Admins \cap Bulks = {}
  /\ MeterCount \in Nat /\ PoolSize \in Nat \ {0} /\ MaxFaults \in Nat
  /\ Owner \in [Registrations \cup Admins -> Users]
  /\ Wish \in [Admins -> Meters \cup {NoMeter}]

VARIABLES
  meter,     \* users: the meter, NoMeter for NULL, NoRow when there is no row
  at,        \* what each request is doing
  user,      \* the user a bulk assignment is serving
  todo,      \* the users it has still to serve
  chosen,    \* the meter it means to assign
  faults,    \* faults so far
  overtaken  \* history: assignments that a failure hit, or whose user or
             \* meter another statement changed, while they were underway

locals == <<user, todo, chosen>>
vars == <<meter, at, locals, faults, overtaken>>

-----------------------------------------------------------------------------
Exists(u) == meter[u] # NoRow
Assigned == {meter[u] : u \in Users} \cap Meters
TakenByOther(m, u) == \E v \in Users \ {u} : meter[v] = m

Subject(r) == IF r \in Bulks THEN user[r] ELSE Owner[r]
Assigning(r) == at[r] \in {"begun", "unmetered", "found", "verified", "written"}
Free == Cardinality({r \in Requests : Assigning(r)}) < PoolSize

(* The lock of an uncommitted update on its user's row. *)
Locked(u) == \E r \in Requests : at[r] = "written" /\ Subject(r) = u

Init ==
  /\ meter = [u \in Users |-> NoRow]
  /\ at = [r \in Requests |-> "ready"]
  /\ user = [k \in Bulks |-> NoUser]
  /\ todo = [k \in Bulks |-> {}]
  /\ chosen = [r \in Requests |-> NoMeter]
  /\ faults = 0 /\ overtaken = {}

Goto(r, stage) == at' = [at EXCEPT ![r] = stage]
Fault == faults < MaxFaults /\ faults' = faults + 1

(* What a change of this user, or of this meter, overtakes. *)
Underway(r) == Assigning(r) \/ at[r] = "created"
Rivals(u, m) ==
  {r \in Requests : Underway(r) /\ (Subject(r) = u \/ (chosen[r] = m /\ m \in Meters))}

-----------------------------------------------------------------------------
(* registerController up to the assignment.                                 *)

LookForEmail(r) ==
  /\ r \in Registrations /\ at[r] = "ready"
  /\ Free
  /\ Goto(r, IF Exists(Owner[r]) THEN "refused" ELSE "checked")
  /\ UNCHANGED <<meter, locals, faults, overtaken>>

Mut_EmailCheckTrusted(r) ==
  /\ r \in Registrations /\ at[r] = "checked"
  /\ Free
  /\ meter' = [meter EXCEPT ![Owner[r]] = NoMeter]
  /\ Goto(r, "created")
  /\ UNCHANGED <<locals, faults, overtaken>>

(* createUser: the unique email decides between two that found none. *)
CreateUser(r) ==
  /\ r \in Registrations /\ at[r] = "checked"
  /\ Free
  /\ IF Exists(Owner[r])
     THEN Goto(r, "refused") /\ UNCHANGED meter
     ELSE Goto(r, "created") /\ meter' = [meter EXCEPT ![Owner[r]] = NoMeter]
  /\ UNCHANGED <<locals, faults, overtaken>>

-----------------------------------------------------------------------------
(* assignMeterToUser.                                                       *)

(* The error is caught: a registration goes on without a meter, a bulk      *)
(* assignment with the next user, an admin is told.                         *)
Ends(r, assigned) ==
  Goto(r, IF r \in Bulks THEN "listed"
          ELSE IF assigned THEN "assigned"
          ELSE IF r \in Registrations THEN "unserved" ELSE "refused")

(* A registration gives no meter, an admin may. *)
Connect(r) ==
  /\ \/ r \in Registrations /\ at[r] = "created"
     \/ r \in Admins /\ at[r] = "ready"
  /\ Free
  /\ Goto(r, "begun")
  /\ chosen' = [chosen EXCEPT ![r] = IF r \in Admins THEN Wish[r] ELSE NoMeter]
  /\ UNCHANGED <<meter, user, todo, faults, overtaken>>

Mut_ReadThroughPool(r) ==
  /\ at[r] = "begun" /\ Free
  /\ IF meter[Subject(r)] = NoMeter
     THEN Goto(r, IF chosen[r] = NoMeter THEN "unmetered" ELSE "found")
     ELSE Ends(r, FALSE)
  /\ UNCHANGED <<meter, locals, faults, overtaken>>

ReadUser(r) ==
  /\ at[r] = "begun"
  /\ IF meter[Subject(r)] = NoMeter
     THEN Goto(r, IF chosen[r] = NoMeter THEN "unmetered" ELSE "found")
     ELSE Ends(r, FALSE)
  /\ UNCHANGED <<meter, locals, faults, overtaken>>

First(m, numbers) == m \in numbers /\ \A n \in numbers : m <= n

Mut_PastTheRange(r) ==
  /\ at[r] = "unmetered"
  /\ Free
  /\ \E m \in 1 .. MeterCount + 1 : /\ First(m, (1 .. MeterCount + 1) \ Assigned)
                                   /\ chosen' = [chosen EXCEPT ![r] = m]
  /\ Goto(r, "found")
  /\ UNCHANGED <<meter, user, todo, faults, overtaken>>

(* getNextAvailableMeter, on a connection of its own: the first of the      *)
(* numbers that nobody has.                                                 *)
FindMeter(r) ==
  /\ at[r] = "unmetered"
  /\ Free
  /\ \/ /\ \E m \in Meters : /\ First(m, Meters \ Assigned)
                             /\ chosen' = [chosen EXCEPT ![r] = m]
        /\ Goto(r, "found")
     \/ /\ Meters \subseteq Assigned
        /\ Ends(r, FALSE) /\ UNCHANGED chosen
  /\ UNCHANGED <<meter, user, todo, faults, overtaken>>

CheckMeter(r) ==
  /\ at[r] = "found"
  /\ IF TakenByOther(chosen[r], Subject(r)) THEN Ends(r, FALSE) ELSE Goto(r, "verified")
  /\ UNCHANGED <<meter, locals, faults, overtaken>>

(* The UPDATE waits for the user's row, and for a transaction that has      *)
(* written the same meter.  It asks nothing but that the meter is unique.   *)
WriteMeter(r) ==
  /\ at[r] = "verified"
  /\ ~Locked(Subject(r))
  /\ \A s \in Requests : at[s] = "written" => chosen[s] # chosen[r]
  /\ IF ~Exists(Subject(r)) \/ TakenByOther(chosen[r], Subject(r))
     THEN Ends(r, FALSE) ELSE Goto(r, "written")
  /\ UNCHANGED <<meter, locals, faults, overtaken>>

CommitMeter(r) ==
  /\ at[r] = "written"
  /\ meter' = [meter EXCEPT ![Subject(r)] = chosen[r]]
  /\ LET rivals == Rivals(Subject(r), chosen[r]) \ {r}
     IN \/ /\ Ends(r, TRUE) /\ UNCHANGED faults
           /\ overtaken' = overtaken \cup rivals
        \/ /\ Fault /\ Ends(r, FALSE)   \* committed, and the answer is lost
           /\ overtaken' = overtaken \cup rivals \cup {r}
  /\ UNCHANGED locals

-----------------------------------------------------------------------------
(* bulkAssignMeters.                                                        *)

ListUnmetered(k) ==
  /\ k \in Bulks /\ at[k] = "ready"
  /\ Free
  /\ todo' = [todo EXCEPT ![k] = {u \in Users : meter[u] = NoMeter}]
  /\ Goto(k, "listed")
  /\ UNCHANGED <<meter, user, chosen, faults, overtaken>>

NextUser(k) ==
  /\ k \in Bulks /\ at[k] = "listed"
  /\ Free
  /\ \E u \in todo[k] : /\ todo' = [todo EXCEPT ![k] = @ \ {u}]
                        /\ user' = [user EXCEPT ![k] = u]
  /\ chosen' = [chosen EXCEPT ![k] = NoMeter]
  /\ Goto(k, "begun")
  /\ overtaken' = overtaken \ {k}
  /\ UNCHANGED <<meter, faults>>

BulkEnds(k) ==
  /\ k \in Bulks /\ at[k] = "listed"
  /\ todo[k] = {}
  /\ Goto(k, "done")
  /\ UNCHANGED <<meter, locals, faults, overtaken>>

-----------------------------------------------------------------------------
(* A statement of the transaction fails, or the one that looks for a meter, *)
(* or there is no connection to be had.                                     *)
StatementFails(r) ==
  /\ Underway(r)
  /\ Fault
  /\ Ends(r, FALSE)
  /\ overtaken' = overtaken \cup {r}
  /\ UNCHANGED <<meter, locals>>

(* The gateway ends, and with it every request and transaction. *)
Crash ==
  /\ Fault
  /\ at' = [r \in Requests |-> IF at[r] \in {"ready", "assigned", "unserved", "done"}
                                THEN at[r] ELSE "refused"]
  /\ UNCHANGED <<meter, locals, overtaken>>

(* A statement of an admin on a user's row, for which it waits.             *)
Change(u, m) ==
  /\ Exists(u)
  /\ Free /\ ~Locked(u)
  /\ Fault
  /\ meter' = [meter EXCEPT ![u] = m]
  /\ overtaken' = overtaken \cup Rivals(u, m)
  /\ UNCHANGED <<at, locals>>

Unassign(u) == Change(u, NoMeter)
DeleteUser(u) == Change(u, NoRow)

(* The older route for an assignment does not ask whether the user has one. *)
SetMeter(u, m) ==
  /\ ~TakenByOther(m, u)
  /\ \A s \in Requests : at[s] = "written" => chosen[s] # m
  /\ Change(u, m)

Assign(r) ==
  Connect(r) \/ ReadUser(r) \/ FindMeter(r) \/ CheckMeter(r) \/ WriteMeter(r) \/ CommitMeter(r)
Work(r) ==
  \/ LookForEmail(r) \/ CreateUser(r)
  \/ Assign(r)
  \/ ListUnmetered(r) \/ NextUser(r) \/ BulkEnds(r)

Next ==
  \/ \E r \in Requests : Work(r) \/ StatementFails(r)
  \/ \E u \in Users : Unassign(u) \/ DeleteUser(u) \/ \E m \in Meters : SetMeter(u, m)
  \/ Crash

Spec == Init /\ [][Next]_vars

-----------------------------------------------------------------------------
Stages == {"ready", "checked", "created", "begun", "unmetered", "found", "verified", "written",
           "listed", "assigned", "unserved", "refused", "done"}

TypeOK ==
  /\ meter \in [Users -> Meters \cup {NoMeter, NoRow}]
  /\ at \in [Requests -> Stages]
  /\ user \in [Bulks -> Users \cup {NoUser}]
  /\ todo \in [Bulks -> SUBSET Users]
  /\ chosen \in [Requests -> Meters \cup {NoMeter}]
  /\ faults \in 0 .. MaxFaults
  /\ overtaken \subseteq Requests

(* No two users have one meter, whoever assigns and however they overlap,   *)
(* and an uncommitted update never waits to break this.                     *)
OneUserPerMeter ==
  /\ \A u, v \in Users : u # v /\ meter[u] \in Meters => meter[u] # meter[v]
  /\ \A r \in Requests : at[r] = "written" =>
       chosen[r] \in Meters /\ ~TakenByOther(chosen[r], Subject(r)) /\ Exists(Subject(r))

(* A registration is left without a meter only when none is free or another *)
(* took the meter it had found, changed its user, or it failed; and a user  *)
(* who has a meter loses it only to an admin's statement, or to an          *)
(* assignment that had found the user without one before.                   *)
ServedUnlessOvertaken ==
  [][/\ \A r \in Registrations : at[r] # "unserved" /\ at'[r] = "unserved" =>
          r \in overtaken' \/ Assigned = Meters
     /\ \A u \in Users : meter[u] \in Meters /\ meter'[u] # meter[u] =>
          \/ at' = at
          \/ \E r \in overtaken : at[r] = "written" /\ at'[r] # "written" /\ Subject(r) = u
    ]_vars

(* A request is left waiting only when assignments hold every connection    *)
(* and each of them waits for one more.                                     *)
Ended == \A r \in Requests : at[r] \in {"assigned", "unserved", "refused", "done"}
Exhausted ==
  /\ ~Free
  /\ \A r \in Requests : Assigning(r) => at[r] = "unmetered"

(* What a request waits for, by where it is.                                *)
CanWork(r) ==
  \/ at[r] \in {"begun", "found", "written"}
  \/ at[r] \in {"ready", "checked", "created", "unmetered"} /\ Free
  \/ /\ at[r] = "verified" /\ ~Locked(Subject(r))
     /\ \A s \in Requests : at[s] = "written" => chosen[s] # chosen[r]
  \/ at[r] = "listed" /\ (Free \/ todo[r] = {})

SomebodyCanWork == Ended \/ Exhausted \/ \E r \in Requests : CanWork(r)

StuckOnlyByExhaustion ==
  /\ SomebodyCanWork
  /\ \A r \in Requests : CanWork(r) <=> ENABLED Work(r)
=============================================================================
