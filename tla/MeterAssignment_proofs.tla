----------------------- MODULE MeterAssignment_proofs -----------------------
(* Proofs about MeterAssignment, for all sets of users, meters, requests.   *)
EXTENDS MeterAssignment, TLAPS

(* What a request works on. *)
Targeted ==
  /\ \A k \in Bulks : Assigning(k) => user[k] \in Users
  /\ \A r \in Requests : at[r] \in {"found", "verified", "written"} => chosen[r] \in Meters
  /\ \A r \in Requests :
       /\ at[r] \in {"checked", "created"} => r \in Registrations
       /\ at[r] = "listed" => r \in Bulks
       /\ at[r] = "begun" /\ r \notin Admins => chosen[r] = NoMeter

(* Until something overtakes it, an assignment finds what it has read.      *)
Undisturbed ==
  \A r \in Requests \ overtaken :
    /\ r \in Registrations /\ at[r] \in {"created", "begun"} => meter[Owner[r]] = NoMeter
    /\ at[r] \in {"unmetered", "found", "verified", "written"} => meter[Subject(r)] = NoMeter
    /\ r \notin Admins /\ at[r] \in {"found", "verified", "written"} =>
         ~TakenByOther(chosen[r], Subject(r))

(* Two uncommitted updates are about two users and two meters. *)
WrittenApart ==
  \A r, s \in Requests : at[r] = "written" /\ at[s] = "written" /\ r # s =>
    Subject(r) # Subject(s) /\ chosen[r] # chosen[s]

IInv == TypeOK /\ Targeted /\ WrittenApart /\ OneUserPerMeter /\ Undisturbed

-----------------------------------------------------------------------------
LEMMA MetersApart == NoMeter \notin Meters /\ NoRow \notin Meters /\ NoMeter # NoRow
BY DEF NoMeter, NoRow, Meters

(* The initial states satisfy the invariant. *)
LEMMA InitInvariant == Init => IInv
<1>. SUFFICES ASSUME Init PROVE IInv
  OBVIOUS
<1>. USE MetersApart, AssignmentAssumption DEF Init
<1>1. TypeOK
  BY DEF TypeOK, Stages
<1>2. Targeted /\ WrittenApart
  BY DEF Targeted, WrittenApart, Assigning, Requests
<1>3. OneUserPerMeter /\ Undisturbed
  BY DEF OneUserPerMeter, Undisturbed, Requests
<1>. QED
  BY <1>1, <1>2, <1>3 DEF IInv

(* Steps that leave the users' rows alone. *)
LEMMA QuietStep ==
  ASSUME IInv, NEW r \in Requests,
         \/ LookForEmail(r)
         \/ Connect(r)
         \/ ReadUser(r)
         \/ CheckMeter(r)
         \/ WriteMeter(r)
         \/ ListUnmetered(r)
         \/ NextUser(r)
         \/ BulkEnds(r)
         \/ StatementFails(r)
  PROVE  IInv'
<1>. USE AssignmentAssumption, MetersApart
     DEF IInv, locals, Goto, Requests, Assigning, Subject, Exists, TakenByOther
<1>1. CASE LookForEmail(r)
  <2>. USE <1>1 DEF LookForEmail
  <2>1. TypeOK'
    BY DEF TypeOK, Stages
  <2>2. Targeted'
    BY DEF Targeted, TypeOK
  <2>3. WrittenApart'
    BY DEF WrittenApart, Locked, TypeOK
  <2>4. OneUserPerMeter'
    BY DEF OneUserPerMeter, WrittenApart, Locked, Targeted, TypeOK
  <2>5. Undisturbed'
    BY DEF Undisturbed, TypeOK, Targeted
  <2>. QED
    BY <2>1, <2>2, <2>3, <2>4, <2>5
<1>2. CASE Connect(r)
  <2>. USE <1>2 DEF Connect
  <2>1. TypeOK'
    BY DEF TypeOK, Stages
  <2>2. Targeted'
    BY DEF Targeted, TypeOK
  <2>3. WrittenApart'
    BY DEF WrittenApart, Locked, TypeOK
  <2>4. OneUserPerMeter'
    BY DEF OneUserPerMeter, WrittenApart, Locked, Targeted, TypeOK
  <2>5. Undisturbed'
    BY DEF Undisturbed, TypeOK, Targeted
  <2>. QED
    BY <2>1, <2>2, <2>3, <2>4, <2>5
<1>3. CASE ReadUser(r)
  <2>. USE <1>3 DEF ReadUser, Ends
  <2>1. TypeOK'
    BY DEF TypeOK, Stages
  <2>2. Targeted'
    BY DEF Targeted, TypeOK
  <2>3. WrittenApart'
    BY DEF WrittenApart, Locked, TypeOK
  <2>4. OneUserPerMeter'
    BY DEF OneUserPerMeter, WrittenApart, Locked, Targeted, TypeOK
  <2>5. Undisturbed'
    BY DEF Undisturbed, TypeOK, Targeted
  <2>. QED
    BY <2>1, <2>2, <2>3, <2>4, <2>5
<1>4. CASE CheckMeter(r)
  <2>. USE <1>4 DEF CheckMeter, Ends
  <2>1. TypeOK'
    BY DEF TypeOK, Stages
  <2>2. Targeted'
    BY DEF Targeted, TypeOK
  <2>3. WrittenApart'
    BY DEF WrittenApart, Locked, TypeOK
  <2>4. OneUserPerMeter'
    BY DEF OneUserPerMeter, WrittenApart, Locked, Targeted, TypeOK
  <2>5. Undisturbed'
    BY DEF Undisturbed, TypeOK, Targeted
  <2>. QED
    BY <2>1, <2>2, <2>3, <2>4, <2>5
<1>5. CASE WriteMeter(r)
  <2>. USE <1>5 DEF WriteMeter, Ends
  <2>1. TypeOK'
    BY DEF TypeOK, Stages
  <2>2. Targeted'
    BY DEF Targeted, TypeOK
  <2>3. WrittenApart'
    BY DEF WrittenApart, Locked, TypeOK
  <2>4. OneUserPerMeter'
    BY DEF OneUserPerMeter, WrittenApart, Locked, Targeted, TypeOK
  <2>5. Undisturbed'
    BY DEF Undisturbed, TypeOK, Targeted
  <2>. QED
    BY <2>1, <2>2, <2>3, <2>4, <2>5
<1>6. CASE ListUnmetered(r)
  <2>. USE <1>6 DEF ListUnmetered
  <2>1. TypeOK'
    BY DEF TypeOK, Stages
  <2>2. Targeted'
    BY DEF Targeted, TypeOK
  <2>3. WrittenApart'
    BY DEF WrittenApart, Locked, TypeOK
  <2>4. OneUserPerMeter'
    BY DEF OneUserPerMeter, WrittenApart, Locked, Targeted, TypeOK
  <2>5. Undisturbed'
    BY DEF Undisturbed, TypeOK, Targeted
  <2>. QED
    BY <2>1, <2>2, <2>3, <2>4, <2>5
<1>7. CASE NextUser(r)
  <2>. USE <1>7 DEF NextUser
  <2>1. TypeOK'
    BY DEF TypeOK, Stages
  <2>2. Targeted'
    BY DEF Targeted, TypeOK
  <2>3. WrittenApart'
    BY DEF WrittenApart, Locked, TypeOK
  <2>4. OneUserPerMeter'
    BY DEF OneUserPerMeter, WrittenApart, Locked, Targeted, TypeOK
  <2>5. Undisturbed'
    BY DEF Undisturbed, TypeOK, Targeted
  <2>. QED
    BY <2>1, <2>2, <2>3, <2>4, <2>5
<1>8. CASE BulkEnds(r)
  <2>. USE <1>8 DEF BulkEnds
  <2>1. TypeOK'
    BY DEF TypeOK, Stages
  <2>2. Targeted'
    BY DEF Targeted, TypeOK
  <2>3. WrittenApart'
    BY DEF WrittenApart, Locked, TypeOK
  <2>4. OneUserPerMeter'
    BY DEF OneUserPerMeter, WrittenApart, Locked, Targeted, TypeOK
  <2>5. Undisturbed'
    BY DEF Undisturbed, TypeOK, Targeted
  <2>. QED
    BY <2>1, <2>2, <2>3, <2>4, <2>5
<1>9. CASE StatementFails(r)
  <2>. USE <1>9 DEF StatementFails, Ends, Fault, Underway
  <2>1. TypeOK'
    BY DEF TypeOK, Stages
  <2>2. Targeted'
    BY DEF Targeted, TypeOK
  <2>3. WrittenApart'
    BY DEF WrittenApart, Locked, TypeOK
  <2>4. OneUserPerMeter'
    BY DEF OneUserPerMeter, WrittenApart, Locked, Targeted, TypeOK
  <2>5. Undisturbed'
    BY DEF Undisturbed, TypeOK, Targeted
  <2>. QED
    BY <2>1, <2>2, <2>3, <2>4, <2>5
<1>. QED
  BY <1>1, <1>2, <1>3, <1>4, <1>5, <1>6, <1>7, <1>8, <1>9

(* The meter found is free when it is found. *)
LEMMA FindMeterStep ==
  ASSUME IInv, NEW r \in Requests, FindMeter(r)
  PROVE  IInv'
<1>. USE AssignmentAssumption, MetersApart
     DEF IInv, locals, Goto, Requests, Assigning, Subject, Exists, TakenByOther
<1>1. PICK m :
        /\ at[r] = "unmetered"
        /\ UNCHANGED <<meter, user, todo, faults, overtaken>>
        /\ \/ Ends(r, FALSE) /\ UNCHANGED chosen
           \/ /\ m \in Meters /\ \A u \in Users : meter[u] # m
              /\ Goto(r, "found") /\ chosen' = [chosen EXCEPT ![r] = m]
  <2>1. CASE Ends(r, FALSE) /\ UNCHANGED chosen
    BY <2>1 DEF FindMeter
  <2>2. CASE \E m \in Meters : First(m, Meters \ Assigned)
    BY <2>2 DEF FindMeter, First, Assigned
  <2>. QED
    BY <2>1, <2>2 DEF FindMeter
<1>4. TypeOK'
  BY <1>1 DEF TypeOK, Stages, Ends
<1>5. Targeted'
  BY <1>1 DEF Targeted, TypeOK, Ends
<1>6. WrittenApart'
  BY <1>1 DEF WrittenApart, TypeOK, Ends
<1>7. OneUserPerMeter'
  BY <1>1 DEF OneUserPerMeter, TypeOK, Ends
<1>8. Undisturbed'
  BY <1>1 DEF Undisturbed, TypeOK, Ends
<1>. QED
  BY <1>4, <1>5, <1>6, <1>7, <1>8

(* A new row has no meter, and nobody was at work on it. *)
LEMMA CreateUserStep ==
  ASSUME IInv, NEW r \in Requests, CreateUser(r)
  PROVE  IInv'
<1>. USE AssignmentAssumption, MetersApart
     DEF IInv, locals, Goto, Requests, Assigning, Subject, Exists, TakenByOther
<1>1. /\ r \in Registrations /\ at[r] = "checked" /\ Owner[r] \in Users
      /\ UNCHANGED <<locals, faults, overtaken>>
      /\ \/ Goto(r, "refused") /\ UNCHANGED meter
         \/ /\ meter[Owner[r]] = NoRow
            /\ Goto(r, "created") /\ meter' = [meter EXCEPT ![Owner[r]] = NoMeter]
  BY DEF CreateUser
<1>2. TypeOK'
  BY <1>1 DEF TypeOK, Stages
<1>3. Targeted'
  BY <1>1 DEF Targeted, TypeOK
<1>4. WrittenApart'
  BY <1>1 DEF WrittenApart, TypeOK
<1>5. OneUserPerMeter'
  BY <1>1 DEF OneUserPerMeter, Targeted, TypeOK
<1>6. Undisturbed'
  BY <1>1 DEF Undisturbed, Targeted, TypeOK
<1>. QED
  BY <1>2, <1>3, <1>4, <1>5, <1>6

(* A commit overtakes those at work on the same user or meter. *)
LEMMA CommitMeterStep ==
  ASSUME IInv, NEW r \in Requests, CommitMeter(r)
  PROVE  IInv'
<1>. USE AssignmentAssumption, MetersApart
     DEF IInv, locals, Goto, Requests, Assigning, Subject, Exists, TakenByOther
<1>. DEFINE u == Subject(r)
            m == chosen[r]
<1>1. /\ at[r] = "written" /\ u \in Users /\ m \in Meters
      /\ meter' = [meter EXCEPT ![u] = m] /\ UNCHANGED locals
      /\ \A v \in Users \ {u} : meter[v] # m
  BY DEF CommitMeter, Targeted, OneUserPerMeter
<1>2. /\ at' \in [Requests -> Stages] /\ at'[r] \in {"listed", "assigned", "unserved", "refused"}
      /\ \A s \in Requests \ {r} : at'[s] = at[s]
      /\ at'[r] = "listed" => r \in Bulks
  BY DEF CommitMeter, Ends, TypeOK, Stages
<1>3. /\ overtaken \subseteq overtaken' /\ overtaken' \subseteq Requests
      /\ \A s \in Requests \ {r} : Underway(s) /\ (Subject(s) = u \/ chosen[s] = m) => s \in overtaken'
  BY <1>1 DEF CommitMeter, Rivals, TypeOK
<1>4. TypeOK'
  <2>1. faults' \in 0 .. MaxFaults
    <3>1. faults' = faults \/ (faults < MaxFaults /\ faults' = faults + 1)
      BY DEF CommitMeter, Fault
    <3>. QED
      BY <3>1 DEF TypeOK
  <2>. QED
    BY <1>1, <1>2, <1>3, <2>1 DEF TypeOK
<1>5. Targeted'
  BY <1>1, <1>2 DEF Targeted, TypeOK
<1>6. WrittenApart'
  BY <1>1, <1>2 DEF WrittenApart, TypeOK
<1>7. OneUserPerMeter'
  <2>1. \A s \in Requests \ {r} : at[s] = "written" => Subject(s) # u /\ chosen[s] # m
    BY <1>1 DEF WrittenApart
  <2>. HIDE DEF u, m
  <2>2. meter'[u] = m /\ \A v \in Users \ {u} : meter'[v] = meter[v]
    BY <1>1 DEF TypeOK
  <2>3. \A v, w \in Users : v # w /\ meter'[v] \in Meters => meter'[v] # meter'[w]
    BY <1>1, <2>2 DEF OneUserPerMeter
  <2>4. ASSUME NEW s \in Requests, at'[s] = "written"
        PROVE  chosen[s] \in Meters /\ ~TakenByOther(chosen[s], Subject(s))' /\ meter'[Subject(s)] # NoRow
    <3>1. s # r /\ at[s] = "written" /\ Subject(s) # u /\ chosen[s] # m
      BY <1>2, <2>1, <2>4
    <3>2. Subject(s) \in Users
      BY <3>1 DEF Targeted
    <3>. QED
      BY <1>1, <2>2, <3>1, <3>2 DEF OneUserPerMeter
  <2>. QED
    BY <1>1, <2>3, <2>4 DEF OneUserPerMeter
<1>8. Undisturbed'
  <2>1. ASSUME NEW s \in Requests \ overtaken', at'[s] \in {"created", "begun", "unmetered", "found", "verified", "written"}
        PROVE  s # r /\ at[s] = at'[s] /\ s \notin overtaken /\ Subject(s) # u /\ chosen[s] # m
    BY <1>2, <1>3, <2>1 DEF Underway
  <2>2. ASSUME NEW s \in Requests, at'[s] \in {"created", "begun", "unmetered", "found", "verified", "written"}
        PROVE  (at[s] = at'[s] => Subject(s) \in Users)
    BY <2>2 DEF Targeted
  <2>. HIDE DEF u, m
  <2>3. meter'[u] = m /\ \A v \in Users \ {u} : meter'[v] = meter[v]
    BY <1>1 DEF TypeOK
  <2>. QED
    BY <1>1, <2>1, <2>2, <2>3 DEF Undisturbed
<1>. QED
  BY <1>4, <1>5, <1>6, <1>7, <1>8

AdminStatement(u) == Unassign(u) \/ DeleteUser(u) \/ \E m \in Meters : SetMeter(u, m)

(* An admin's statement waits for the row, and keeps meters unique. *)
LEMMA AdminStatementStep ==
  ASSUME IInv, NEW u \in Users, AdminStatement(u)
  PROVE  IInv'
<1>. USE AssignmentAssumption, MetersApart
     DEF IInv, locals, Requests, Assigning, Subject, Exists, TakenByOther
<1>1. PICK m \in Meters \cup {NoMeter, NoRow} :
        /\ m \in Meters => /\ \A v \in Users \ {u} : meter[v] # m
                           /\ \A s \in Requests : at[s] = "written" => chosen[s] # m
        /\ meter' = [meter EXCEPT ![u] = m]
        /\ overtaken' = overtaken \cup Rivals(u, m)
  BY DEF AdminStatement, Unassign, DeleteUser, SetMeter, Change
<1>2. /\ UNCHANGED <<at, locals>> /\ faults' \in 0 .. MaxFaults
      /\ \A s \in Requests : at[s] = "written" => Subject(s) # u
  BY DEF AdminStatement, Unassign, DeleteUser, SetMeter, Change, Locked, Fault, TypeOK
<1>3. TypeOK'
  BY <1>1, <1>2 DEF TypeOK, Rivals
<1>4. Targeted' /\ WrittenApart'
  BY <1>2 DEF Targeted, WrittenApart
<1>5. OneUserPerMeter'
  BY <1>1, <1>2 DEF OneUserPerMeter, TypeOK, Targeted
<1>6. Undisturbed'
  <2>1. ASSUME NEW s \in Requests \ overtaken', Underway(s)
        PROVE  s \notin overtaken /\ Subject(s) # u /\ ~(chosen[s] = m /\ m \in Meters)
    BY <1>1, <2>1 DEF Rivals
  <2>2. meter'[u] = m /\ \A v \in Users \ {u} : meter'[v] = meter[v]
    BY <1>1 DEF TypeOK
  <2>3. ASSUME NEW s \in Requests, at[s] \in {"created", "begun", "unmetered", "found", "verified", "written"}
        PROVE  Subject(s) \in Users /\ Underway(s) /\ (at[s] \in {"found", "verified", "written"} => chosen[s] \in Meters)
    BY <2>3 DEF Targeted, Underway
  <2>4. ASSUME NEW s \in Requests \ overtaken', at[s] \in {"found", "verified", "written"}, s \notin Admins
        PROVE  \A v \in Users \ {Subject(s)} : meter'[v] # chosen[s]
    <3>1. \A v \in Users \ {Subject(s)} : meter[v] # chosen[s]
      BY <2>1, <2>3, <2>4 DEF Undisturbed
    <3>. QED
      BY <2>1, <2>2, <2>3, <2>4, <3>1
  <2>. QED
    BY <1>2, <2>1, <2>2, <2>3, <2>4 DEF Undisturbed
<1>. QED
  BY <1>3, <1>4, <1>5, <1>6

LEMMA CrashStep ==
  ASSUME IInv, Crash
  PROVE  IInv'
<1>. USE AssignmentAssumption DEF IInv, locals, Requests, Assigning, Subject, Exists, TakenByOther
<1>1. UNCHANGED <<meter, locals, overtaken>> /\ faults' \in 0 .. MaxFaults
  BY DEF Crash, Fault, TypeOK
<1>2. at' \in [Requests -> Stages]
  BY DEF Crash, TypeOK, Stages
<1>3. \A r \in Requests :
        at'[r] = at[r] \/ at'[r] = "refused"
  BY DEF Crash
<1>4. TypeOK'
  BY <1>1, <1>2 DEF TypeOK
<1>5. Targeted' /\ WrittenApart' /\ OneUserPerMeter' /\ Undisturbed'
  BY <1>1, <1>3 DEF Targeted, WrittenApart, OneUserPerMeter, Undisturbed
<1>. QED
  BY <1>4, <1>5

LEMMA StepInvariant == IInv /\ [Next]_vars => IInv'
<1>. SUFFICES ASSUME IInv, [Next]_vars PROVE IInv'
  OBVIOUS
<1>1. CASE UNCHANGED vars
  BY <1>1 DEF vars, locals, IInv, TypeOK, Targeted, WrittenApart, OneUserPerMeter, Undisturbed,
     Assigning, Subject, Exists, TakenByOther
<1>2. ASSUME NEW r \in Requests, Work(r) \/ StatementFails(r) PROVE IInv'
  <2>1. CASE FindMeter(r)
    BY <2>1, FindMeterStep
  <2>2. CASE CreateUser(r)
    BY <2>2, CreateUserStep
  <2>3. CASE CommitMeter(r)
    BY <2>3, CommitMeterStep
  <2>4. CASE ~FindMeter(r) /\ ~CreateUser(r) /\ ~CommitMeter(r)
    BY <1>2, <2>4, QuietStep DEF Work, Assign
  <2>. QED
    BY <2>1, <2>2, <2>3, <2>4
<1>. QED
  BY <1>1, <1>2, AdminStatementStep, CrashStep DEF Next, AdminStatement

LEMMA Invariant == Spec => []IInv
BY InitInvariant, StepInvariant, PTL DEF Spec

(* What is stored in every state has the type TypeOK says. *)
THEOREM AssignmentTypes == Spec => []TypeOK
<1>1. IInv => TypeOK
  BY DEF IInv
<1>. QED
  BY <1>1, Invariant, PTL

(* No two users have one meter, whoever assigns and however they overlap.   *)
THEOREM MetersStayUnique == Spec => []OneUserPerMeter
<1>1. IInv => OneUserPerMeter
  BY DEF IInv
<1>. QED
  BY <1>1, Invariant, PTL

(* A registration is left without a meter only when none is free or it was  *)
(* overtaken or failed, and a meter is lost only to an admin's statement or *)
(* an assignment that was overtaken.                                        *)
THEOREM RegistrationsAreServed == Spec => ServedUnlessOvertaken
<1>. DEFINE Served ==
         \A r \in Registrations : at[r] # "unserved" /\ at'[r] = "unserved" =>
           r \in overtaken' \/ Assigned = Meters
            Kept ==
         \A u \in Users : meter[u] \in Meters /\ meter'[u] # meter[u] =>
           \/ at' = at
           \/ \E r \in overtaken : at[r] = "written" /\ at'[r] # "written" /\ Subject(r) = u
<1>. USE AssignmentAssumption, MetersApart
     DEF locals, Goto, Requests, Assigning, Exists, TakenByOther
<1>1. ASSUME IInv, NEW r \in Requests, Work(r) \/ StatementFails(r), [Next]_vars PROVE Served
  <2>1. ASSUME NEW s \in Registrations, at[s] # "unserved", at'[s] = "unserved"
        PROVE  s \in overtaken' \/ Assigned = Meters
    <3>0. IInv
      BY <1>1
    <3>1. s = r
      BY <1>1, <2>1 DEF Work, Assign, LookForEmail, CreateUser, Connect, ReadUser, FindMeter,
         CheckMeter, WriteMeter, CommitMeter, ListUnmetered, NextUser, BulkEnds, StatementFails,
         Ends, IInv, TypeOK
    <3>2. CASE ReadUser(s)
      BY <2>1, <3>0, <3>2 DEF ReadUser, Ends, IInv, TypeOK, Undisturbed, Subject
    <3>3. CASE FindMeter(s)
      BY <2>1, <3>0, <3>3 DEF FindMeter, Assigned, IInv, TypeOK
    <3>4. CASE CheckMeter(s)
      BY <2>1, <3>0, <3>4 DEF CheckMeter, Ends, IInv, TypeOK, Undisturbed, Subject
    <3>5. CASE WriteMeter(s)
      BY <2>1, <3>0, <3>5 DEF WriteMeter, Ends, IInv, TypeOK, Undisturbed, Subject
    <3>6. CASE CommitMeter(s) \/ StatementFails(s)
      BY <2>1, <3>0, <3>6 DEF CommitMeter, StatementFails, Ends, IInv, TypeOK
    <3>7. CASE LookForEmail(s) \/ CreateUser(s) \/ Connect(s) \/ ListUnmetered(s) \/ NextUser(s)
               \/ BulkEnds(s)
      BY <2>1, <3>0, <3>7 DEF LookForEmail, CreateUser, Connect, ListUnmetered, NextUser, BulkEnds,
         IInv, TypeOK
    <3>. QED
      BY <1>1, <3>1, <3>2, <3>3, <3>4, <3>5, <3>6, <3>7 DEF Work, Assign
  <2>. QED
    BY <2>1
<1>2. ASSUME IInv, NEW r \in Requests, Work(r) \/ StatementFails(r) PROVE Kept
  <2>1. CASE CommitMeter(r)
    <3>1. /\ at[r] = "written" /\ at'[r] # "written"
          /\ meter[Subject(r)] = NoMeter \/ r \in overtaken
          /\ meter' = [meter EXCEPT ![Subject(r)] = chosen[r]]
      BY <2>1, <1>2 DEF CommitMeter, Ends, IInv, TypeOK, Undisturbed
    <3>. QED
      BY <1>2, <3>1 DEF IInv, TypeOK
  <2>2. CASE CreateUser(r)
    BY <1>2, <2>2 DEF CreateUser, IInv, TypeOK
  <2>3. CASE ~CommitMeter(r) /\ ~CreateUser(r)
    <3>1. meter' = meter
      BY <1>2, <2>3 DEF Work, Assign, LookForEmail, Connect, ReadUser, FindMeter,
         CheckMeter, WriteMeter, ListUnmetered, NextUser, BulkEnds, StatementFails
    <3>. QED
      BY <3>1
  <2>. QED
    BY <2>1, <2>2, <2>3
<1>3. ASSUME NEW u \in Users, AdminStatement(u) PROVE Served /\ Kept
  BY <1>3 DEF AdminStatement, Unassign, DeleteUser, SetMeter, Change
<1>4. ASSUME Crash PROVE Served /\ Kept
  BY <1>4 DEF Crash
<1>5. ASSUME UNCHANGED vars PROVE Served /\ Kept
  BY <1>5 DEF vars
<1>6. IInv /\ [Next]_vars => [Served /\ Kept]_vars
  BY <1>1, <1>2, <1>3, <1>4, <1>5 DEF Next, AdminStatement
<1>7. IInv /\ [Next]_vars =>
        [/\ \A r \in Registrations : at[r] # "unserved" /\ at'[r] = "unserved" =>
              r \in overtaken' \/ Assigned = Meters
         /\ \A u \in Users : meter[u] \in Meters /\ meter'[u] # meter[u] =>
              \/ at' = at
              \/ \E r \in overtaken : at[r] = "written" /\ at'[r] # "written" /\ Subject(r) = u
        ]_vars
  BY <1>6
<1>. QED
  BY <1>7, Invariant, PTL DEF Spec, ServedUnlessOvertaken
(* When nobody can work, nobody waits for a row or a meter: whoever holds   *)
(* one can commit.  Then either a connection is free and all have ended, or *)
(* every assignment waits for a second one.                                 *)
LEMMA NobodyWaits ==
  ASSUME IInv
  PROVE  SomebodyCanWork
<1>. SUFFICES ASSUME \A r \in Requests : ~CanWork(r)
              PROVE  Ended \/ Exhausted
  BY DEF SomebodyCanWork
<1>. USE DEF IInv, CanWork
<1>1. \A r \in Requests : at[r] \notin {"begun", "found", "written", "verified"}
  BY DEF Locked
<1>2. \A r \in Requests : Assigning(r) => at[r] = "unmetered"
  BY <1>1 DEF Assigning
<1>3. CASE Free
  BY <1>1, <1>3 DEF TypeOK, Stages, Ended
<1>4. CASE ~Free
  BY <1>2, <1>4 DEF Exhausted
<1>. QED
  BY <1>3, <1>4

(* A request is left waiting only when the pool is exhausted by assignments *)
(* that each wait for one connection more.                                  *)
THEOREM WaitsOnlyByExhaustion == Spec => []SomebodyCanWork
BY Invariant, NobodyWaits, PTL

=============================================================================
