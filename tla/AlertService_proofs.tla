------------------------- MODULE AlertService_proofs -------------------------
(***************************************************************************)
(* Proofs about AlertService, for any meters, thresholds, times to live,    *)
(* number of overlapping requests, failures and crashes.                    *)
(***************************************************************************)
EXTENDS AlertService, FiniteSetTheorems, SequenceTheorems, TLAPS

-----------------------------------------------------------------------------
(* The type invariant in parts, each proved on its own. *)

LogOK ==
  /\ now \in Instant
  /\ log \in Seq(Aggregate \cup AnomalyMessage)
  /\ pos \in 0 .. Len(log) /\ committed \in 0 .. pos
RedisOK ==
  /\ lastSeen \in [Meters -> Instant \cup {Never}]
  /\ windows \in Seq(Instant)
  /\ active \in [Subject -> Nat] /\ dedup \in [Subject -> Nat]
TableOK ==
  /\ alerts \in Seq(Row)
  /\ processed \subseteq DOMAIN alerts
  /\ updates \subseteq (DOMAIN alerts) \X {"active", "acknowledged", "resolved"}
  /\ interrupted \subseteq DOMAIN alerts
ConsumerOK ==
  /\ consumer \in [stage : Stage, subject : Subject, todo : SUBSET Meters]
  /\ consumer.stage # "idle" => pos < Len(log)
RequestRecord ==
  [op : {"none", "acknowledge", "resolve", "bulk"},
   stage : {"idle", "update", "next", "publish", "clear"},
   row : 0 .. Len(alerts),
   notes : SUBSET Note,
   status : {"active", "acknowledged", "resolved"},
   todo : SUBSET DOMAIN alerts]
RequestOK ==
  /\ request \in [Requests -> RequestRecord]
  /\ \A r \in Requests : request[r].stage \in {"update", "publish", "clear"}
                           => request[r].row # 0
CountsOK ==
  /\ requests \in Nat /\ failures \in Nat /\ crashes \in Nat
  /\ requests + failures + crashes <= MaxEvents


(* What is needed besides: which message the consumer is handling. *)
HandlingOK ==
  /\ consumer.stage \in {"overload", "outages", "active", "activate"}
       => consumer.subject.type # "ANOMALY"
  /\ consumer.stage # "idle" /\ consumer.subject.type # "ANOMALY"
       => Message.type = "aggregate"

(* The windows counted are those of messages there are. *)
CountedOK == counted \subseteq (1 .. Len(log)) \X (0 .. crashes)

LEMMA TypeParts ==
  TypeOK <=> /\ LogOK /\ RedisOK /\ TableOK /\ ConsumerOK /\ RequestOK /\ CountsOK
             /\ CountedOK
BY DEF TypeOK, LogOK, RedisOK, TableOK, ConsumerOK, RequestOK, RequestRecord, CountsOK, CountedOK

LEMMA Subjects ==
  /\ Overload \in Subject
  /\ \A m \in Meters : Outage(m) \in Subject /\ Anomaly(m) \in Subject
BY DEF Overload, Outage, Anomaly, Subject

LEMMA SubjectTypes ==
  /\ Overload.type = "REGIONAL_OVERLOAD"
  /\ \A m : Outage(m).type = "METER_OUTAGE" /\ Anomaly(m).type = "ANOMALY"
  /\ \A s \in Subject : s.type \in {"REGIONAL_OVERLOAD", "METER_OUTAGE", "ANOMALY"}
BY DEF Overload, Outage, Anomaly, Subject

LEMMA Messages ==
  ASSUME LogOK, pos < Len(log)
  PROVE  /\ Message \in Aggregate \cup AnomalyMessage
         /\ Message.type = "aggregate" => Message \in Aggregate
         /\ Message.type = "aggregate" => Message.at \in Instant /\ Message.meters \in SUBSET Meters
                                           /\ Message.over \in BOOLEAN
         /\ Message.type = "anomaly" => Message.meter \in Meters
<1>1. Message \in Aggregate \cup AnomalyMessage
  BY DEF LogOK, Message
<1> QED BY <1>1 DEF Aggregate, AnomalyMessage

LEMMA Appended ==
  ASSUME NEW S, NEW s \in Seq(S), NEW e \in S
  PROVE  /\ Append(s, e) \in Seq(S)
         /\ Len(Append(s, e)) = Len(s) + 1 /\ Len(s) \in Nat
         /\ DOMAIN Append(s, e) = 1 .. Len(s) + 1 /\ DOMAIN s = 1 .. Len(s)
         /\ \A i \in 1 .. Len(s) : Append(s, e)[i] = s[i]
         /\ Append(s, e)[Len(s) + 1] = e
OBVIOUS

(* A table whose rows are changed in place. *)
LEMMA Rewritten ==
  ASSUME NEW S, NEW s \in Seq(S), NEW t \in [DOMAIN s -> S]
  PROVE  t \in Seq(S) /\ Len(t) = Len(s) /\ DOMAIN t = DOMAIN s
<1>1. Len(s) \in Nat /\ DOMAIN s = 1 .. Len(s)
  OBVIOUS
<1>2. t \in [1 .. Len(s) -> S]
  BY <1>1
<1>3. t \in Seq(S)
  BY <1>1, <1>2, SeqDef
<1>4. Len(t) \in Nat /\ DOMAIN t = 1 .. Len(t)
  BY <1>3
<1> QED BY <1>1, <1>2, <1>3, <1>4

(* The row the consumer is publishing is the last one. *)
RowInHand ==
  consumer.stage \in {"publish", "mark"} =>
    /\ Len(alerts) # 0
    /\ alerts[Len(alerts)].subject = consumer.subject

(* The actions that change rows in place keep what a row was made with.     *)
SameRows ==
  /\ Len(alerts') = Len(alerts) /\ DOMAIN alerts' = DOMAIN alerts
  /\ \A i \in DOMAIN alerts : /\ alerts'[i].subject = alerts[i].subject
                             /\ alerts'[i].created = alerts[i].created
                             /\ alerts'[i].msg = alerts[i].msg

LEMMA RowFields ==
  ASSUME NEW row \in Row
  PROVE  /\ row.acknowledged \in BOOLEAN /\ row.resolved \in BOOLEAN
         /\ row.notes \in SUBSET Note /\ row.subject \in Subject
         /\ row.created \in Instant /\ row.msg \in Nat
BY DEF Row

LEMMA RowResolved ==
  ASSUME NEW row \in Row
  PROVE  LET new == [row EXCEPT !.resolved = TRUE]
         IN /\ new \in Row /\ new.subject = row.subject /\ new.created = row.created
            /\ new.msg = row.msg /\ new.resolved = TRUE /\ new.notes = row.notes
BY DEF Row

LEMMA RowAutoResolved ==
  ASSUME NEW row \in Row
  PROVE  LET new == [row EXCEPT !.resolved = TRUE, !.notes = @ \cup {"auto_resolved"}]
         IN /\ new \in Row /\ new.subject = row.subject /\ new.created = row.created
            /\ new.msg = row.msg /\ "auto_resolved" \in new.notes
BY DEF Row, Note

LEMMA Stored ==
  ASSUME TableOK
  PROVE  /\ Len(alerts) \in Nat /\ DOMAIN alerts = 1 .. Len(alerts)
         /\ \A i \in DOMAIN alerts : alerts[i] \in Row
BY DEF TableOK

LEMMA BulkInPlace ==
  ASSUME TableOK, NEW rows
  PROVE  /\ BulkResolved(rows) \in [DOMAIN alerts -> Row]
         /\ \A i \in DOMAIN alerts : /\ BulkResolved(rows)[i].subject = alerts[i].subject
                                    /\ BulkResolved(rows)[i].created = alerts[i].created
                                    /\ BulkResolved(rows)[i].msg = alerts[i].msg
<1>1. ASSUME NEW i \in DOMAIN alerts
      PROVE  /\ [alerts[i] EXCEPT !.resolved = TRUE] \in Row
             /\ [alerts[i] EXCEPT !.resolved = TRUE].subject = alerts[i].subject
             /\ [alerts[i] EXCEPT !.resolved = TRUE].created = alerts[i].created
             /\ [alerts[i] EXCEPT !.resolved = TRUE].msg = alerts[i].msg
             /\ alerts[i] \in Row
  BY Stored, RowResolved
<1> QED BY <1>1 DEF BulkResolved

LEMMA AutoInPlace ==
  ASSUME TableOK, NEW rows
  PROVE  /\ AutoResolved(rows) \in [DOMAIN alerts -> Row]
         /\ \A i \in DOMAIN alerts : /\ AutoResolved(rows)[i].subject = alerts[i].subject
                                    /\ AutoResolved(rows)[i].created = alerts[i].created
                                    /\ AutoResolved(rows)[i].msg = alerts[i].msg
<1>1. ASSUME NEW i \in DOMAIN alerts
      PROVE  LET new == [alerts[i] EXCEPT !.resolved = TRUE, !.notes = @ \cup {"auto_resolved"}]
             IN /\ new \in Row /\ new.subject = alerts[i].subject
                /\ new.created = alerts[i].created /\ new.msg = alerts[i].msg
                /\ alerts[i] \in Row
  BY Stored, RowAutoResolved
<1> QED BY <1>1 DEF AutoResolved

LEMMA UpdateInPlace ==
  ASSUME TableOK, RequestOK, NEW r \in Requests, request[r].stage = "update"
  PROVE  LET q == request[r]
             new == [alerts EXCEPT ![q.row] = Updated(alerts[q.row], q.op, q.notes)]
         IN /\ new \in [DOMAIN alerts -> Row] /\ q.row \in DOMAIN alerts
            /\ \A i \in DOMAIN alerts : /\ new[i].subject = alerts[i].subject
                                       /\ new[i].created = alerts[i].created
                                       /\ new[i].msg = alerts[i].msg
<1> DEFINE q == request[r]
           row == Updated(alerts[q.row], q.op, q.notes)
<1>1. q.row \in DOMAIN alerts /\ q.notes \in SUBSET Note
  BY Stored DEF RequestOK, RequestRecord
<1>2. alerts[q.row] \in Row
  BY <1>1, Stored
<1>3. /\ row \in Row /\ row.subject = alerts[q.row].subject
      /\ row.created = alerts[q.row].created /\ row.msg = alerts[q.row].msg
  <2>1. PICK a \in BOOLEAN, s \in BOOLEAN :
          row = [alerts[q.row] EXCEPT !.acknowledged = a, !.resolved = s, !.notes = q.notes]
    BY Zenon DEF Updated
  <2> HIDE DEF row, q
  <2> DEFINE new == [alerts[q.row] EXCEPT !.acknowledged = a, !.resolved = s, !.notes = q.notes]
  <2>2. /\ new \in Row /\ new.subject = alerts[q.row].subject
        /\ new.created = alerts[q.row].created /\ new.msg = alerts[q.row].msg
    BY <1>1, <1>2, <2>1 DEF Row
  <2>3. row = new
    BY <2>1
  <2> HIDE DEF new
  <2> QED BY <2>2, <2>3
<1> HIDE DEF row, q
<1>4. \A i \in DOMAIN alerts : alerts[i] \in Row
  BY Stored
<1>5. LET new == [alerts EXCEPT ![q.row] = row]
      IN /\ new \in [DOMAIN alerts -> Row]
         /\ \A i \in DOMAIN alerts : /\ new[i].subject = alerts[i].subject
                                    /\ new[i].created = alerts[i].created
                                    /\ new[i].msg = alerts[i].msg
  BY <1>1, <1>3, <1>4
<1> QED BY <1>1, <1>5 DEF row, q

(* Only InsertAlert makes the table longer. *)
LEMMA InPlace ==
  ASSUME TableOK, RequestOK,
         \/ AutoResolve
         \/ \E r \in Requests : UpdateAlert(r)
         \/ \E r \in Requests, rows \in SUBSET DOMAIN alerts : BulkResolve(r, rows)
  PROVE  alerts' \in Seq(Row) /\ SameRows
<1>1. CASE AutoResolve
  <2>1. PICK rows : alerts' = AutoResolved(rows)
    BY <1>1 DEF AutoResolve
  <2> QED BY <2>1, AutoInPlace, Rewritten, Stored DEF SameRows, TableOK
<1>2. CASE \E r \in Requests : UpdateAlert(r)
  <2>1. PICK r \in Requests : UpdateAlert(r)
    BY <1>2
  <2>2. /\ request[r].stage = "update"
        /\ alerts' = [alerts EXCEPT ![request[r].row] = Updated(alerts[request[r].row], request[r].op, request[r].notes)]
    BY <2>1 DEF UpdateAlert
  <2>3. /\ alerts' \in [DOMAIN alerts -> Row]
        /\ \A i \in DOMAIN alerts : /\ alerts'[i].subject = alerts[i].subject
                                   /\ alerts'[i].created = alerts[i].created
                                   /\ alerts'[i].msg = alerts[i].msg
    BY <2>2, UpdateInPlace
  <2> QED BY <2>3, Rewritten, Stored DEF SameRows, TableOK
<1>3. CASE \E r \in Requests, rows \in SUBSET DOMAIN alerts : BulkResolve(r, rows)
  <2>1. PICK rows : alerts' = BulkResolved(rows)
    BY <1>3 DEF BulkResolve
  <2> QED BY <2>1, BulkInPlace, Rewritten, Stored DEF SameRows, TableOK
<1> QED BY <1>1, <1>2, <1>3

LEMMA CountsStay ==
  ASSUME CountsOK, [Next]_vars PROVE CountsOK'
<1> USE AlertBoundsAssumption DEF CountsOK
<1>0. CASE UNCHANGED vars
  BY <1>0 DEF vars, topic, redis, published, faults
<1>1. CASE Tick
  BY <1>1 DEF Tick, topic, redis, published, faults
<1>2. CASE Crash
  BY <1>2 DEF Crash, Rejoin, CutShort, Idle, NoRequest, Eventful, topic, redis, published, faults
<1>3. CASE Consume
  BY <1>3 DEF Consume, ProcessRegionalAggregate, ProcessAnomalyAlert, UpdateMeterLastSeen,
     Goto, Message, Anomaly, topic, redis, published, faults
<1>4. CASE ConsumeFails
  BY <1>4 DEF ConsumeFails, UpdateMeterLastSeen, Message, Finish, Idle, Eventful, topic,
     redis, published, faults
<1>5. CASE CountWindows
  BY <1>5 DEF CountWindows, AddOverloadWindow, Goto, Message, topic, redis, published, faults
<1>6. CASE FindOutages
  BY <1>6 DEF FindOutages, NextOutage, GetInactiveMeters, Goto, Finish, Idle, Outage, topic,
     redis, published, faults
<1>7. CASE CheckActive
  BY <1>7 DEF CheckActive, Continue, NextOutage, Goto, Finish, Idle, Outage, topic, redis,
     published, faults
<1>8. CASE CheckDuplicate
  BY <1>8 DEF CheckDuplicate, Goto, Finish, Idle, topic, redis, published, faults
<1>9. CASE InsertAlert
  BY <1>9 DEF InsertAlert, Goto, NewAlert, topic, redis, published, faults
<1>10. CASE PublishAlert
  BY <1>10 DEF PublishAlert, PublishProcessedAlert, Goto, topic, redis, published, faults
<1>11. CASE MarkDuplicate
  BY <1>11 DEF MarkDuplicate, SetDeduplicationMarker, Goto, Finish, Idle, topic, redis,
     published, faults
<1>12. CASE Activate
  BY <1>12 DEF Activate, SetActiveAlert, Continue, NextOutage, Goto, Finish, Idle, Outage,
     topic, redis, published, faults
<1>13. CASE ConsumerFails
  BY <1>13 DEF ConsumerFails, Finish, CutShort, Idle, Eventful, topic, redis, published, faults
<1>14. CASE AutoResolve
  <2>1. Eventful /\ requests' = requests + 1 /\ UNCHANGED faults
    BY <1>14 DEF AutoResolve
  <2> QED BY <2>1 DEF Eventful, faults
<1>15. ASSUME NEW over \in BOOLEAN, NEW meters \in Reports, EmitAggregate(over, meters)
       PROVE  CountsOK'
  BY <1>15 DEF EmitAggregate, Emit, topic, redis, published, faults
<1>16. ASSUME NEW m \in Anomalous, EmitAnomaly(m) PROVE CountsOK'
  BY <1>16 DEF EmitAnomaly, Emit, topic, redis, published, faults
<1>17. ASSUME NEW r \in Requests, UpdateAlert(r) PROVE CountsOK'
  BY <1>17 DEF UpdateAlert, Updated, Status, topic, redis, published, faults
<1>18. ASSUME NEW r \in Requests, PublishUpdate(r) PROVE CountsOK'
  BY <1>18 DEF PublishUpdate, PublishAlertStatusUpdate, After, Proceed, NoRequest, topic,
     redis, published, faults
<1>19. ASSUME NEW r \in Requests, ClearActive(r) PROVE CountsOK'
  BY <1>19 DEF ClearActive, ClearActiveAlert, After, Proceed, NoRequest, topic, redis,
     published, faults
<1>20. ASSUME NEW r \in Requests, RequestFails(r) PROVE CountsOK'
  BY <1>20 DEF RequestFails, NoRequest, Eventful, topic, redis, published, faults
<1>21. ASSUME NEW r \in Requests, NEW i \in request[r].todo, NextResolved(r, i) PROVE CountsOK'
  BY <1>21 DEF NextResolved, topic, redis, published, faults
<1>22. ASSUME NEW r \in Requests, NEW i \in DOMAIN alerts, Acknowledge(r, i) PROVE CountsOK'
  BY <1>22 DEF Acknowledge, AcknowledgeAlert, Begin, NoRequest, Eventful, Note, topic,
     redis, published, faults
<1>23. ASSUME NEW r \in Requests, NEW i \in DOMAIN alerts, Resolve(r, i) PROVE CountsOK'
  BY <1>23 DEF Resolve, ResolveAlert, Begin, NoRequest, Eventful, Note, topic, redis,
     published, faults
<1>24. ASSUME NEW r \in Requests, NEW rows \in SUBSET DOMAIN alerts, BulkResolve(r, rows)
       PROVE  CountsOK'
  BY <1>24 DEF BulkResolve, BulkResolved, Begin, NoRequest, Eventful, topic, redis,
     published, faults
<1> QED BY <1>0, <1>1, <1>2, <1>3, <1>4, <1>5, <1>6, <1>7, <1>8, <1>9, <1>10, <1>11, <1>12,
   <1>13, <1>14, <1>15, <1>16, <1>17, <1>18, <1>19, <1>20, <1>21, <1>22, <1>23,
   <1>24 DEF Next, ConsumerStep, RequestStep

LEMMA LogStays ==
  ASSUME LogOK, ConsumerOK, [Next]_vars PROVE LogOK'
<1> USE AlertBoundsAssumption DEF LogOK, ConsumerOK, Instant
<1>0. CASE UNCHANGED vars
  BY <1>0 DEF vars, topic, redis, published, faults
<1>1. CASE Tick
  BY <1>1 DEF Tick, topic, redis, published, faults
<1>2. CASE Crash
  BY <1>2 DEF Crash, Rejoin, CutShort, Idle, NoRequest, Eventful, topic, redis, published, faults
<1>3. CASE Consume
  BY <1>3 DEF Consume, ProcessRegionalAggregate, ProcessAnomalyAlert, UpdateMeterLastSeen,
     Goto, Message, Anomaly, topic, redis, published, faults
<1>4. CASE ConsumeFails
  BY <1>4 DEF ConsumeFails, UpdateMeterLastSeen, Message, Finish, Idle, Eventful, topic,
     redis, published, faults
<1>5. CASE CountWindows
  BY <1>5 DEF CountWindows, AddOverloadWindow, Goto, Message, topic, redis, published, faults
<1>6. CASE FindOutages
  BY <1>6 DEF FindOutages, NextOutage, GetInactiveMeters, Goto, Finish, Idle, Outage, topic,
     redis, published, faults
<1>7. CASE CheckActive
  BY <1>7 DEF CheckActive, Continue, NextOutage, Goto, Finish, Idle, Outage, topic, redis,
     published, faults
<1>8. CASE CheckDuplicate
  BY <1>8 DEF CheckDuplicate, Goto, Finish, Idle, topic, redis, published, faults
<1>9. CASE InsertAlert
  BY <1>9 DEF InsertAlert, Goto, NewAlert, topic, redis, published, faults
<1>10. CASE PublishAlert
  BY <1>10 DEF PublishAlert, PublishProcessedAlert, Goto, topic, redis, published, faults
<1>11. CASE MarkDuplicate
  BY <1>11 DEF MarkDuplicate, SetDeduplicationMarker, Goto, Finish, Idle, topic, redis,
     published, faults
<1>12. CASE Activate
  BY <1>12 DEF Activate, SetActiveAlert, Continue, NextOutage, Goto, Finish, Idle, Outage,
     topic, redis, published, faults
<1>13. CASE ConsumerFails
  BY <1>13 DEF ConsumerFails, Finish, CutShort, Idle, Eventful, topic, redis, published, faults
<1>14. CASE AutoResolve
  BY <1>14 DEF AutoResolve, AutoResolved, Eventful, Note, topic, redis, published, faults
<1>15. ASSUME NEW over \in BOOLEAN, NEW meters \in Reports, EmitAggregate(over, meters)
       PROVE  LogOK'
  <2>1. meters \in SUBSET Meters /\ now \in Instant
    BY <1>15, MetersAssumption
  <2>2. [type |-> "aggregate", over |-> over, meters |-> meters, at |-> now] \in Aggregate \cup AnomalyMessage
    BY <2>1 DEF Aggregate
  <2> QED BY <1>15, <2>2, Appended DEF EmitAggregate, Emit, topic, redis, published, faults
<1>16. ASSUME NEW m \in Anomalous, EmitAnomaly(m) PROVE LogOK'
  <2>1. [type |-> "anomaly", meter |-> m] \in Aggregate \cup AnomalyMessage
    BY MetersAssumption DEF AnomalyMessage
  <2> QED BY <1>16, <2>1, Appended DEF EmitAnomaly, Emit, topic, redis, published, faults
<1>17. ASSUME NEW r \in Requests, UpdateAlert(r) PROVE LogOK'
  BY <1>17 DEF UpdateAlert, Updated, Status, topic, redis, published, faults
<1>18. ASSUME NEW r \in Requests, PublishUpdate(r) PROVE LogOK'
  BY <1>18 DEF PublishUpdate, PublishAlertStatusUpdate, After, Proceed, NoRequest, topic,
     redis, published, faults
<1>19. ASSUME NEW r \in Requests, ClearActive(r) PROVE LogOK'
  BY <1>19 DEF ClearActive, ClearActiveAlert, After, Proceed, NoRequest, topic, redis,
     published, faults
<1>20. ASSUME NEW r \in Requests, RequestFails(r) PROVE LogOK'
  BY <1>20 DEF RequestFails, NoRequest, Eventful, topic, redis, published, faults
<1>21. ASSUME NEW r \in Requests, NEW i \in request[r].todo, NextResolved(r, i) PROVE LogOK'
  BY <1>21 DEF NextResolved, topic, redis, published, faults
<1>22. ASSUME NEW r \in Requests, NEW i \in DOMAIN alerts, Acknowledge(r, i) PROVE LogOK'
  BY <1>22 DEF Acknowledge, AcknowledgeAlert, Begin, NoRequest, Eventful, Note, topic,
     redis, published, faults
<1>23. ASSUME NEW r \in Requests, NEW i \in DOMAIN alerts, Resolve(r, i) PROVE LogOK'
  BY <1>23 DEF Resolve, ResolveAlert, Begin, NoRequest, Eventful, Note, topic, redis,
     published, faults
<1>24. ASSUME NEW r \in Requests, NEW rows \in SUBSET DOMAIN alerts, BulkResolve(r, rows)
       PROVE  LogOK'
  BY <1>24 DEF BulkResolve, BulkResolved, Begin, NoRequest, Eventful, topic, redis,
     published, faults
<1> QED BY <1>0, <1>1, <1>2, <1>3, <1>4, <1>5, <1>6, <1>7, <1>8, <1>9, <1>10, <1>11, <1>12,
   <1>13, <1>14, <1>15, <1>16, <1>17, <1>18, <1>19, <1>20, <1>21, <1>22, <1>23,
   <1>24 DEF Next, ConsumerStep, RequestStep

LEMMA RedisStays ==
  ASSUME LogOK, RedisOK, ConsumerOK, HandlingOK, [Next]_vars PROVE RedisOK'
<1> USE ThresholdsAssumption, AlertBoundsAssumption DEF RedisOK, ConsumerOK, LogOK, Instant, Never
<1>0. CASE UNCHANGED vars
  BY <1>0 DEF vars, topic, redis, published, faults
<1>1. CASE Tick
  BY <1>1 DEF Tick, topic, redis, published, faults
<1>2. CASE Crash
  BY <1>2 DEF Crash, Rejoin, CutShort, Idle, NoRequest, Eventful, topic, redis, published, faults
<1>3. CASE Consume
  <2>1. CASE ProcessRegionalAggregate
    <3>1. Message.at \in 0 .. MaxTime
      BY <1>3, <2>1, Messages DEF ProcessRegionalAggregate, Consume
    <3> QED BY <1>3, <2>1, <3>1 DEF Consume, ProcessRegionalAggregate, UpdateMeterLastSeen
  <2>2. CASE ProcessAnomalyAlert
    BY <1>3, <2>2 DEF Consume, ProcessAnomalyAlert
  <2> QED BY <1>3, <2>1, <2>2 DEF Consume
<1>4. CASE ConsumeFails
  <2>1. Message.at \in 0 .. MaxTime
    BY <1>4, Messages DEF ConsumeFails
  <2> QED BY <1>4, <2>1 DEF ConsumeFails, UpdateMeterLastSeen
<1>5. CASE CountWindows
  <2>1. Message.at \in 0 .. MaxTime
    BY <1>5, Messages DEF CountWindows, HandlingOK
  <2>2. windows' \in Seq(0 .. MaxTime)
    BY <1>5, <2>1, Appended DEF CountWindows, AddOverloadWindow
  <2> QED BY <1>5, <2>2 DEF CountWindows
<1>6. CASE FindOutages
  BY <1>6 DEF FindOutages, NextOutage, GetInactiveMeters, Goto, Finish, Idle, Outage, topic,
     redis, published, faults
<1>7. CASE CheckActive
  BY <1>7 DEF CheckActive, Continue, NextOutage, Goto, Finish, Idle, Outage, topic, redis,
     published, faults
<1>8. CASE CheckDuplicate
  BY <1>8 DEF CheckDuplicate, Goto, Finish, Idle, topic, redis, published, faults
<1>9. CASE InsertAlert
  BY <1>9 DEF InsertAlert, Goto, NewAlert, topic, redis, published, faults
<1>10. CASE PublishAlert
  BY <1>10 DEF PublishAlert, PublishProcessedAlert, Goto, topic, redis, published, faults
<1>11. CASE MarkDuplicate
  BY <1>11 DEF MarkDuplicate, SetDeduplicationMarker, Goto, Finish, Idle, topic, redis,
     published, faults
<1>12. CASE Activate
  BY <1>12 DEF Activate, SetActiveAlert, Continue, NextOutage, Goto, Finish, Idle, Outage,
     topic, redis, published, faults
<1>13. CASE ConsumerFails
  BY <1>13 DEF ConsumerFails, Finish, CutShort, Idle, Eventful, topic, redis, published, faults
<1>14. CASE AutoResolve
  BY <1>14 DEF AutoResolve, AutoResolved, Eventful, Note, topic, redis, published, faults
<1>15. ASSUME NEW over \in BOOLEAN, NEW meters \in Reports, EmitAggregate(over, meters)
       PROVE  RedisOK'
  BY <1>15 DEF EmitAggregate, Emit, topic, redis, published, faults
<1>16. ASSUME NEW m \in Anomalous, EmitAnomaly(m) PROVE RedisOK'
  BY <1>16 DEF EmitAnomaly, Emit, topic, redis, published, faults
<1>17. ASSUME NEW r \in Requests, UpdateAlert(r) PROVE RedisOK'
  BY <1>17 DEF UpdateAlert, Updated, Status, topic, redis, published, faults
<1>18. ASSUME NEW r \in Requests, PublishUpdate(r) PROVE RedisOK'
  BY <1>18 DEF PublishUpdate, PublishAlertStatusUpdate, After, Proceed, NoRequest, topic,
     redis, published, faults
<1>19. ASSUME NEW r \in Requests, ClearActive(r) PROVE RedisOK'
  BY <1>19 DEF ClearActive, ClearActiveAlert, After, Proceed, NoRequest, topic, redis,
     published, faults
<1>20. ASSUME NEW r \in Requests, RequestFails(r) PROVE RedisOK'
  BY <1>20 DEF RequestFails, NoRequest, Eventful, topic, redis, published, faults
<1>21. ASSUME NEW r \in Requests, NEW i \in request[r].todo, NextResolved(r, i) PROVE RedisOK'
  BY <1>21 DEF NextResolved, topic, redis, published, faults
<1>22. ASSUME NEW r \in Requests, NEW i \in DOMAIN alerts, Acknowledge(r, i) PROVE RedisOK'
  BY <1>22 DEF Acknowledge, AcknowledgeAlert, Begin, NoRequest, Eventful, Note, topic,
     redis, published, faults
<1>23. ASSUME NEW r \in Requests, NEW i \in DOMAIN alerts, Resolve(r, i) PROVE RedisOK'
  BY <1>23 DEF Resolve, ResolveAlert, Begin, NoRequest, Eventful, Note, topic, redis,
     published, faults
<1>24. ASSUME NEW r \in Requests, NEW rows \in SUBSET DOMAIN alerts, BulkResolve(r, rows)
       PROVE  RedisOK'
  BY <1>24 DEF BulkResolve, BulkResolved, Begin, NoRequest, Eventful, topic, redis,
     published, faults
<1> QED BY <1>0, <1>1, <1>2, <1>3, <1>4, <1>5, <1>6, <1>7, <1>8, <1>9, <1>10, <1>11, <1>12,
   <1>13, <1>14, <1>15, <1>16, <1>17, <1>18, <1>19, <1>20, <1>21, <1>22, <1>23,
   <1>24 DEF Next, ConsumerStep, RequestStep

LEMMA ConsumerStays ==
  ASSUME LogOK, ConsumerOK, [Next]_vars PROVE ConsumerOK'
<1> USE Subjects DEF ConsumerOK, LogOK, Stage
<1>0. CASE UNCHANGED vars
  BY <1>0 DEF vars, topic, redis, published, faults
<1>1. CASE Tick
  BY <1>1 DEF Tick, topic, redis, published, faults
<1>2. CASE Crash
  BY <1>2 DEF Crash, Rejoin, CutShort, Idle, NoRequest, Eventful, topic, redis, published, faults
<1>3. CASE Consume
  <2>1. CASE ProcessRegionalAggregate
    BY <1>3, <2>1 DEF Consume, ProcessRegionalAggregate, Goto
  <2>2. CASE ProcessAnomalyAlert
    BY <1>3, <2>2, Messages DEF Consume, ProcessAnomalyAlert, Goto
  <2> QED BY <1>3, <2>1, <2>2 DEF Consume
<1>4. CASE ConsumeFails
  BY <1>4 DEF ConsumeFails, UpdateMeterLastSeen, Message, Finish, Idle, Eventful, topic,
     redis, published, faults
<1>5. CASE CountWindows
  BY <1>5 DEF CountWindows, AddOverloadWindow, Goto, Message, topic, redis, published, faults
<1>6. CASE FindOutages
  BY <1>6 DEF FindOutages, NextOutage, GetInactiveMeters, Goto, Finish, Idle, Outage, topic,
     redis, published, faults
<1>7. CASE CheckActive
  BY <1>7 DEF CheckActive, Continue, NextOutage, Goto, Finish, Idle, Outage, topic, redis,
     published, faults
<1>8. CASE CheckDuplicate
  BY <1>8 DEF CheckDuplicate, Goto, Finish, Idle, topic, redis, published, faults
<1>9. CASE InsertAlert
  BY <1>9 DEF InsertAlert, Goto, NewAlert, topic, redis, published, faults
<1>10. CASE PublishAlert
  BY <1>10 DEF PublishAlert, PublishProcessedAlert, Goto, topic, redis, published, faults
<1>11. CASE MarkDuplicate
  BY <1>11 DEF MarkDuplicate, SetDeduplicationMarker, Goto, Finish, Idle, topic, redis,
     published, faults
<1>12. CASE Activate
  BY <1>12 DEF Activate, SetActiveAlert, Continue, NextOutage, Goto, Finish, Idle, Outage,
     topic, redis, published, faults
<1>13. CASE ConsumerFails
  BY <1>13 DEF ConsumerFails, Finish, CutShort, Idle, Eventful, topic, redis, published, faults
<1>14. CASE AutoResolve
  BY <1>14 DEF AutoResolve, AutoResolved, Eventful, Note, topic, redis, published, faults
<1>15. ASSUME NEW over \in BOOLEAN, NEW meters \in Reports, EmitAggregate(over, meters)
       PROVE  ConsumerOK'
  BY <1>15 DEF EmitAggregate, Emit, topic, redis, published, faults
<1>16. ASSUME NEW m \in Anomalous, EmitAnomaly(m) PROVE ConsumerOK'
  BY <1>16 DEF EmitAnomaly, Emit, topic, redis, published, faults
<1>17. ASSUME NEW r \in Requests, UpdateAlert(r) PROVE ConsumerOK'
  BY <1>17 DEF UpdateAlert, Updated, Status, topic, redis, published, faults
<1>18. ASSUME NEW r \in Requests, PublishUpdate(r) PROVE ConsumerOK'
  BY <1>18 DEF PublishUpdate, PublishAlertStatusUpdate, After, Proceed, NoRequest, topic,
     redis, published, faults
<1>19. ASSUME NEW r \in Requests, ClearActive(r) PROVE ConsumerOK'
  BY <1>19 DEF ClearActive, ClearActiveAlert, After, Proceed, NoRequest, topic, redis,
     published, faults
<1>20. ASSUME NEW r \in Requests, RequestFails(r) PROVE ConsumerOK'
  BY <1>20 DEF RequestFails, NoRequest, Eventful, topic, redis, published, faults
<1>21. ASSUME NEW r \in Requests, NEW i \in request[r].todo, NextResolved(r, i) PROVE ConsumerOK'
  BY <1>21 DEF NextResolved, topic, redis, published, faults
<1>22. ASSUME NEW r \in Requests, NEW i \in DOMAIN alerts, Acknowledge(r, i) PROVE ConsumerOK'
  BY <1>22 DEF Acknowledge, AcknowledgeAlert, Begin, NoRequest, Eventful, Note, topic,
     redis, published, faults
<1>23. ASSUME NEW r \in Requests, NEW i \in DOMAIN alerts, Resolve(r, i) PROVE ConsumerOK'
  BY <1>23 DEF Resolve, ResolveAlert, Begin, NoRequest, Eventful, Note, topic, redis,
     published, faults
<1>24. ASSUME NEW r \in Requests, NEW rows \in SUBSET DOMAIN alerts, BulkResolve(r, rows)
       PROVE  ConsumerOK'
  BY <1>24 DEF BulkResolve, BulkResolved, Begin, NoRequest, Eventful, topic, redis,
     published, faults
<1> QED BY <1>0, <1>1, <1>2, <1>3, <1>4, <1>5, <1>6, <1>7, <1>8, <1>9, <1>10, <1>11, <1>12,
   <1>13, <1>14, <1>15, <1>16, <1>17, <1>18, <1>19, <1>20, <1>21, <1>22, <1>23,
   <1>24 DEF Next, ConsumerStep, RequestStep

LEMMA HandlingStays ==
  ASSUME LogOK, ConsumerOK, HandlingOK, [Next]_vars PROVE HandlingOK'
<1> USE SubjectTypes DEF ConsumerOK, LogOK, HandlingOK, Stage, Message
<1>0. CASE UNCHANGED vars
  BY <1>0 DEF vars, topic, redis, published, faults
<1>1. CASE Tick
  BY <1>1 DEF Tick, topic, redis, published, faults
<1>2. CASE Crash
  BY <1>2 DEF Crash, Rejoin, CutShort, Idle, NoRequest, Eventful, topic, redis, published, faults
<1>3. CASE Consume
  BY <1>3 DEF Consume, ProcessRegionalAggregate, ProcessAnomalyAlert, UpdateMeterLastSeen,
     Goto, Message, Anomaly, topic, redis, published, faults
<1>4. CASE ConsumeFails
  BY <1>4 DEF ConsumeFails, UpdateMeterLastSeen, Message, Finish, Idle, Eventful, topic,
     redis, published, faults
<1>5. CASE CountWindows
  BY <1>5 DEF CountWindows, AddOverloadWindow, Goto, Message, topic, redis, published, faults
<1>6. CASE FindOutages
  BY <1>6 DEF FindOutages, NextOutage, GetInactiveMeters, Goto, Finish, Idle, Outage, topic,
     redis, published, faults
<1>7. CASE CheckActive
  BY <1>7 DEF CheckActive, Continue, NextOutage, Goto, Finish, Idle, Outage, topic, redis,
     published, faults
<1>8. CASE CheckDuplicate
  BY <1>8 DEF CheckDuplicate, Goto, Finish, Idle, topic, redis, published, faults
<1>9. CASE InsertAlert
  BY <1>9 DEF InsertAlert, Goto, NewAlert, topic, redis, published, faults
<1>10. CASE PublishAlert
  BY <1>10 DEF PublishAlert, PublishProcessedAlert, Goto, topic, redis, published, faults
<1>11. CASE MarkDuplicate
  BY <1>11 DEF MarkDuplicate, SetDeduplicationMarker, Goto, Finish, Idle, topic, redis,
     published, faults
<1>12. CASE Activate
  BY <1>12 DEF Activate, SetActiveAlert, Continue, NextOutage, Goto, Finish, Idle, Outage,
     topic, redis, published, faults
<1>13. CASE ConsumerFails
  BY <1>13 DEF ConsumerFails, Finish, CutShort, Idle, Eventful, topic, redis, published, faults
<1>14. CASE AutoResolve
  BY <1>14 DEF AutoResolve, AutoResolved, Eventful, Note, topic, redis, published, faults
<1>15. ASSUME NEW over \in BOOLEAN, NEW meters \in Reports, EmitAggregate(over, meters)
       PROVE  HandlingOK'
  <2>1. consumer.stage # "idle" => log'[pos + 1] = log[pos + 1]
    BY <1>15, Appended DEF EmitAggregate, Emit
  <2> QED BY <1>15, <2>1 DEF EmitAggregate, Emit
<1>16. ASSUME NEW m \in Anomalous, EmitAnomaly(m) PROVE HandlingOK'
  <2>1. consumer.stage # "idle" => log'[pos + 1] = log[pos + 1]
    BY <1>16, Appended DEF EmitAnomaly, Emit
  <2> QED BY <1>16, <2>1 DEF EmitAnomaly, Emit
<1>17. ASSUME NEW r \in Requests, UpdateAlert(r) PROVE HandlingOK'
  BY <1>17 DEF UpdateAlert, Updated, Status, topic, redis, published, faults
<1>18. ASSUME NEW r \in Requests, PublishUpdate(r) PROVE HandlingOK'
  BY <1>18 DEF PublishUpdate, PublishAlertStatusUpdate, After, Proceed, NoRequest, topic,
     redis, published, faults
<1>19. ASSUME NEW r \in Requests, ClearActive(r) PROVE HandlingOK'
  BY <1>19 DEF ClearActive, ClearActiveAlert, After, Proceed, NoRequest, topic, redis,
     published, faults
<1>20. ASSUME NEW r \in Requests, RequestFails(r) PROVE HandlingOK'
  BY <1>20 DEF RequestFails, NoRequest, Eventful, topic, redis, published, faults
<1>21. ASSUME NEW r \in Requests, NEW i \in request[r].todo, NextResolved(r, i) PROVE HandlingOK'
  BY <1>21 DEF NextResolved, topic, redis, published, faults
<1>22. ASSUME NEW r \in Requests, NEW i \in DOMAIN alerts, Acknowledge(r, i) PROVE HandlingOK'
  BY <1>22 DEF Acknowledge, AcknowledgeAlert, Begin, NoRequest, Eventful, Note, topic,
     redis, published, faults
<1>23. ASSUME NEW r \in Requests, NEW i \in DOMAIN alerts, Resolve(r, i) PROVE HandlingOK'
  BY <1>23 DEF Resolve, ResolveAlert, Begin, NoRequest, Eventful, Note, topic, redis,
     published, faults
<1>24. ASSUME NEW r \in Requests, NEW rows \in SUBSET DOMAIN alerts, BulkResolve(r, rows)
       PROVE  HandlingOK'
  BY <1>24 DEF BulkResolve, BulkResolved, Begin, NoRequest, Eventful, topic, redis,
     published, faults
<1> QED BY <1>0, <1>1, <1>2, <1>3, <1>4, <1>5, <1>6, <1>7, <1>8, <1>9, <1>10, <1>11, <1>12,
   <1>13, <1>14, <1>15, <1>16, <1>17, <1>18, <1>19, <1>20, <1>21, <1>22, <1>23,
   <1>24 DEF Next, ConsumerStep, RequestStep

LEMMA TableStays ==
  ASSUME LogOK, ConsumerOK, RequestOK, TableOK, RowInHand, [Next]_vars PROVE TableOK'
<1> USE DEF TableOK, ConsumerOK, LogOK, Instant
<1>0. CASE UNCHANGED vars
  BY <1>0 DEF vars, topic, redis, published, faults
<1>1. CASE Tick
  BY <1>1 DEF Tick, topic, redis, published, faults
<1>2. CASE Crash
  BY <1>2, Stored DEF Crash, CutShort, RowInHand, published
<1>3. CASE Consume
  BY <1>3 DEF Consume, ProcessRegionalAggregate, ProcessAnomalyAlert, UpdateMeterLastSeen,
     Goto, Message, Anomaly, topic, redis, published, faults
<1>4. CASE ConsumeFails
  BY <1>4 DEF ConsumeFails, UpdateMeterLastSeen, Message, Finish, Idle, Eventful, topic,
     redis, published, faults
<1>5. CASE CountWindows
  BY <1>5 DEF CountWindows, AddOverloadWindow, Goto, Message, topic, redis, published, faults
<1>6. CASE FindOutages
  BY <1>6 DEF FindOutages, NextOutage, GetInactiveMeters, Goto, Finish, Idle, Outage, topic,
     redis, published, faults
<1>7. CASE CheckActive
  BY <1>7 DEF CheckActive, Continue, NextOutage, Goto, Finish, Idle, Outage, topic, redis,
     published, faults
<1>8. CASE CheckDuplicate
  BY <1>8 DEF CheckDuplicate, Goto, Finish, Idle, topic, redis, published, faults
<1>9. CASE InsertAlert
  <2>1. NewAlert(consumer.subject) \in Row
    BY <1>9 DEF NewAlert, Row, Note
  <2> QED BY <1>9, <2>1, Appended DEF InsertAlert, published
<1>10. CASE PublishAlert
  BY <1>10, Stored DEF PublishAlert, PublishProcessedAlert, RowInHand
<1>11. CASE MarkDuplicate
  BY <1>11 DEF MarkDuplicate, SetDeduplicationMarker, Goto, Finish, Idle, topic, redis,
     published, faults
<1>12. CASE Activate
  BY <1>12 DEF Activate, SetActiveAlert, Continue, NextOutage, Goto, Finish, Idle, Outage,
     topic, redis, published, faults
<1>13. CASE ConsumerFails
  BY <1>13, Stored DEF ConsumerFails, CutShort, RowInHand, published
<1>14. CASE AutoResolve
  BY <1>14, InPlace, Stored DEF AutoResolve, SameRows, published
<1>15. ASSUME NEW over \in BOOLEAN, NEW meters \in Reports, EmitAggregate(over, meters)
       PROVE  TableOK'
  BY <1>15 DEF EmitAggregate, Emit, topic, redis, published, faults
<1>16. ASSUME NEW m \in Anomalous, EmitAnomaly(m) PROVE TableOK'
  BY <1>16 DEF EmitAnomaly, Emit, topic, redis, published, faults
<1>17. ASSUME NEW r \in Requests, UpdateAlert(r) PROVE TableOK'
  BY <1>17, InPlace, Stored DEF UpdateAlert, SameRows, published
<1>18. ASSUME NEW r \in Requests, PublishUpdate(r) PROVE TableOK'
  <2>1. request[r].row \in DOMAIN alerts /\ request[r].status \in {"active", "acknowledged", "resolved"}
    BY <1>18, Stored DEF PublishUpdate, RequestOK, RequestRecord
  <2> QED BY <1>18, <2>1 DEF PublishUpdate, PublishAlertStatusUpdate
<1>19. ASSUME NEW r \in Requests, ClearActive(r) PROVE TableOK'
  BY <1>19 DEF ClearActive, ClearActiveAlert, After, Proceed, NoRequest, topic, redis,
     published, faults
<1>20. ASSUME NEW r \in Requests, RequestFails(r) PROVE TableOK'
  BY <1>20 DEF RequestFails, NoRequest, Eventful, topic, redis, published, faults
<1>21. ASSUME NEW r \in Requests, NEW i \in request[r].todo, NextResolved(r, i) PROVE TableOK'
  BY <1>21 DEF NextResolved, topic, redis, published, faults
<1>22. ASSUME NEW r \in Requests, NEW i \in DOMAIN alerts, Acknowledge(r, i) PROVE TableOK'
  BY <1>22 DEF Acknowledge, AcknowledgeAlert, Begin, NoRequest, Eventful, Note, topic,
     redis, published, faults
<1>23. ASSUME NEW r \in Requests, NEW i \in DOMAIN alerts, Resolve(r, i) PROVE TableOK'
  BY <1>23 DEF Resolve, ResolveAlert, Begin, NoRequest, Eventful, Note, topic, redis,
     published, faults
<1>24. ASSUME NEW r \in Requests, NEW rows \in SUBSET DOMAIN alerts, BulkResolve(r, rows)
       PROVE  TableOK'
  BY <1>24, InPlace, Stored DEF BulkResolve, Begin, SameRows, published
<1> QED BY <1>0, <1>1, <1>2, <1>3, <1>4, <1>5, <1>6, <1>7, <1>8, <1>9, <1>10, <1>11, <1>12,
   <1>13, <1>14, <1>15, <1>16, <1>17, <1>18, <1>19, <1>20, <1>21, <1>22, <1>23,
   <1>24 DEF Next, ConsumerStep, RequestStep

LEMMA RowInHandStays ==
  ASSUME LogOK, ConsumerOK, RequestOK, TableOK, RowInHand, [Next]_vars PROVE RowInHand'
<1> USE DEF RowInHand
<1>0. CASE UNCHANGED vars
  BY <1>0 DEF vars, topic, redis, published, faults
<1>1. CASE Tick
  BY <1>1 DEF Tick, topic, redis, published, faults
<1>2. CASE Crash
  BY <1>2 DEF Crash, Rejoin, CutShort, Idle, NoRequest, Eventful, topic, redis, published, faults
<1>3. CASE Consume
  BY <1>3 DEF Consume, ProcessRegionalAggregate, ProcessAnomalyAlert, UpdateMeterLastSeen,
     Goto, Message, Anomaly, topic, redis, published, faults
<1>4. CASE ConsumeFails
  BY <1>4 DEF ConsumeFails, UpdateMeterLastSeen, Message, Finish, Idle, Eventful, topic,
     redis, published, faults
<1>5. CASE CountWindows
  BY <1>5 DEF CountWindows, AddOverloadWindow, Goto, Message, topic, redis, published, faults
<1>6. CASE FindOutages
  BY <1>6 DEF FindOutages, NextOutage, GetInactiveMeters, Goto, Finish, Idle, Outage, topic,
     redis, published, faults
<1>7. CASE CheckActive
  BY <1>7 DEF CheckActive, Continue, NextOutage, Goto, Finish, Idle, Outage, topic, redis,
     published, faults
<1>8. CASE CheckDuplicate
  BY <1>8 DEF CheckDuplicate, Goto, Finish, Idle, topic, redis, published, faults
<1>9. CASE InsertAlert
  <2>1. NewAlert(consumer.subject) \in Row /\ NewAlert(consumer.subject).subject = consumer.subject
    BY <1>9 DEF NewAlert, Row, Note, ConsumerOK, LogOK
  <2>2. /\ alerts' = Append(alerts, NewAlert(consumer.subject))
        /\ consumer'.subject = consumer.subject
    BY <1>9 DEF InsertAlert, Goto
  <2> HIDE DEF RowInHand
  <2> QED BY <2>1, <2>2, Appended, Stored DEF RowInHand, TableOK
<1>10. CASE PublishAlert
  BY <1>10 DEF PublishAlert, PublishProcessedAlert, Goto, topic, redis, published, faults
<1>11. CASE MarkDuplicate
  BY <1>11 DEF MarkDuplicate, SetDeduplicationMarker, Goto, Finish, Idle, topic, redis,
     published, faults
<1>12. CASE Activate
  BY <1>12 DEF Activate, SetActiveAlert, Continue, NextOutage, Goto, Finish, Idle, Outage,
     topic, redis, published, faults
<1>13. CASE ConsumerFails
  BY <1>13 DEF ConsumerFails, Finish, CutShort, Idle, Eventful, topic, redis, published, faults
<1>14. CASE AutoResolve
  <2>1. SameRows /\ UNCHANGED consumer
    BY <1>14, InPlace DEF AutoResolve
  <2> QED BY <2>1, Stored DEF SameRows
<1>15. ASSUME NEW over \in BOOLEAN, NEW meters \in Reports, EmitAggregate(over, meters)
       PROVE  RowInHand'
  BY <1>15 DEF EmitAggregate, Emit, topic, redis, published, faults
<1>16. ASSUME NEW m \in Anomalous, EmitAnomaly(m) PROVE RowInHand'
  BY <1>16 DEF EmitAnomaly, Emit, topic, redis, published, faults
<1>17. ASSUME NEW r \in Requests, UpdateAlert(r) PROVE RowInHand'
  <2>1. SameRows
    BY <1>17, InPlace
  <2>2. UNCHANGED consumer
    BY <1>17 DEF UpdateAlert
  <2> QED BY <2>1, <2>2, Stored DEF SameRows
<1>18. ASSUME NEW r \in Requests, PublishUpdate(r) PROVE RowInHand'
  BY <1>18 DEF PublishUpdate, PublishAlertStatusUpdate, After, Proceed, NoRequest, topic,
     redis, published, faults
<1>19. ASSUME NEW r \in Requests, ClearActive(r) PROVE RowInHand'
  BY <1>19 DEF ClearActive, ClearActiveAlert, After, Proceed, NoRequest, topic, redis,
     published, faults
<1>20. ASSUME NEW r \in Requests, RequestFails(r) PROVE RowInHand'
  BY <1>20 DEF RequestFails, NoRequest, Eventful, topic, redis, published, faults
<1>21. ASSUME NEW r \in Requests, NEW i \in request[r].todo, NextResolved(r, i) PROVE RowInHand'
  BY <1>21 DEF NextResolved, topic, redis, published, faults
<1>22. ASSUME NEW r \in Requests, NEW i \in DOMAIN alerts, Acknowledge(r, i) PROVE RowInHand'
  BY <1>22 DEF Acknowledge, AcknowledgeAlert, Begin, NoRequest, Eventful, Note, topic,
     redis, published, faults
<1>23. ASSUME NEW r \in Requests, NEW i \in DOMAIN alerts, Resolve(r, i) PROVE RowInHand'
  BY <1>23 DEF Resolve, ResolveAlert, Begin, NoRequest, Eventful, Note, topic, redis,
     published, faults
<1>24. ASSUME NEW r \in Requests, NEW rows \in SUBSET DOMAIN alerts, BulkResolve(r, rows)
       PROVE  RowInHand'
  <2>1. SameRows
    BY <1>24, InPlace
  <2>2. UNCHANGED consumer
    BY <1>24 DEF BulkResolve, Begin
  <2> QED BY <2>1, <2>2, Stored DEF SameRows
<1> QED BY <1>0, <1>1, <1>2, <1>3, <1>4, <1>5, <1>6, <1>7, <1>8, <1>9, <1>10, <1>11, <1>12,
   <1>13, <1>14, <1>15, <1>16, <1>17, <1>18, <1>19, <1>20, <1>21, <1>22, <1>23,
   <1>24 DEF Next, ConsumerStep, RequestStep

LEMMA OneRequest ==
  ASSUME RequestOK, Len(alerts') = Len(alerts), DOMAIN alerts' = DOMAIN alerts,
         NEW r \in Requests, NEW q \in RequestRecord,
         q.stage \in {"update", "publish", "clear"} => q.row # 0,
         request' = [request EXCEPT ![r] = q]
  PROVE  RequestOK'
BY DEF RequestOK, RequestRecord

LEMMA Resumed ==
  ASSUME NEW q \in RequestRecord, NEW stage \in {"next", "publish", "clear"}
  PROVE  /\ [q EXCEPT !.stage = stage] \in RequestRecord
         /\ [q EXCEPT !.stage = stage].stage = stage /\ [q EXCEPT !.stage = stage].row = q.row
BY DEF RequestRecord

LEMMA ResumedWith ==
  ASSUME NEW q \in RequestRecord, NEW status \in {"active", "acknowledged", "resolved"}
  PROVE  LET new == [q EXCEPT !.stage = "publish", !.status = status]
         IN new \in RequestRecord /\ new.row = q.row
BY DEF RequestRecord

LEMMA NoRequestIsOne == TableOK => NoRequest \in RequestRecord
BY Stored DEF NoRequest, RequestRecord

LEMMA BegunSingle ==
  ASSUME TableOK, NEW i \in DOMAIN alerts, NEW notes \in SUBSET Note,
         NEW op \in {"acknowledge", "resolve"}, NEW q \in RequestRecord
  PROVE  LET new == [q EXCEPT !.op = op, !.stage = "update", !.row = i, !.notes = notes]
         IN new \in RequestRecord /\ new.row = i
<1>1. i \in 0 .. Len(alerts)
  BY Stored
<1> QED BY <1>1 DEF RequestRecord

LEMMA BegunBulk ==
  ASSUME NEW todo \in SUBSET DOMAIN alerts, NEW q \in RequestRecord
  PROVE  [q EXCEPT !.op = "bulk", !.stage = "next", !.todo = todo] \in RequestRecord
BY DEF RequestRecord

LEMMA Proceeded ==
  ASSUME RequestOK, NEW r \in Requests, NEW first \in {"publish", "clear"},
         NEW second \in {"publish", "clear"}, Proceed(r, first, second),
         request[r].stage \in {"publish", "clear"},
         Len(alerts) \in Nat,
         UNCHANGED alerts
  PROVE  RequestOK'
<1>1. request[r] \in RequestRecord /\ request[r].row # 0
  BY DEF RequestOK
<1>2. CASE request[r].stage = first
  <2>1. request' = [request EXCEPT ![r] = [request[r] EXCEPT !.stage = second]]
    BY <1>2 DEF Proceed
  <2>2. [request[r] EXCEPT !.stage = second] \in RequestRecord /\ [request[r] EXCEPT !.stage = second].row # 0
    BY <1>1, Resumed
  <2> QED BY <2>1, <2>2, OneRequest
<1>3. CASE request[r].stage # first /\ request[r].todo # {}
  <2>1. request' = [request EXCEPT ![r] = [request[r] EXCEPT !.stage = "next"]]
    BY <1>3 DEF Proceed
  <2> QED BY <1>1, <2>1, Resumed, OneRequest
<1>4. CASE request[r].stage # first /\ request[r].todo = {}
  <2>1. request' = [request EXCEPT ![r] = NoRequest]
    BY <1>4 DEF Proceed
  <2>2. NoRequest \in RequestRecord /\ NoRequest.stage = "idle"
    BY DEF NoRequest, RequestRecord
  <2> QED BY <2>1, <2>2, OneRequest
<1> QED BY <1>2, <1>3, <1>4

LEMMA RequestStays ==
  ASSUME TableOK, RequestOK, [Next]_vars PROVE RequestOK'
<1> USE DEF RequestOK, RequestRecord
<1>0. CASE UNCHANGED vars
  BY <1>0 DEF vars, topic, redis, published, faults
<1>1. CASE Tick
  BY <1>1 DEF Tick, topic, redis, published, faults
<1>2. CASE Crash
  BY <1>2 DEF Crash, Rejoin, CutShort, Idle, NoRequest, Eventful, topic, redis, published, faults
<1>3. CASE Consume
  BY <1>3 DEF Consume, ProcessRegionalAggregate, ProcessAnomalyAlert, UpdateMeterLastSeen,
     Goto, Message, Anomaly, topic, redis, published, faults
<1>4. CASE ConsumeFails
  BY <1>4 DEF ConsumeFails, UpdateMeterLastSeen, Message, Finish, Idle, Eventful, topic,
     redis, published, faults
<1>5. CASE CountWindows
  BY <1>5 DEF CountWindows, AddOverloadWindow, Goto, Message, topic, redis, published, faults
<1>6. CASE FindOutages
  BY <1>6 DEF FindOutages, NextOutage, GetInactiveMeters, Goto, Finish, Idle, Outage, topic,
     redis, published, faults
<1>7. CASE CheckActive
  BY <1>7 DEF CheckActive, Continue, NextOutage, Goto, Finish, Idle, Outage, topic, redis,
     published, faults
<1>8. CASE CheckDuplicate
  BY <1>8 DEF CheckDuplicate, Goto, Finish, Idle, topic, redis, published, faults
<1>9. CASE InsertAlert
  <2>1. Len(alerts') = Len(alerts) + 1 /\ DOMAIN alerts' = 1 .. Len(alerts) + 1
    BY <1>9, Stored DEF InsertAlert
  <2> QED BY <1>9, <2>1, Stored DEF InsertAlert
<1>10. CASE PublishAlert
  BY <1>10 DEF PublishAlert, PublishProcessedAlert, Goto, topic, redis, published, faults
<1>11. CASE MarkDuplicate
  BY <1>11 DEF MarkDuplicate, SetDeduplicationMarker, Goto, Finish, Idle, topic, redis,
     published, faults
<1>12. CASE Activate
  BY <1>12 DEF Activate, SetActiveAlert, Continue, NextOutage, Goto, Finish, Idle, Outage,
     topic, redis, published, faults
<1>13. CASE ConsumerFails
  BY <1>13 DEF ConsumerFails, Finish, CutShort, Idle, Eventful, topic, redis, published, faults
<1>14. CASE AutoResolve
  BY <1>14, InPlace DEF AutoResolve, SameRows
<1>15. ASSUME NEW over \in BOOLEAN, NEW meters \in Reports, EmitAggregate(over, meters)
       PROVE  RequestOK'
  BY <1>15 DEF EmitAggregate, Emit, topic, redis, published, faults
<1>16. ASSUME NEW m \in Anomalous, EmitAnomaly(m) PROVE RequestOK'
  BY <1>16 DEF EmitAnomaly, Emit, topic, redis, published, faults
<1>17. ASSUME NEW r \in Requests, UpdateAlert(r) PROVE RequestOK'
  <2> HIDE DEF RequestOK, RequestRecord
  <2> DEFINE status == Status(Updated(alerts[request[r].row], request[r].op, request[r].notes))
             new == [request[r] EXCEPT !.stage = "publish", !.status = status]
  <2>1. SameRows
    BY <1>17, InPlace
  <2>2. request' = [request EXCEPT ![r] = new] /\ request[r].row # 0 /\ request[r] \in RequestRecord
    BY <1>17 DEF UpdateAlert, RequestOK
  <2>3. status \in {"active", "acknowledged", "resolved"}
    BY DEF Status
  <2> HIDE DEF status
  <2>4. new \in RequestRecord /\ new.row # 0
    BY <2>2, <2>3, ResumedWith
  <2> HIDE DEF new
  <2> QED BY <2>1, <2>2, <2>4, OneRequest DEF SameRows
<1>18. ASSUME NEW r \in Requests, PublishUpdate(r) PROVE RequestOK'
  <2> HIDE DEF RequestOK, RequestRecord
  <2> QED BY <1>18, Proceeded, Stored DEF PublishUpdate, After
<1>19. ASSUME NEW r \in Requests, ClearActive(r) PROVE RequestOK'
  <2> HIDE DEF RequestOK, RequestRecord
  <2> QED BY <1>19, Proceeded, Stored DEF ClearActive, After
<1>20. ASSUME NEW r \in Requests, RequestFails(r) PROVE RequestOK'
  BY <1>20 DEF RequestFails, NoRequest, Eventful, topic, redis, published, faults
<1>21. ASSUME NEW r \in Requests, NEW i \in request[r].todo, NextResolved(r, i) PROVE RequestOK'
  BY <1>21 DEF NextResolved, topic, redis, published, faults
<1>22. ASSUME NEW r \in Requests, NEW i \in DOMAIN alerts, Acknowledge(r, i) PROVE RequestOK'
  <2> HIDE DEF RequestOK, RequestRecord
  <2>1. alerts[i].notes \cup {"acknowledgment_timestamp"} \in SUBSET Note
    BY Stored, RowFields DEF Note
  <2>2. AcknowledgeAlert(i) \in RequestRecord /\ AcknowledgeAlert(i).row = i
    BY <2>1, BegunSingle, NoRequestIsOne DEF AcknowledgeAlert
  <2>3. request' = [request EXCEPT ![r] = AcknowledgeAlert(i)] /\ UNCHANGED alerts
    BY <1>22 DEF Acknowledge, Begin
  <2>4. i # 0
    BY Stored
  <2> QED BY <2>2, <2>3, <2>4, OneRequest
<1>23. ASSUME NEW r \in Requests, NEW i \in DOMAIN alerts, Resolve(r, i) PROVE RequestOK'
  <2> HIDE DEF RequestOK, RequestRecord
  <2>1. alerts[i].notes \cup {"resolved_by"} \in SUBSET Note
    BY Stored, RowFields DEF Note
  <2>2. ResolveAlert(i) \in RequestRecord /\ ResolveAlert(i).row = i
    BY <2>1, BegunSingle, NoRequestIsOne DEF ResolveAlert
  <2>3. request' = [request EXCEPT ![r] = ResolveAlert(i)] /\ UNCHANGED alerts
    BY <1>23 DEF Resolve, Begin
  <2>4. i # 0
    BY Stored
  <2> QED BY <2>2, <2>3, <2>4, OneRequest
<1>24. ASSUME NEW r \in Requests, NEW rows \in SUBSET DOMAIN alerts, BulkResolve(r, rows)
       PROVE  RequestOK'
  <2> HIDE DEF RequestOK, RequestRecord
  <2> DEFINE open == {i \in rows : ~alerts[i].resolved}
             new == [NoRequest EXCEPT !.op = "bulk", !.stage = "next", !.todo = open]
  <2>1. SameRows
    BY <1>24, InPlace
  <2>2. open # {} /\ request' = [request EXCEPT ![r] = new]
    BY <1>24 DEF BulkResolve, Begin
  <2>3. open \in SUBSET DOMAIN alerts
    OBVIOUS
  <2>4. new.stage = "next"
    BY DEF NoRequest
  <2> HIDE DEF open
  <2>5. new \in RequestRecord
    BY <2>3, BegunBulk, NoRequestIsOne
  <2> HIDE DEF new
  <2> QED BY <2>1, <2>2, <2>4, <2>5, OneRequest DEF SameRows
<1> QED BY <1>0, <1>1, <1>2, <1>3, <1>4, <1>5, <1>6, <1>7, <1>8, <1>9, <1>10, <1>11, <1>12,
   <1>13, <1>14, <1>15, <1>16, <1>17, <1>18, <1>19, <1>20, <1>21, <1>22, <1>23,
   <1>24 DEF Next, ConsumerStep, RequestStep

(* The inductive invariant of the types. *)
TypeInv ==
  /\ LogOK /\ RedisOK /\ TableOK /\ ConsumerOK /\ RequestOK /\ CountsOK
  /\ HandlingOK /\ RowInHand

LEMMA InitTypes == Init => TypeInv
<1> SUFFICES ASSUME Init PROVE TypeInv
  OBVIOUS
<1> USE DEF Init
<1>1. alerts = <<>> /\ alerts \in Seq(Row) /\ Len(alerts) = 0 /\ DOMAIN alerts = {}
  OBVIOUS
<1>2. LogOK
  BY AlertBoundsAssumption DEF LogOK, Instant
<1>3. RedisOK
  BY DEF RedisOK, Instant, Never
<1>4. TableOK
  BY <1>1 DEF TableOK
<1>5. ConsumerOK
  BY Subjects DEF ConsumerOK, Idle, Stage
<1>6. NoRequest \in RequestRecord /\ NoRequest.stage = "idle"
  BY <1>4, NoRequestIsOne DEF NoRequest
<1>7. RequestOK
  BY <1>6 DEF RequestOK
<1>8. CountsOK
  BY AlertBoundsAssumption DEF CountsOK
<1>9. HandlingOK
  BY DEF HandlingOK, Idle
<1>10. RowInHand
  BY DEF RowInHand, Idle
<1> QED BY <1>2, <1>3, <1>4, <1>5, <1>7, <1>8, <1>9, <1>10 DEF TypeInv

LEMMA TypesStay == TypeInv /\ [Next]_vars => TypeInv'
BY LogStays, CountsStay, RedisStays, ConsumerStays, HandlingStays, TableStays, RowInHandStays,
   RequestStays DEF TypeInv

LEMMA TypesHold == Spec => []TypeInv
BY InitTypes, TypesStay, PTL DEF Spec

-----------------------------------------------------------------------------
(* Rows stay where they are and keep their subjects; what was published or  *)
(* cut short stays so.                                                      *)
Grows ==
  /\ Len(alerts) <= Len(alerts') /\ DOMAIN alerts \subseteq DOMAIN alerts'
  /\ processed \subseteq processed' /\ interrupted \subseteq interrupted'
  /\ updates \subseteq updates'
  /\ \A i \in DOMAIN alerts : /\ alerts'[i].subject = alerts[i].subject
                             /\ alerts'[i].created = alerts[i].created
                             /\ alerts'[i].msg = alerts[i].msg

LEMMA TableGrows ==
  ASSUME TypeInv, [Next]_vars PROVE Grows
<1> USE Stored DEF Grows, TypeInv
<1>0. CASE UNCHANGED vars
  BY <1>0 DEF vars, topic, redis, published, faults
<1>1. CASE Tick
  BY <1>1 DEF Tick, topic, redis, published, faults
<1>2. CASE Crash
  BY <1>2 DEF Crash, Rejoin, CutShort, Idle, NoRequest, Eventful, topic, redis, published, faults
<1>3. CASE Consume
  BY <1>3 DEF Consume, ProcessRegionalAggregate, ProcessAnomalyAlert, UpdateMeterLastSeen,
     Goto, Message, Anomaly, topic, redis, published, faults
<1>4. CASE ConsumeFails
  BY <1>4 DEF ConsumeFails, UpdateMeterLastSeen, Message, Finish, Idle, Eventful, topic,
     redis, published, faults
<1>5. CASE CountWindows
  BY <1>5 DEF CountWindows, AddOverloadWindow, Goto, Message, topic, redis, published, faults
<1>6. CASE FindOutages
  BY <1>6 DEF FindOutages, NextOutage, GetInactiveMeters, Goto, Finish, Idle, Outage, topic,
     redis, published, faults
<1>7. CASE CheckActive
  BY <1>7 DEF CheckActive, Continue, NextOutage, Goto, Finish, Idle, Outage, topic, redis,
     published, faults
<1>8. CASE CheckDuplicate
  BY <1>8 DEF CheckDuplicate, Goto, Finish, Idle, topic, redis, published, faults
<1>9. CASE InsertAlert
  <2>1. NewAlert(consumer.subject) \in Row
    BY <1>9 DEF NewAlert, Row, Note, ConsumerOK, LogOK
  <2>2. /\ alerts' = Append(alerts, NewAlert(consumer.subject)) /\ UNCHANGED <<published, interrupted>>
    BY <1>9 DEF InsertAlert
  <2> QED BY <2>1, <2>2, Appended DEF TableOK, published
<1>10. CASE PublishAlert
  BY <1>10 DEF PublishAlert, PublishProcessedAlert, Goto, topic, redis, published, faults
<1>11. CASE MarkDuplicate
  BY <1>11 DEF MarkDuplicate, SetDeduplicationMarker, Goto, Finish, Idle, topic, redis,
     published, faults
<1>12. CASE Activate
  BY <1>12 DEF Activate, SetActiveAlert, Continue, NextOutage, Goto, Finish, Idle, Outage,
     topic, redis, published, faults
<1>13. CASE ConsumerFails
  BY <1>13 DEF ConsumerFails, Finish, CutShort, Idle, Eventful, topic, redis, published, faults
<1>14. CASE AutoResolve
  <2>1. SameRows
    BY <1>14, InPlace DEF TypeInv
  <2>2. UNCHANGED <<published, interrupted>>
    BY <1>14 DEF AutoResolve
  <2> QED BY <2>1, <2>2, Stored DEF SameRows, published
<1>15. ASSUME NEW over \in BOOLEAN, NEW meters \in Reports, EmitAggregate(over, meters)
       PROVE  Grows
  BY <1>15 DEF EmitAggregate, Emit, topic, redis, published, faults
<1>16. ASSUME NEW m \in Anomalous, EmitAnomaly(m) PROVE Grows
  BY <1>16 DEF EmitAnomaly, Emit, topic, redis, published, faults
<1>17. ASSUME NEW r \in Requests, UpdateAlert(r) PROVE Grows
  <2>1. SameRows
    BY <1>17, InPlace DEF TypeInv
  <2>2. UNCHANGED <<published, interrupted>>
    BY <1>17 DEF UpdateAlert
  <2> QED BY <2>1, <2>2, Stored DEF SameRows, published
<1>18. ASSUME NEW r \in Requests, PublishUpdate(r) PROVE Grows
  BY <1>18 DEF PublishUpdate, PublishAlertStatusUpdate, After, Proceed, NoRequest, topic,
     redis, published, faults
<1>19. ASSUME NEW r \in Requests, ClearActive(r) PROVE Grows
  BY <1>19 DEF ClearActive, ClearActiveAlert, After, Proceed, NoRequest, topic, redis,
     published, faults
<1>20. ASSUME NEW r \in Requests, RequestFails(r) PROVE Grows
  BY <1>20 DEF RequestFails, NoRequest, Eventful, topic, redis, published, faults
<1>21. ASSUME NEW r \in Requests, NEW i \in request[r].todo, NextResolved(r, i) PROVE Grows
  BY <1>21 DEF NextResolved, topic, redis, published, faults
<1>22. ASSUME NEW r \in Requests, NEW i \in DOMAIN alerts, Acknowledge(r, i) PROVE Grows
  BY <1>22 DEF Acknowledge, AcknowledgeAlert, Begin, NoRequest, Eventful, Note, topic,
     redis, published, faults
<1>23. ASSUME NEW r \in Requests, NEW i \in DOMAIN alerts, Resolve(r, i) PROVE Grows
  BY <1>23 DEF Resolve, ResolveAlert, Begin, NoRequest, Eventful, Note, topic, redis,
     published, faults
<1>24. ASSUME NEW r \in Requests, NEW rows \in SUBSET DOMAIN alerts, BulkResolve(r, rows)
       PROVE  Grows
  <2>1. SameRows
    BY <1>24, InPlace DEF TypeInv
  <2>2. UNCHANGED <<published, interrupted>>
    BY <1>24 DEF BulkResolve, Begin
  <2> QED BY <2>1, <2>2, Stored DEF SameRows, published
<1> QED BY <1>0, <1>1, <1>2, <1>3, <1>4, <1>5, <1>6, <1>7, <1>8, <1>9, <1>10, <1>11, <1>12,
   <1>13, <1>14, <1>15, <1>16, <1>17, <1>18, <1>19, <1>20, <1>21, <1>22, <1>23,
   <1>24 DEF Next, ConsumerStep, RequestStep

-----------------------------------------------------------------------------
(* A marker is set only when the row it stands for is published, and rows   *)
(* and publications last.                                                   *)
Announced(s) == \E i \in processed : alerts[i].subject = s

MarkersInv ==
  /\ \A s \in Subject : active[s] # 0 \/ dedup[s] # 0 => Announced(s)
  /\ consumer.stage = "mark" => Len(alerts) \in processed
  /\ consumer.stage = "activate" => Announced(consumer.subject)

LEMMA AnnouncedStays ==
  ASSUME TypeInv, [Next]_vars, NEW s \in Subject, Announced(s) PROVE Announced(s)'
<1>1. PICK i \in processed : alerts[i].subject = s
  BY DEF Announced
<1>2. i \in DOMAIN alerts
  BY DEF TypeInv, TableOK
<1> QED BY <1>1, <1>2, TableGrows DEF Grows, Announced

LEMMA MarkersStay ==
  ASSUME TypeInv, MarkersInv, [Next]_vars PROVE MarkersInv'
<1> USE ThresholdsAssumption
<1> DEFINE A(s) == \E i \in processed' : alerts'[i].subject = s
<1>a. \A s \in Subject : Announced(s) => A(s)
  BY AnnouncedStays DEF Announced
<1>b. /\ active \in [Subject -> Nat] /\ dedup \in [Subject -> Nat] /\ consumer.subject \in Subject
      /\ consumer.stage \in Stage /\ now \in Nat /\ Ttl \in Nat
  BY ThresholdsAssumption DEF TypeInv, RedisOK, ConsumerOK, LogOK, Instant
<1> DEFINE G == /\ \A s \in Subject : active'[s] # 0 \/ dedup'[s] # 0 => A(s)
                /\ consumer'.stage = "mark" => Len(alerts') \in processed'
                /\ consumer'.stage = "activate" => A(consumer'.subject)
<1>c. SUFFICES G
  BY DEF MarkersInv, Announced
<1> HIDE DEF A
<1> USE <1>a, <1>b DEF MarkersInv
<1>0. CASE UNCHANGED vars
  BY <1>0 DEF vars, topic, redis, published, faults
<1>1. CASE Tick
  BY <1>1 DEF Tick, topic, redis, published, faults
<1>2. CASE Crash
  BY <1>2 DEF Crash, Rejoin, CutShort, Idle, NoRequest, Eventful, topic, redis, published, faults
<1>3. CASE Consume
  BY <1>3 DEF Consume, ProcessRegionalAggregate, ProcessAnomalyAlert, UpdateMeterLastSeen,
     Goto, Message, Anomaly, topic, redis, published, faults
<1>4. CASE ConsumeFails
  BY <1>4 DEF ConsumeFails, UpdateMeterLastSeen, Message, Finish, Idle, Eventful, topic,
     redis, published, faults
<1>5. CASE CountWindows
  BY <1>5 DEF CountWindows, AddOverloadWindow, Goto, Message, topic, redis, published, faults
<1>6. CASE FindOutages
  BY <1>6 DEF FindOutages, NextOutage, GetInactiveMeters, Goto, Finish, Idle, Outage, topic,
     redis, published, faults
<1>7. CASE CheckActive
  BY <1>7 DEF CheckActive, Continue, NextOutage, Goto, Finish, Idle, Outage, topic, redis,
     published, faults
<1>8. CASE CheckDuplicate
  BY <1>8 DEF CheckDuplicate, Goto, Finish, Idle, topic, redis, published, faults
<1>9. CASE InsertAlert
  BY <1>9 DEF InsertAlert, Goto, NewAlert, topic, redis, published, faults
<1>10. CASE PublishAlert
  BY <1>10 DEF PublishAlert, PublishProcessedAlert, Goto, topic, redis, published, faults
<1>11. CASE MarkDuplicate
  <2>1. Announced(consumer.subject)
    <3>1. Len(alerts) \in processed /\ alerts[Len(alerts)].subject = consumer.subject
      BY <1>11 DEF MarkDuplicate, TypeInv, RowInHand
    <3> QED BY <3>1 DEF Announced
  <2> QED BY <1>11, <2>1 DEF MarkDuplicate, SetDeduplicationMarker, Goto, Finish, Idle
<1>12. CASE Activate
  BY <1>12 DEF Activate, SetActiveAlert, Continue, NextOutage, Goto, Finish, Idle, Outage,
     topic, redis, published, faults
<1>13. CASE ConsumerFails
  BY <1>13 DEF ConsumerFails, Finish, CutShort, Idle, Eventful, topic, redis, published, faults
<1>14. CASE AutoResolve
  <2>1. Len(alerts') = Len(alerts)
    BY <1>14, InPlace DEF SameRows, TypeInv
  <2>2. UNCHANGED <<redis, published, consumer>>
    BY <1>14 DEF AutoResolve
  <2> QED BY <2>1, <2>2 DEF redis, published
<1>15. ASSUME NEW over \in BOOLEAN, NEW meters \in Reports, EmitAggregate(over, meters) PROVE G
  BY <1>15 DEF EmitAggregate, Emit, topic, redis, published, faults
<1>16. ASSUME NEW m \in Anomalous, EmitAnomaly(m) PROVE G
  BY <1>16 DEF EmitAnomaly, Emit, topic, redis, published, faults
<1>17. ASSUME NEW r \in Requests, UpdateAlert(r) PROVE G
  <2>1. Len(alerts') = Len(alerts)
    BY <1>17, InPlace DEF SameRows, TypeInv
  <2>2. UNCHANGED <<redis, published, consumer>>
    BY <1>17 DEF UpdateAlert
  <2> QED BY <2>1, <2>2 DEF redis, published
<1>18. ASSUME NEW r \in Requests, PublishUpdate(r) PROVE G
  BY <1>18 DEF PublishUpdate, PublishAlertStatusUpdate, After, Proceed, NoRequest, topic,
     redis, published, faults
<1>19. ASSUME NEW r \in Requests, ClearActive(r) PROVE G
  BY <1>19 DEF ClearActive, ClearActiveAlert, After, Proceed, NoRequest, topic, redis,
     published, faults
<1>20. ASSUME NEW r \in Requests, RequestFails(r) PROVE G
  BY <1>20 DEF RequestFails, NoRequest, Eventful, topic, redis, published, faults
<1>21. ASSUME NEW r \in Requests, NEW i \in request[r].todo, NextResolved(r, i) PROVE G
  BY <1>21 DEF NextResolved, topic, redis, published, faults
<1>22. ASSUME NEW r \in Requests, NEW i \in DOMAIN alerts, Acknowledge(r, i) PROVE G
  BY <1>22 DEF Acknowledge, AcknowledgeAlert, Begin, NoRequest, Eventful, Note, topic,
     redis, published, faults
<1>23. ASSUME NEW r \in Requests, NEW i \in DOMAIN alerts, Resolve(r, i) PROVE G
  BY <1>23 DEF Resolve, ResolveAlert, Begin, NoRequest, Eventful, Note, topic, redis,
     published, faults
<1>24. ASSUME NEW r \in Requests, NEW rows \in SUBSET DOMAIN alerts, BulkResolve(r, rows) PROVE G
  <2>1. Len(alerts') = Len(alerts)
    BY <1>24, InPlace DEF SameRows, TypeInv
  <2>2. UNCHANGED <<redis, published, consumer>>
    BY <1>24 DEF BulkResolve, Begin
  <2> QED BY <2>1, <2>2 DEF redis, published
<1> QED BY <1>0, <1>1, <1>2, <1>3, <1>4, <1>5, <1>6, <1>7, <1>8, <1>9, <1>10, <1>11, <1>12,
   <1>13, <1>14, <1>15, <1>16, <1>17, <1>18, <1>19, <1>20, <1>21, <1>22, <1>23,
   <1>24 DEF Next, ConsumerStep, RequestStep

LEMMA InitMarkers == Init => MarkersInv
BY Subjects DEF Init, MarkersInv, Idle

(* What silences a subject, either marker, stands for a row of the table    *)
(* that was published, whatever fails and whenever the service crashes.     *)
THEOREM MarkersStandForRows == Spec => []MarkersHaveRows
<1>1. MarkersInv => MarkersHaveRows
  BY DEF MarkersInv, MarkersHaveRows, Announced, HasActiveAlert, CheckDeduplicationMarker
<1> QED BY <1>1, InitMarkers, MarkersStay, TypesHold, PTL DEF Spec

-----------------------------------------------------------------------------
(* A row whose creation was not cut short is too old to forbid another, or  *)
(* its subject has a deduplication marker, or the consumer is about to set  *)
(* one.                                                                     *)
SpacedInv ==
  /\ \A i \in DOMAIN alerts : alerts[i].created <= now
  /\ \A s \in Subject : dedup[s] # 0 => dedup[s] > now
  /\ \A i \in DOMAIN alerts \ interrupted :
       \/ now >= alerts[i].created + Ttl
       \/ dedup[alerts[i].subject] >= alerts[i].created + Ttl
       \/ consumer.stage \in {"publish", "mark"} /\ i = Len(alerts)
  /\ consumer.stage = "insert" => dedup[consumer.subject] = 0
  /\ DuplicateOnlyAfterInterruption

LEMMA SpacedStays ==
  ASSUME TypeInv, SpacedInv, [Next]_vars PROVE SpacedInv'
<1> USE ThresholdsAssumption
<1>a. /\ dedup \in [Subject -> Nat] /\ consumer.subject \in Subject /\ consumer.stage \in Stage
      /\ now \in Nat /\ Ttl \in Nat /\ Ttl > 0
      /\ Len(alerts) \in Nat /\ DOMAIN alerts = 1 .. Len(alerts)
      /\ \A i \in DOMAIN alerts : alerts[i].created \in Nat /\ alerts[i].subject \in Subject
  BY Stored, RowFields, ThresholdsAssumption DEF TypeInv, RedisOK, ConsumerOK, LogOK, Instant
<1> USE <1>a DEF SpacedInv, DuplicateOnlyAfterInterruption
<1>0. CASE UNCHANGED vars
  BY <1>0 DEF vars, topic, redis, published, faults
<1>1. CASE Tick
  BY <1>1 DEF Tick, topic, redis, published, faults
<1>2. CASE Crash
  <2>1. /\ consumer'.stage = "idle" /\ UNCHANGED <<now, dedup, alerts>>
        /\ interrupted' = interrupted \cup (IF consumer.stage \in {"publish", "mark"} THEN {Len(alerts)} ELSE {})
    BY <1>2 DEF Crash, CutShort, Idle, redis
  <2> QED BY <2>1
<1>3. CASE Consume
  BY <1>3 DEF Consume, ProcessRegionalAggregate, ProcessAnomalyAlert, UpdateMeterLastSeen,
     Goto, Message, Anomaly, topic, redis, published, faults
<1>4. CASE ConsumeFails
  BY <1>4 DEF ConsumeFails, UpdateMeterLastSeen, Message, Finish, Idle, Eventful, topic,
     redis, published, faults
<1>5. CASE CountWindows
  BY <1>5 DEF CountWindows, AddOverloadWindow, Goto, Message, topic, redis, published, faults
<1>6. CASE FindOutages
  BY <1>6 DEF FindOutages, NextOutage, GetInactiveMeters, Goto, Finish, Idle, Outage, topic,
     redis, published, faults
<1>7. CASE CheckActive
  BY <1>7 DEF CheckActive, Continue, NextOutage, Goto, Finish, Idle, Outage, topic, redis,
     published, faults
<1>8. CASE CheckDuplicate
  BY <1>8 DEF CheckDuplicate, CheckDeduplicationMarker, Goto, Finish, Idle, redis
<1>9. CASE InsertAlert
  <2> DEFINE n == Len(alerts) + 1
             new == NewAlert(consumer.subject)
  <2>1. new \in Row /\ new.subject = consumer.subject /\ new.created = now
    BY <1>9 DEF NewAlert, Row, Note, TypeInv, ConsumerOK, LogOK
  <2>2. /\ alerts' = Append(alerts, new) /\ consumer.stage = "insert" /\ consumer'.stage = "publish"
        /\ UNCHANGED <<now, dedup, interrupted>>
    BY <1>9 DEF InsertAlert, Goto, redis
  <2> HIDE DEF new
  <2>3. /\ Len(alerts') = n /\ DOMAIN alerts' = 1 .. n
        /\ \A i \in 1 .. Len(alerts) : alerts'[i] = alerts[i]
        /\ alerts'[n].subject = consumer.subject /\ alerts'[n].created = now
    BY <2>1, <2>2, Appended DEF TypeInv, TableOK
  <2>4. \A i \in DOMAIN alerts' : i = n \/ i \in DOMAIN alerts
    BY <2>3
  <2>5. \A i \in DOMAIN alerts : alerts[i].subject = consumer.subject /\ i \notin interrupted
                               => now >= alerts[i].created + Ttl
    BY <2>2
  <2>6. DuplicateOnlyAfterInterruption'
    BY <2>2, <2>3, <2>4, <2>5
  <2> HIDE DEF DuplicateOnlyAfterInterruption
  <2> QED BY <2>2, <2>3, <2>4, <2>6
<1>10. CASE PublishAlert
  BY <1>10 DEF PublishAlert, PublishProcessedAlert, Goto, topic, redis, published, faults
<1>11. CASE MarkDuplicate
  <2>1. /\ consumer.stage = "mark" /\ consumer'.stage \in {"idle", "activate"}
        /\ dedup' = [dedup EXCEPT ![consumer.subject] = now + Ttl]
        /\ UNCHANGED <<now, alerts, interrupted>>
    BY <1>11 DEF MarkDuplicate, SetDeduplicationMarker, Goto, Finish, Idle
  <2>2. alerts[Len(alerts)].subject = consumer.subject
    BY <2>1 DEF TypeInv, RowInHand
  <2> QED BY <2>1, <2>2
<1>12. CASE Activate
  BY <1>12 DEF Activate, SetActiveAlert, Continue, NextOutage, Goto, Finish, Idle, Outage,
     topic, redis, published, faults
<1>13. CASE ConsumerFails
  <2>1. /\ consumer'.stage = "idle" /\ UNCHANGED <<now, dedup, alerts>>
        /\ interrupted' = interrupted \cup (IF consumer.stage \in {"publish", "mark"} THEN {Len(alerts)} ELSE {})
    BY <1>13 DEF ConsumerFails, Finish, CutShort, Idle, redis
  <2> QED BY <2>1
<1>14. CASE AutoResolve
  <2>1. SameRows
    BY <1>14, InPlace DEF TypeInv
  <2>2. UNCHANGED <<now, redis, consumer, interrupted>>
    BY <1>14 DEF AutoResolve
  <2> QED BY <2>1, <2>2 DEF redis, SameRows
<1>15. ASSUME NEW over \in BOOLEAN, NEW meters \in Reports, EmitAggregate(over, meters)
       PROVE  SpacedInv'
  BY <1>15 DEF EmitAggregate, Emit, topic, redis, published, faults
<1>16. ASSUME NEW m \in Anomalous, EmitAnomaly(m) PROVE SpacedInv'
  BY <1>16 DEF EmitAnomaly, Emit, topic, redis, published, faults
<1>17. ASSUME NEW r \in Requests, UpdateAlert(r) PROVE SpacedInv'
  <2>1. SameRows
    BY <1>17, InPlace DEF TypeInv
  <2>2. UNCHANGED <<now, redis, consumer, interrupted>>
    BY <1>17 DEF UpdateAlert
  <2> QED BY <2>1, <2>2 DEF redis, SameRows
<1>18. ASSUME NEW r \in Requests, PublishUpdate(r) PROVE SpacedInv'
  BY <1>18 DEF PublishUpdate, PublishAlertStatusUpdate, After, Proceed, NoRequest, topic,
     redis, published, faults
<1>19. ASSUME NEW r \in Requests, ClearActive(r) PROVE SpacedInv'
  BY <1>19 DEF ClearActive, ClearActiveAlert, After, Proceed, NoRequest, topic, redis,
     published, faults
<1>20. ASSUME NEW r \in Requests, RequestFails(r) PROVE SpacedInv'
  BY <1>20 DEF RequestFails, NoRequest, Eventful, topic, redis, published, faults
<1>21. ASSUME NEW r \in Requests, NEW i \in request[r].todo, NextResolved(r, i) PROVE SpacedInv'
  BY <1>21 DEF NextResolved, topic, redis, published, faults
<1>22. ASSUME NEW r \in Requests, NEW i \in DOMAIN alerts, Acknowledge(r, i) PROVE SpacedInv'
  BY <1>22 DEF Acknowledge, AcknowledgeAlert, Begin, NoRequest, Eventful, Note, topic,
     redis, published, faults
<1>23. ASSUME NEW r \in Requests, NEW i \in DOMAIN alerts, Resolve(r, i) PROVE SpacedInv'
  BY <1>23 DEF Resolve, ResolveAlert, Begin, NoRequest, Eventful, Note, topic, redis,
     published, faults
<1>24. ASSUME NEW r \in Requests, NEW rows \in SUBSET DOMAIN alerts, BulkResolve(r, rows)
       PROVE  SpacedInv'
  <2>1. SameRows
    BY <1>24, InPlace DEF TypeInv
  <2>2. UNCHANGED <<now, redis, consumer, interrupted>>
    BY <1>24 DEF BulkResolve, Begin
  <2> QED BY <2>1, <2>2 DEF redis, SameRows
<1> QED BY <1>0, <1>1, <1>2, <1>3, <1>4, <1>5, <1>6, <1>7, <1>8, <1>9, <1>10, <1>11, <1>12,
   <1>13, <1>14, <1>15, <1>16, <1>17, <1>18, <1>19, <1>20, <1>21, <1>22, <1>23,
   <1>24 DEF Next, ConsumerStep, RequestStep

LEMMA InitSpaced == Init => SpacedInv
<1>1. Init => /\ DOMAIN alerts = {} /\ consumer.stage = "idle" /\ \A s \in Subject : dedup[s] = 0
  BY DEF Init, Idle
<1> QED BY <1>1 DEF SpacedInv, DuplicateOnlyAfterInterruption

LEMMA SpacedHolds == Spec => []DuplicateOnlyAfterInterruption
<1>1. SpacedInv => DuplicateOnlyAfterInterruption
  BY DEF SpacedInv
<1> QED BY <1>1, InitSpaced, SpacedStays, TypesHold, PTL DEF Spec

(* A subject is neither alerted twice within the time to live of its marker *)
(* nor silenced without a published row, for any interleaving of consumer,  *)
(* requests, failures and crashes; the one exception, a creation cut short  *)
(* before its marker was set, is named in the statement.                    *)
THEOREM AlertsOnce == Spec => []AlertedOnce
BY SpacedHolds, MarkersStandForRows, PTL DEF AlertedOnce

-----------------------------------------------------------------------------
(* A request that still has to announce row i as resolved. *)
Pending(q, i) ==
  \/ i \in q.todo
  \/ /\ q.row = i /\ q.status = "resolved"
     /\ q.stage = "publish" \/ (q.op = "bulk" /\ q.stage = "clear")

ToAnnounce(i) == alerts[i].resolved /\ "auto_resolved" \notin alerts[i].notes

(* While nothing fails, a resolved row is announced or about to be. *)
AnnouncementInv ==
  /\ \A r \in Requests : request[r].todo # {} => request[r].op = "bulk" /\ request[r].stage # "idle"
  /\ failures = 0 /\ crashes = 0 =>
       \A i \in DOMAIN alerts : ToAnnounce(i) =>
         <<i, "resolved">> \in updates \/ \E r \in Requests : Pending(request[r], i)

(* A step in which no pending announcement is lost. *)
LEMMA PendingKept ==
  ASSUME TypeInv, AnnouncementInv, updates \subseteq updates',
         \A r \in Requests : request'[r].todo # {} => request'[r].op = "bulk" /\ request'[r].stage # "idle",
         failures' = 0 /\ crashes' = 0 => failures = 0 /\ crashes = 0,
         failures' = 0 /\ crashes' = 0 =>
           \A r \in Requests, i \in DOMAIN alerts :
             Pending(request[r], i) => Pending(request'[r], i) \/ <<i, "resolved">> \in updates',
         \A i \in DOMAIN alerts' : ToAnnounce(i)' =>
           \/ i \in DOMAIN alerts /\ ToAnnounce(i)
           \/ \E r \in Requests : Pending(request'[r], i)
  PROVE  AnnouncementInv'
<1> DEFINE T(i) == alerts'[i].resolved /\ "auto_resolved" \notin alerts'[i].notes
           P(r, i) == Pending(request'[r], i)
<1>1. \A i : ToAnnounce(i)' <=> T(i)
  BY DEF ToAnnounce
<1> SUFFICES
      /\ \A r \in Requests : request'[r].todo # {} => request'[r].op = "bulk" /\ request'[r].stage # "idle"
      /\ failures' = 0 /\ crashes' = 0 =>
           \A i \in DOMAIN alerts' : T(i) =>
             <<i, "resolved">> \in updates' \/ \E r \in Requests : P(r, i)
  BY DEF AnnouncementInv, ToAnnounce, Pending
<1>2. \A i \in DOMAIN alerts' : T(i) =>
           \/ i \in DOMAIN alerts /\ ToAnnounce(i)
           \/ \E r \in Requests : P(r, i)
  BY <1>1
<1>3. failures' = 0 /\ crashes' = 0 =>
           \A r \in Requests, i \in DOMAIN alerts :
             Pending(request[r], i) => P(r, i) \/ <<i, "resolved">> \in updates'
  OBVIOUS
<1> HIDE DEF T, P
<1> QED BY <1>2, <1>3 DEF AnnouncementInv

LEMMA AnnouncementStays ==
  ASSUME TypeInv, AnnouncementInv, [Next]_vars PROVE AnnouncementInv'
<1> USE TRUE
<1>a. /\ failures \in Nat /\ crashes \in Nat
      /\ request \in [Requests -> RequestRecord]
      /\ Len(alerts) \in Nat /\ DOMAIN alerts = 1 .. Len(alerts)
      /\ \A i \in DOMAIN alerts : alerts[i] \in Row
  BY Stored DEF TypeInv, RequestOK, CountsOK
<1>b. /\ \A r \in Requests : request[r].todo # {} => request[r].op = "bulk" /\ request[r].stage # "idle"
      /\ failures = 0 /\ crashes = 0 =>
           \A i \in DOMAIN alerts : ToAnnounce(i) =>
             <<i, "resolved">> \in updates \/ \E r \in Requests : Pending(request[r], i)
  BY DEF AnnouncementInv
<1> USE <1>a DEF AnnouncementInv, ToAnnounce, Pending
<1>0. CASE UNCHANGED vars
  BY <1>0 DEF vars, topic, redis, published, faults
<1>1. CASE Tick
  BY <1>1 DEF Tick, topic, redis, published, faults
<1>2. CASE Crash
  <2>1. crashes' # 0 /\ \A r \in Requests : request'[r].todo = {}
    BY <1>2, <1>a DEF Crash, NoRequest
  <2> QED BY <2>1 DEF AnnouncementInv
<1>3. CASE Consume
  BY <1>3 DEF Consume, ProcessRegionalAggregate, ProcessAnomalyAlert, UpdateMeterLastSeen,
     Goto, Message, Anomaly, topic, redis, published, faults
<1>4. CASE ConsumeFails
  BY <1>4 DEF ConsumeFails, UpdateMeterLastSeen, Message, Finish, Idle, Eventful, topic,
     redis, published, faults
<1>5. CASE CountWindows
  BY <1>5 DEF CountWindows, AddOverloadWindow, Goto, Message, topic, redis, published, faults
<1>6. CASE FindOutages
  BY <1>6 DEF FindOutages, NextOutage, GetInactiveMeters, Goto, Finish, Idle, Outage, topic,
     redis, published, faults
<1>7. CASE CheckActive
  BY <1>7 DEF CheckActive, Continue, NextOutage, Goto, Finish, Idle, Outage, topic, redis,
     published, faults
<1>8. CASE CheckDuplicate
  BY <1>8 DEF CheckDuplicate, Goto, Finish, Idle, topic, redis, published, faults
<1>9. CASE InsertAlert
  <2> DEFINE n == Len(alerts) + 1
             new == NewAlert(consumer.subject)
  <2>1. new \in Row /\ new.resolved = FALSE
    BY <1>9 DEF NewAlert, Row, Note, TypeInv, ConsumerOK, LogOK
  <2>2. alerts' = Append(alerts, new) /\ UNCHANGED <<updates, request, failures, crashes>>
    BY <1>9 DEF InsertAlert, published, faults
  <2> HIDE DEF new
  <2>3. /\ DOMAIN alerts' = 1 .. n /\ \A i \in 1 .. Len(alerts) : alerts'[i] = alerts[i]
        /\ ~ alerts'[n].resolved
    BY <2>1, <2>2, Appended DEF TypeInv, TableOK
  <2>4. \A i \in DOMAIN alerts' : i = n \/ i \in DOMAIN alerts
    BY <2>3, <1>a
  <2>5. \A i \in DOMAIN alerts' : ToAnnounce(i)' => i \in DOMAIN alerts /\ ToAnnounce(i)
    BY <2>3, <2>4, <1>a DEF ToAnnounce
  <2> QED BY <2>2, <2>5, <1>b, PendingKept
<1>10. CASE PublishAlert
  BY <1>10 DEF PublishAlert, PublishProcessedAlert, Goto, topic, redis, published, faults
<1>11. CASE MarkDuplicate
  BY <1>11 DEF MarkDuplicate, SetDeduplicationMarker, Goto, Finish, Idle, topic, redis,
     published, faults
<1>12. CASE Activate
  BY <1>12 DEF Activate, SetActiveAlert, Continue, NextOutage, Goto, Finish, Idle, Outage,
     topic, redis, published, faults
<1>13. CASE ConsumerFails
  BY <1>13 DEF ConsumerFails, Finish, CutShort, Idle, Eventful, topic, redis, published, faults
<1>14. CASE AutoResolve
  <2>1. PICK rows : alerts' = AutoResolved(rows)
    BY <1>14 DEF AutoResolve
  <2>2. UNCHANGED <<updates, request, failures, crashes>>
    BY <1>14 DEF AutoResolve, published, faults
  <2>3. DOMAIN alerts' = DOMAIN alerts
    BY <1>14, InPlace DEF SameRows, TypeInv
  <2>4. ASSUME NEW i \in DOMAIN alerts, i \in rows PROVE ~ ToAnnounce(i)'
    BY <2>1, <2>4, <1>a, RowAutoResolved DEF AutoResolved, ToAnnounce
  <2>5. ASSUME NEW i \in DOMAIN alerts, i \notin rows PROVE ToAnnounce(i)' => ToAnnounce(i)
    BY <2>1, <2>5 DEF AutoResolved, ToAnnounce
  <2> QED BY <2>2, <2>3, <2>4, <2>5, <1>b, PendingKept
<1>15. ASSUME NEW over \in BOOLEAN, NEW meters \in Reports, EmitAggregate(over, meters)
       PROVE  AnnouncementInv'
  BY <1>15 DEF EmitAggregate, Emit, topic, redis, published, faults
<1>16. ASSUME NEW m \in Anomalous, EmitAnomaly(m) PROVE AnnouncementInv'
  BY <1>16 DEF EmitAnomaly, Emit, topic, redis, published, faults
<1>17. ASSUME NEW r \in Requests, UpdateAlert(r) PROVE AnnouncementInv'
  <2> DEFINE q == request[r]
             row == Updated(alerts[q.row], q.op, q.notes)
             p == request'[r]
  <2>1. /\ q.stage = "update" /\ alerts' = [alerts EXCEPT ![q.row] = row]
        /\ request' = [request EXCEPT ![r] = [q EXCEPT !.stage = "publish", !.status = Status(row)]]
        /\ UNCHANGED <<updates, failures, crashes>>
    BY <1>17 DEF UpdateAlert, published, faults
  <2>2. DOMAIN alerts' = DOMAIN alerts /\ q.row \in DOMAIN alerts
    BY <1>17, <2>1, InPlace, Stored DEF SameRows, TypeInv, RequestOK, RequestRecord
  <2>3. q \in RequestRecord
    BY <1>a
  <2>4. /\ p.row = q.row /\ p.todo = q.todo /\ p.op = q.op /\ p.stage = "publish"
        /\ p.status = Status(row)
    BY <2>1, <2>3, <1>a DEF RequestRecord
  <2>5. row.resolved => Status(row) = "resolved"
    BY DEF Status
  <2> HIDE DEF row, p
  <2>6. ASSUME NEW i \in DOMAIN alerts PROVE Pending(q, i) => Pending(p, i)
    BY <2>1, <2>4 DEF Pending
  <2>7. ASSUME NEW i \in DOMAIN alerts, ToAnnounce(i)'
        PROVE  ToAnnounce(i) \/ Pending(p, i)
    <3>1. CASE i = q.row
      <4>1. alerts'[i] = row
        BY <2>1, <3>1, <2>2
      <4>2. alerts'[i].resolved
        BY <2>7, Zenon DEF ToAnnounce
      <4>3. row.resolved
        BY <4>1, <4>2, Zenon
      <4>4. p.status = "resolved"
        BY <4>3, <2>4, <2>5, Zenon
      <4>5. p.row = i /\ p.stage = "publish"
        BY <3>1, <2>4
      <4> QED BY <4>4, <4>5, Zenon DEF Pending
    <3>2. CASE i # q.row
      <4>1. alerts'[i] = alerts[i]
        BY <2>1, <3>2
      <4> QED BY <4>1, <2>7 DEF ToAnnounce
    <3> QED BY <3>1, <3>2
  <2>8. \A s \in Requests : s # r => request'[s] = request[s]
    BY <1>17, <1>a DEF UpdateAlert
  <2> HIDE DEF p, q
  <2>9. request[r] = q /\ request'[r] = p
    BY DEF p, q
  <2> QED BY <2>1, <2>2, <2>4, <2>6, <2>7, <2>8, <2>9, <1>b, PendingKept DEF ToAnnounce
<1>18. ASSUME NEW r \in Requests, PublishUpdate(r) PROVE AnnouncementInv'
  <2> DEFINE q == request[r]
             p == request'[r]
  <2>1. /\ q.stage = "publish" /\ updates' = updates \cup {<<q.row, q.status>>}
        /\ UNCHANGED <<alerts, failures, crashes>>
    BY <1>18 DEF PublishUpdate, PublishAlertStatusUpdate, faults
  <2>2. q \in RequestRecord
    BY <1>a
  <2>3. p.todo = q.todo /\ (p.todo # {} => p.op = "bulk" /\ p.stage # "idle")
    <3>1. CASE q.op = "bulk" /\ q.todo # {}
      <4>1. request' = [request EXCEPT ![r] = [q EXCEPT !.stage = "next"]]
        BY <1>18, <2>1, <3>1 DEF PublishUpdate, After, Proceed
      <4> QED BY <4>1, <2>2, <3>1, <1>a DEF RequestRecord
    <3>2. CASE q.op = "bulk" /\ q.todo = {}
      <4>1. request' = [request EXCEPT ![r] = NoRequest]
        BY <1>18, <2>1, <3>2 DEF PublishUpdate, After, Proceed
      <4> QED BY <4>1, <3>2, <1>a DEF NoRequest
    <3>3. CASE q.op # "bulk"
      <4>1. request' = [request EXCEPT ![r] = [q EXCEPT !.stage = "clear"]]
        BY <1>18, <2>1, <3>3 DEF PublishUpdate, After, Proceed
      <4>2. q.todo = {}
        BY <3>3, <1>b
      <4> QED BY <4>1, <4>2, <2>2, <1>a DEF RequestRecord
    <3> QED BY <3>1, <3>2, <3>3
  <2> HIDE DEF p
  <2>4. \A i \in DOMAIN alerts : Pending(q, i) => Pending(p, i) \/ <<i, "resolved">> \in updates'
    BY <2>1, <2>3 DEF Pending
  <2>8. \A s \in Requests : s # r => request'[s] = request[s]
    BY <1>18, <1>a DEF PublishUpdate, After, Proceed
  <2> HIDE DEF p, q
  <2>9. request[r] = q /\ request'[r] = p
    BY DEF p, q
  <2> QED BY <2>1, <2>3, <2>4, <2>8, <2>9, <1>b, PendingKept DEF ToAnnounce
<1>19. ASSUME NEW r \in Requests, ClearActive(r) PROVE AnnouncementInv'
  <2> DEFINE q == request[r]
             p == request'[r]
  <2>1. q.stage = "clear" /\ UNCHANGED <<alerts, updates, failures, crashes>>
    BY <1>19 DEF ClearActive, published, faults
  <2>2. q \in RequestRecord
    BY <1>a
  <2>3. CASE q.op = "bulk"
    <3>1. request' = [request EXCEPT ![r] = [q EXCEPT !.stage = "publish"]]
      BY <1>19, <2>1, <2>3 DEF ClearActive, After, Proceed
    <3>2. /\ p.todo = q.todo /\ p.op = q.op /\ p.row = q.row /\ p.status = q.status
          /\ p.stage = "publish"
      BY <3>1, <2>2, <1>a DEF RequestRecord
    <3> HIDE DEF p
    <3>3. \A i \in DOMAIN alerts : Pending(q, i) => Pending(p, i)
      BY <2>1, <3>2 DEF Pending
    <3>4. \A s \in Requests : s # r => request'[s] = request[s]
      BY <3>1, <1>a
    <3> HIDE DEF q
    <3>5. request[r] = q /\ request'[r] = p
      BY DEF p, q
    <3> QED BY <2>1, <2>3, <3>2, <3>3, <3>4, <3>5, <1>b, PendingKept DEF ToAnnounce
  <2>4. CASE q.op # "bulk"
    <3>1. q.todo = {}
      BY <2>4, <1>b
    <3>2. request' = [request EXCEPT ![r] = NoRequest]
      BY <1>19, <2>1, <2>4, <3>1 DEF ClearActive, After, Proceed
    <3>3. p.todo = {}
      BY <3>2, <1>a DEF NoRequest
    <3> HIDE DEF p
    <3>4. \A i \in DOMAIN alerts : ~ Pending(q, i)
      BY <2>1, <2>4, <3>1 DEF Pending
    <3>5. \A s \in Requests : s # r => request'[s] = request[s]
      BY <3>2, <1>a
    <3> HIDE DEF q
    <3>6. request[r] = q /\ request'[r] = p
      BY DEF p, q
    <3> QED BY <2>1, <3>3, <3>4, <3>5, <3>6, <1>b, PendingKept DEF ToAnnounce
  <2> QED BY <2>3, <2>4
<1>20. ASSUME NEW r \in Requests, RequestFails(r) PROVE AnnouncementInv'
  <2>1. failures' # 0 /\ \A s \in Requests : request'[s].todo # {} => request'[s] = request[s]
    BY <1>20, <1>a DEF RequestFails, NoRequest
  <2> QED BY <2>1, <1>b DEF AnnouncementInv
<1>21. ASSUME NEW r \in Requests, NEW i \in request[r].todo, NextResolved(r, i)
       PROVE  AnnouncementInv'
  <2> DEFINE q == request[r]
             p == request'[r]
  <2>1. q.stage = "next" /\ UNCHANGED <<alerts, updates, failures, crashes>>
    BY <1>21 DEF NextResolved, published, faults
  <2>2. q \in RequestRecord /\ q.op = "bulk"
    BY <1>a, <1>b
  <2>3. /\ p.stage = "clear" /\ p.row = i /\ p.status = "resolved" /\ p.op = q.op
        /\ p.todo = q.todo \ {i}
    BY <1>21, <2>2, <1>a DEF NextResolved, RequestRecord
  <2> HIDE DEF p
  <2>4. \A j \in DOMAIN alerts : Pending(q, j) => Pending(p, j)
    BY <2>1, <2>2, <2>3 DEF Pending
  <2>8. \A s \in Requests : s # r => request'[s] = request[s]
    BY <1>21, <1>a DEF NextResolved
  <2> HIDE DEF p, q
  <2>9. request[r] = q /\ request'[r] = p
    BY DEF p, q
  <2> QED BY <2>1, <2>2, <2>3, <2>4, <2>8, <2>9, <1>b, PendingKept DEF ToAnnounce
<1>22. ASSUME NEW r \in Requests, NEW i \in DOMAIN alerts, Acknowledge(r, i)
       PROVE  AnnouncementInv'
  <2>1. /\ request[r].stage = "idle" /\ request' = [request EXCEPT ![r] = AcknowledgeAlert(i)]
        /\ AcknowledgeAlert(i).todo = {} /\ UNCHANGED <<alerts, updates, failures, crashes>>
    BY <1>22 DEF Acknowledge, Begin, AcknowledgeAlert, NoRequest, published, faults
  <2>2. \A j \in DOMAIN alerts : ~ Pending(request[r], j)
    BY <2>1, <1>b DEF Pending
  <2>3. \A s \in Requests : request'[s] = IF s = r THEN AcknowledgeAlert(i) ELSE request[s]
    BY <2>1, <1>a
  <2> QED BY <2>1, <2>2, <2>3, <1>b, PendingKept DEF ToAnnounce
<1>23. ASSUME NEW r \in Requests, NEW i \in DOMAIN alerts, Resolve(r, i) PROVE AnnouncementInv'
  <2>1. /\ request[r].stage = "idle" /\ request' = [request EXCEPT ![r] = ResolveAlert(i)]
        /\ ResolveAlert(i).todo = {} /\ UNCHANGED <<alerts, updates, failures, crashes>>
    BY <1>23 DEF Resolve, Begin, ResolveAlert, NoRequest, published, faults
  <2>2. \A j \in DOMAIN alerts : ~ Pending(request[r], j)
    BY <2>1, <1>b DEF Pending
  <2>3. \A s \in Requests : request'[s] = IF s = r THEN ResolveAlert(i) ELSE request[s]
    BY <2>1, <1>a
  <2> QED BY <2>1, <2>2, <2>3, <1>b, PendingKept DEF ToAnnounce
<1>24. ASSUME NEW r \in Requests, NEW rows \in SUBSET DOMAIN alerts, BulkResolve(r, rows)
       PROVE  AnnouncementInv'
  <2> DEFINE q == request[r]
             p == request'[r]
             open == {i \in rows : ~alerts[i].resolved}
  <2>1. /\ q.stage = "idle"
        /\ request' = [request EXCEPT ![r] = [NoRequest EXCEPT !.op = "bulk", !.stage = "next", !.todo = open]]
        /\ alerts' = BulkResolved(open) /\ UNCHANGED <<updates, failures, crashes>>
    BY <1>24 DEF BulkResolve, Begin, published, faults
  <2>2. DOMAIN alerts' = DOMAIN alerts
    BY <1>24, InPlace DEF SameRows, TypeInv
  <2>3. p.stage = "next" /\ p.op = "bulk" /\ p.todo = open
    BY <2>1, <1>a DEF NoRequest
  <2> HIDE DEF p, open
  <2>4. \A i \in open : Pending(p, i)
    BY <2>3 DEF Pending
  <2>5. ASSUME NEW i \in DOMAIN alerts, i \notin open PROVE ToAnnounce(i)' => ToAnnounce(i)
    BY <2>1, <2>5 DEF BulkResolved, ToAnnounce
  <2>6. \A i \in DOMAIN alerts : ~ Pending(q, i)
    BY <2>1, <1>b DEF Pending
  <2>8. \A s \in Requests : s # r => request'[s] = request[s]
    BY <1>24, <1>a DEF BulkResolve, Begin
  <2> HIDE DEF p, q
  <2>9. request[r] = q /\ request'[r] = p
    BY DEF p, q
  <2> QED BY <2>1, <2>2, <2>3, <2>4, <2>5, <2>6, <2>8, <2>9, <1>b, PendingKept DEF ToAnnounce
<1> QED BY <1>0, <1>1, <1>2, <1>3, <1>4, <1>5, <1>6, <1>7, <1>8, <1>9, <1>10, <1>11, <1>12,
   <1>13, <1>14, <1>15, <1>16, <1>17, <1>18, <1>19, <1>20, <1>21, <1>22, <1>23,
   <1>24 DEF Next, ConsumerStep, RequestStep

LEMMA InitAnnouncement == Init => AnnouncementInv
<1>1. Init => DOMAIN alerts = {} /\ \A r \in Requests : request[r].todo = {}
  BY DEF Init, NoRequest
<1> QED BY <1>1 DEF AnnouncementInv

-----------------------------------------------------------------------------
(* Of a row the views and the announcements show three things: its table,   *)
(* what was announced, and what requests are about to announce.  Few steps  *)
(* touch these.                                                             *)
Quiet == failures = 0 /\ crashes = 0

OfRow(r, i) == Acknowledge(r, i) \/ Resolve(r, i)

OfRequest(r) ==
  \/ UpdateAlert(r) \/ PublishUpdate(r) \/ ClearActive(r) \/ RequestFails(r)
  \/ \E i \in request[r].todo : NextResolved(r, i)
  \/ \E i \in DOMAIN alerts : OfRow(r, i)
  \/ \E rows \in SUBSET DOMAIN alerts : BulkResolve(r, rows)

LEMMA FewTouchAnnouncements ==
  ASSUME TypeInv, [Next]_vars
  PROVE  \/ UNCHANGED <<alerts, updates, request>> /\ (Quiet' => Quiet)
         \/ InsertAlert \/ AutoResolve \/ Crash
         \/ \E r \in Requests : OfRequest(r)
<1> USE DEF published, faults, topic, redis, Quiet
<1>0. CASE UNCHANGED vars
  BY <1>0 DEF vars
<1>1. CASE Tick \/ (\E over \in BOOLEAN, meters \in Reports : EmitAggregate(over, meters))
           \/ (\E m \in Anomalous : EmitAnomaly(m))
  BY <1>1 DEF Tick, EmitAggregate, EmitAnomaly, Emit
<1>2. CASE Consume \/ CountWindows \/ FindOutages \/ CheckActive \/ CheckDuplicate
           \/ MarkDuplicate \/ Activate
  BY <1>2 DEF Consume, CountWindows, FindOutages, CheckActive, CheckDuplicate,
     MarkDuplicate, Activate
<1>3. CASE PublishAlert
  BY <1>3 DEF PublishAlert, PublishProcessedAlert
<1>4. CASE ConsumeFails \/ ConsumerFails
  <2>1. failures' = failures + 1 /\ UNCHANGED <<alerts, updates, request>>
    BY <1>4 DEF ConsumeFails, ConsumerFails
  <2> QED BY <2>1 DEF TypeInv, CountsOK
<1> QED BY <1>0, <1>1, <1>2, <1>3, <1>4 DEF Next, ConsumerStep, RequestStep, OfRequest, OfRow

(* A row is never taken back to unresolved or to not acknowledged.          *)
Advances ==
  \A i \in DOMAIN alerts :
    /\ i \in DOMAIN alerts'
    /\ alerts[i].resolved => alerts'[i].resolved
    /\ alerts[i].acknowledged => alerts'[i].acknowledged

LEMMA UpdatedRow ==
  ASSUME NEW row \in Row, NEW op \in {"acknowledge", "resolve"}, NEW notes
  PROVE  LET new == Updated(row, op, notes)
         IN /\ new.acknowledged <=> row.acknowledged \/ op = "acknowledge"
            /\ new.resolved <=> row.resolved \/ op = "resolve"
            /\ row.acknowledged => new.acknowledged
            /\ row.resolved => new.resolved
<1>1. PICK a \in BOOLEAN, s \in BOOLEAN :
        /\ a <=> row.acknowledged \/ op = "acknowledge"
        /\ s <=> row.resolved \/ op = "resolve"
        /\ Updated(row, op, notes)
             = [row EXCEPT !.acknowledged = a, !.resolved = s, !.notes = notes]
  BY Zenon DEF Updated
<1>2. LET new == [row EXCEPT !.acknowledged = a, !.resolved = s, !.notes = notes]
      IN new.acknowledged = a /\ new.resolved = s
  BY DEF Row
<1> QED BY <1>1, <1>2, Zenon

(* What is announced of a row, and what a request is about to announce, is  *)
(* true of it; the rows a bulk request still has to announce are resolved.  *)
Truth(table, i, status) ==
  \/ status = "resolved" /\ table[i].resolved
  \/ status = "acknowledged" /\ table[i].acknowledged

Honest(table, q) ==
  /\ q.stage = "update" => q.op \in {"acknowledge", "resolve"}
  /\ \A i \in q.todo : table[i].resolved
  /\ q.stage \in {"publish", "clear"} => Truth(table, q.row, q.status)

TruthInv ==
  /\ \A u \in updates : Truth(alerts, u[1], u[2])
  /\ \A r \in Requests : Honest(alerts, request[r])

LEMMA RowsAdvance ==
  ASSUME TypeInv, TruthInv, [Next]_vars PROVE Advances
<1>0. /\ Len(alerts) \in Nat /\ DOMAIN alerts = 1 .. Len(alerts)
      /\ \A i \in DOMAIN alerts : alerts[i] \in Row
  BY Stored DEF TypeInv
<1>1. CASE UNCHANGED alerts
  BY <1>1 DEF Advances
<1>2. CASE InsertAlert
  <2>1. alerts' = Append(alerts, NewAlert(consumer.subject))
    BY <1>2 DEF InsertAlert
  <2>2. NewAlert(consumer.subject) \in Row
    BY <1>2 DEF NewAlert, Row, Note, TypeInv, ConsumerOK, LogOK
  <2> QED BY <2>1, <2>2, Appended DEF Advances, TypeInv, TableOK
<1>3. CASE AutoResolve
  <2>1. PICK rows : alerts' = AutoResolved(rows)
    BY <1>3 DEF AutoResolve
  <2>2. ASSUME NEW i \in DOMAIN alerts
        PROVE  LET new == [alerts[i] EXCEPT !.resolved = TRUE, !.notes = @ \cup {"auto_resolved"}]
               IN new.resolved = TRUE /\ new.acknowledged = alerts[i].acknowledged
    BY <1>0 DEF Row
  <2> QED BY <2>1, <2>2, Zenon DEF AutoResolved, Advances
<1>4. ASSUME NEW r \in Requests, UpdateAlert(r) PROVE Advances
  <2> DEFINE q == request[r]
             row == Updated(alerts[q.row], q.op, q.notes)
  <2>1. q.stage = "update" /\ alerts' = [alerts EXCEPT ![q.row] = row]
    BY <1>4 DEF UpdateAlert
  <2>2. q.row \in DOMAIN alerts /\ q.op \in {"acknowledge", "resolve"}
    BY <2>1, <1>0 DEF TypeInv, RequestOK, RequestRecord, TruthInv, Honest
  <2>3. /\ alerts[q.row].acknowledged => row.acknowledged
        /\ alerts[q.row].resolved => row.resolved
    BY <2>2, <1>0, UpdatedRow, Zenon
  <2> HIDE DEF q, row
  <2> QED BY <2>1, <2>2, <2>3, Zenon DEF Advances
<1>5. ASSUME NEW r \in Requests, NEW rows \in SUBSET DOMAIN alerts, BulkResolve(r, rows)
      PROVE  Advances
  <2>1. PICK open : alerts' = BulkResolved(open)
    BY <1>5 DEF BulkResolve
  <2>2. ASSUME NEW i \in DOMAIN alerts
        PROVE  LET new == [alerts[i] EXCEPT !.resolved = TRUE]
               IN new.resolved = TRUE /\ new.acknowledged = alerts[i].acknowledged
    BY <1>0 DEF Row
  <2> QED BY <2>1, <2>2, Zenon DEF BulkResolved, Advances
<1> QED BY <1>1, <1>2, <1>3, <1>4, <1>5, FewTouchAnnouncements
        DEF OfRequest, OfRow, Crash, PublishUpdate, ClearActive, RequestFails, NextResolved,
            Acknowledge, Resolve

LEMMA HonestKept ==
  ASSUME TypeInv, Advances, NEW q \in RequestRecord, Honest(alerts, q),
         q.stage \in {"update", "publish", "clear"} => q.row # 0
  PROVE  Honest(alerts', q)
<1>1. \A i \in q.todo : i \in DOMAIN alerts
  BY DEF RequestRecord
<1>2. q.stage \in {"publish", "clear"} => q.row \in DOMAIN alerts
  BY Stored DEF RequestRecord, TypeInv
<1> QED BY <1>1, <1>2, Zenon DEF Honest, Truth, Advances

(* Whoever is not the request that makes the step stays honest, and so do   *)
(* the announcements.                                                       *)
LEMMA TruthKept ==
  ASSUME TypeInv, TruthInv, Advances,
         \A r \in Requests : request'[r] = request[r] \/ Honest(alerts', request'[r]),
         \A u \in updates' : u \in updates \/ Truth(alerts', u[1], u[2])
  PROVE  TruthInv'
<1>1. \A u \in updates : u[1] \in DOMAIN alerts
  BY DEF TypeInv, TableOK
<1>2. \A u \in updates' : Truth(alerts', u[1], u[2])
  BY <1>1, Zenon DEF TruthInv, Truth, Advances
<1>3. ASSUME NEW r \in Requests, request'[r] = request[r] PROVE Honest(alerts', request'[r])
  <2>1. /\ request[r] \in RequestRecord /\ Honest(alerts, request[r])
        /\ request[r].stage \in {"update", "publish", "clear"} => request[r].row # 0
    BY DEF TypeInv, RequestOK, TruthInv
  <2> QED BY <2>1, <1>3, HonestKept
<1> QED BY <1>2, <1>3 DEF TruthInv

LEMMA TruthStays ==
  ASSUME TypeInv, TruthInv, [Next]_vars PROVE TruthInv'
<1>0. Advances
  BY RowsAdvance
<1>a. /\ request \in [Requests -> RequestRecord]
      /\ Len(alerts) \in Nat /\ DOMAIN alerts = 1 .. Len(alerts)
      /\ \A i \in DOMAIN alerts : alerts[i] \in Row
  BY Stored DEF TypeInv, RequestOK
<1>1. CASE UNCHANGED <<updates, request>>
  BY <1>0, <1>1, TruthKept
<1>2. CASE Crash
  <2>1. UNCHANGED updates /\ \A r \in Requests : request'[r] = NoRequest
    BY <1>2 DEF Crash, published
  <2>2. Honest(alerts', NoRequest)
    BY DEF Honest, NoRequest
  <2> QED BY <1>0, <2>1, <2>2, TruthKept
<1>3. ASSUME NEW r \in Requests, OfRequest(r) PROVE TruthInv'
  <2> DEFINE q == request[r]
             p == request'[r]
  <2>0. /\ q \in RequestRecord /\ Honest(alerts, q)
        /\ q.stage \in {"update", "publish", "clear"} => q.row # 0
    BY DEF TypeInv, RequestOK, TruthInv
  <2>1. ASSUME NEW new, request' = [request EXCEPT ![r] = new], Honest(alerts', new),
               UNCHANGED updates
        PROVE  TruthInv'
    <3>1. /\ \A s \in Requests \ {r} : request'[s] = request[s]
          /\ request'[r] = new
      BY <2>1, <1>a
    <3> QED BY <1>0, <2>1, <3>1, TruthKept
  <2>2. CASE UpdateAlert(r)
    <3> DEFINE row == Updated(alerts[q.row], q.op, q.notes)
               new == [q EXCEPT !.stage = "publish", !.status = Status(row)]
    <3>1. /\ q.stage = "update" /\ alerts' = [alerts EXCEPT ![q.row] = row]
          /\ request' = [request EXCEPT ![r] = new]
          /\ UNCHANGED updates
      BY <2>2 DEF UpdateAlert, published
    <3>2. q.row \in DOMAIN alerts /\ q.op \in {"acknowledge", "resolve"}
      BY <2>0, <3>1, <1>a DEF RequestRecord, Honest
    <3>3. \/ Status(row) = "resolved" /\ row.resolved
          \/ Status(row) = "acknowledged" /\ row.acknowledged
      <4>1. row.acknowledged \/ row.resolved
        BY <3>2, <1>a, UpdatedRow, Zenon
      <4> HIDE DEF row
      <4>2. CASE row.resolved
        BY <4>2 DEF Status
      <4>3. CASE ~ row.resolved
        BY <4>1, <4>3 DEF Status
      <4> QED BY <4>2, <4>3
    <3>4. alerts'[q.row] = row
      BY <3>1, <3>2
    <3> HIDE DEF row
    <3>5. Truth(alerts', q.row, Status(row))
      BY <3>3, <3>4 DEF Truth
    <3>6. /\ new.stage = "publish" /\ new.status = Status(row)
          /\ new.row = q.row /\ new.todo = q.todo /\ new.op = q.op
      BY <2>0 DEF RequestRecord
    <3>7. Honest(alerts', q)
      BY <1>0, <2>0, HonestKept
    <3> HIDE DEF new
    <3>8. Honest(alerts', new)
      BY <3>5, <3>6, <3>7 DEF Honest
    <3> QED BY <3>1, <3>8, <2>1
  <2>3. CASE PublishUpdate(r)
    <3>1. /\ q.stage = "publish" /\ updates' = updates \cup {<<q.row, q.status>>}
          /\ UNCHANGED alerts
      BY <2>3 DEF PublishUpdate, PublishAlertStatusUpdate
    <3>2. PICK stage \in {"clear", "next", "idle"} :
            request' = [request EXCEPT ![r] = IF stage = "idle" THEN NoRequest
                                              ELSE [q EXCEPT !.stage = stage]]
      BY <2>3, <3>1 DEF PublishUpdate, After, Proceed
    <3>3. /\ \A s \in Requests \ {r} : request'[s] = request[s]
          /\ p = IF stage = "idle" THEN NoRequest ELSE [q EXCEPT !.stage = stage]
      BY <3>2, <1>a
    <3>4. Honest(alerts', p)
      <4>1. CASE stage = "idle"
        BY <4>1, <3>3 DEF Honest, NoRequest
      <4>2. CASE stage # "idle"
        <5>1. p.stage = stage /\ p.todo = q.todo /\ p.row = q.row /\ p.status = q.status
          BY <4>2, <3>3, <2>0 DEF RequestRecord
        <5> HIDE DEF p
        <5> QED BY <5>1, <2>0, <3>1 DEF Honest
      <4> QED BY <4>1, <4>2
    <3>5. Truth(alerts', q.row, q.status)
      BY <2>0, <3>1 DEF Honest
    <3>6. \A u \in updates' : u \in updates \/ Truth(alerts', u[1], u[2])
      <4> HIDE DEF q
      <4> QED BY <3>1, <3>5
    <3> QED BY <1>0, <3>3, <3>4, <3>6, TruthKept
  <2>4. CASE ClearActive(r)
    <3>1. q.stage = "clear" /\ UNCHANGED <<alerts, updates>>
      BY <2>4 DEF ClearActive, published
    <3>2. PICK stage \in {"publish", "next", "idle"} :
            request' = [request EXCEPT ![r] = IF stage = "idle" THEN NoRequest
                                              ELSE [q EXCEPT !.stage = stage]]
      BY <2>4, <3>1 DEF ClearActive, After, Proceed
    <3>3. CASE stage = "idle"
      <4>1. Honest(alerts', NoRequest)
        BY DEF Honest, NoRequest
      <4> QED BY <3>1, <3>2, <3>3, <4>1, <2>1
    <3>4. CASE stage # "idle"
      <4> DEFINE new == [q EXCEPT !.stage = stage]
      <4>1. new.stage = stage /\ new.todo = q.todo /\ new.row = q.row /\ new.status = q.status
        BY <2>0 DEF RequestRecord
      <4> HIDE DEF new
      <4>2. Honest(alerts', new)
        BY <4>1, <3>4, <2>0, <3>1 DEF Honest
      <4>3. request' = [request EXCEPT ![r] = new]
        BY <3>2, <3>4 DEF new
      <4> QED BY <3>1, <4>2, <4>3, <2>1
    <3> QED BY <3>3, <3>4
  <2>5. CASE RequestFails(r)
    <3>1. request' = [request EXCEPT ![r] = NoRequest] /\ UNCHANGED updates
      BY <2>5 DEF RequestFails, published
    <3>2. Honest(alerts', NoRequest)
      BY DEF Honest, NoRequest
    <3> QED BY <3>1, <3>2, <2>1
  <2>6. ASSUME NEW i \in q.todo, NextResolved(r, i) PROVE TruthInv'
    <3> DEFINE new == [q EXCEPT !.stage = "clear", !.row = i, !.status = "resolved",
                                !.todo = @ \ {i}]
    <3>1. request' = [request EXCEPT ![r] = new] /\ UNCHANGED <<alerts, updates>>
      BY <2>6 DEF NextResolved, published
    <3>2. /\ new.stage = "clear" /\ new.row = i /\ new.status = "resolved"
          /\ new.todo = q.todo \ {i}
      BY <2>0 DEF RequestRecord
    <3> HIDE DEF new
    <3>3. Honest(alerts', new)
      BY <2>0, <3>1, <3>2 DEF Honest, Truth
    <3> QED BY <3>1, <3>3, <2>1
  <2>7. ASSUME NEW i \in DOMAIN alerts, OfRow(r, i) PROVE TruthInv'
    <3>1. PICK new \in {AcknowledgeAlert(i), ResolveAlert(i)} :
            request' = [request EXCEPT ![r] = new] /\ UNCHANGED updates
      BY <2>7 DEF OfRow, Acknowledge, Resolve, Begin, published
    <3>2. Honest(alerts', new)
      BY <3>1 DEF Honest, AcknowledgeAlert, ResolveAlert, NoRequest
    <3> QED BY <3>1, <3>2, <2>1
  <2>8. ASSUME NEW rows \in SUBSET DOMAIN alerts, BulkResolve(r, rows) PROVE TruthInv'
    <3> DEFINE open == {i \in rows : ~alerts[i].resolved}
               new == [NoRequest EXCEPT !.op = "bulk", !.stage = "next", !.todo = open]
    <3>1. /\ request' = [request EXCEPT ![r] = new] /\ UNCHANGED updates
          /\ alerts' = BulkResolved(open)
      BY <2>8 DEF BulkResolve, Begin, published
    <3>2. new.stage = "next" /\ new.todo = open
      BY DEF NoRequest
    <3>3. \A i \in open : alerts'[i].resolved
      <4>1. ASSUME NEW i \in DOMAIN alerts PROVE [alerts[i] EXCEPT !.resolved = TRUE].resolved
        BY <1>a DEF Row
      <4>2. open \subseteq DOMAIN alerts
        OBVIOUS
      <4> HIDE DEF open
      <4> QED BY <3>1, <4>1, <4>2 DEF BulkResolved
    <3> HIDE DEF new, open
    <3>4. Honest(alerts', new)
      BY <3>2, <3>3 DEF Honest
    <3> QED BY <3>1, <3>4, <2>1
  <2> QED BY <1>3, <2>2, <2>3, <2>4, <2>5, <2>6, <2>7, <2>8 DEF OfRequest
<1>4. CASE InsertAlert \/ AutoResolve
  <2>1. UNCHANGED <<updates, request>>
    BY <1>4 DEF InsertAlert, AutoResolve, published
  <2> QED BY <2>1, <1>1
<1> QED BY <1>1, <1>2, <1>3, <1>4, FewTouchAnnouncements

(* While nothing fails, an acknowledgement is announced, by itself or with  *)
(* the resolution it found, or about to be.                                 *)
Announces(q, i) == q.stage = "publish" /\ q.row = i

AcknowledgedInv ==
  Quiet => \A i \in DOMAIN alerts : alerts[i].acknowledged =>
    \/ <<i, "acknowledged">> \in updates \/ <<i, "resolved">> \in updates
    \/ \E r \in Requests : Announces(request[r], i)

(* A step in which no row is newly acknowledged but by its own request, and *)
(* no announcement is dropped.                                              *)
LEMMA AcknowledgedKept ==
  ASSUME AcknowledgedInv, updates \subseteq updates', Quiet' => Quiet,
         \A i \in DOMAIN alerts', r \in Requests :
           i \in DOMAIN alerts /\ Announces(request[r], i) =>
             \/ Announces(request'[r], i)
             \/ <<i, "acknowledged">> \in updates' \/ <<i, "resolved">> \in updates',
         \A i \in DOMAIN alerts' : alerts'[i].acknowledged =>
           \/ i \in DOMAIN alerts /\ alerts[i].acknowledged
           \/ \E r \in Requests : Announces(request'[r], i)
  PROVE  AcknowledgedInv'
<1> SUFFICES ASSUME Quiet', NEW i \in DOMAIN alerts', alerts'[i].acknowledged
             PROVE  \/ <<i, "acknowledged">> \in updates' \/ <<i, "resolved">> \in updates'
                    \/ \E r \in Requests : Announces(request'[r], i)
  BY DEF AcknowledgedInv, Announces
<1>1. CASE i \in DOMAIN alerts /\ alerts[i].acknowledged
  BY <1>1 DEF AcknowledgedInv
<1>2. CASE \E r \in Requests : Announces(request'[r], i)
  BY <1>2
<1> QED BY <1>1, <1>2

LEMMA AcknowledgedStays ==
  ASSUME TypeInv, TruthInv, AcknowledgedInv, [Next]_vars PROVE AcknowledgedInv'
<1>a. /\ request \in [Requests -> RequestRecord]
      /\ Len(alerts) \in Nat /\ DOMAIN alerts = 1 .. Len(alerts)
      /\ \A i \in DOMAIN alerts : alerts[i] \in Row
      /\ failures \in Nat /\ crashes \in Nat
  BY Stored DEF TypeInv, RequestOK, CountsOK
<1>1. CASE UNCHANGED <<alerts, updates, request>> /\ (Quiet' => Quiet)
  BY <1>1, AcknowledgedKept
<1>2. CASE InsertAlert
  <2> DEFINE n == Len(alerts) + 1
             new == NewAlert(consumer.subject)
  <2>1. new \in Row /\ new.acknowledged = FALSE
    BY <1>2 DEF NewAlert, Row, Note, TypeInv, ConsumerOK, LogOK
  <2>2. alerts' = Append(alerts, new) /\ UNCHANGED <<updates, request, failures, crashes>>
    BY <1>2 DEF InsertAlert, published, faults
  <2> HIDE DEF new
  <2>3. /\ DOMAIN alerts' = 1 .. n /\ \A i \in 1 .. Len(alerts) : alerts'[i] = alerts[i]
        /\ ~ alerts'[n].acknowledged
    BY <2>1, <2>2, Appended DEF TypeInv, TableOK
  <2>4. \A i \in DOMAIN alerts' : i = n \/ i \in DOMAIN alerts
    BY <2>3, <1>a
  <2> QED BY <2>2, <2>3, <2>4, <1>a, AcknowledgedKept DEF Quiet
<1>3. CASE AutoResolve
  <2>1. PICK rows : alerts' = AutoResolved(rows)
    BY <1>3 DEF AutoResolve
  <2>2. UNCHANGED <<updates, request, failures, crashes>>
    BY <1>3 DEF AutoResolve, published, faults
  <2>3. DOMAIN alerts' = DOMAIN alerts
    BY <2>1 DEF AutoResolved
  <2>4. ASSUME NEW i \in DOMAIN alerts PROVE alerts'[i].acknowledged = alerts[i].acknowledged
    <3>1. [alerts[i] EXCEPT !.resolved = TRUE, !.notes = @ \cup {"auto_resolved"}].acknowledged
            = alerts[i].acknowledged
      BY <1>a DEF Row
    <3> QED BY <2>1, <3>1 DEF AutoResolved
  <2> QED BY <2>2, <2>3, <2>4, AcknowledgedKept DEF Quiet
<1>4. CASE Crash
  <2>1. crashes' # 0
    BY <1>4, <1>a DEF Crash
  <2> QED BY <2>1 DEF AcknowledgedInv, Quiet
<1>5. ASSUME NEW r \in Requests, OfRequest(r) PROVE AcknowledgedInv'
  <2> DEFINE q == request[r]
  <2>0. q \in RequestRecord /\ Honest(alerts, q)
    BY <1>a DEF TruthInv
  (* A step of a request that is not about to announce anything. *)
  <2>1. ASSUME q.stage # "publish", NEW new, request' = [request EXCEPT ![r] = new],
               UNCHANGED updates, Quiet' => Quiet, DOMAIN alerts' = DOMAIN alerts,
               \A i \in DOMAIN alerts : alerts'[i].acknowledged =>
                 alerts[i].acknowledged \/ (new.stage = "publish" /\ new.row = i)
        PROVE  AcknowledgedInv'
    <3>1. request'[r] = new /\ \A s \in Requests \ {r} : request'[s] = request[s]
      BY <2>1, <1>a
    <3>2. \A i, s : s \in Requests /\ Announces(request[s], i) => Announces(request'[s], i)
      BY <2>1, <3>1 DEF Announces
    <3>3. \A i \in DOMAIN alerts' : alerts'[i].acknowledged =>
             \/ i \in DOMAIN alerts /\ alerts[i].acknowledged
             \/ \E s \in Requests : Announces(request'[s], i)
      BY <2>1, <3>1 DEF Announces
    <3> QED BY <2>1, <3>2, <3>3, AcknowledgedKept
  <2>2. CASE UpdateAlert(r)
    <3> DEFINE row == Updated(alerts[q.row], q.op, q.notes)
               new == [q EXCEPT !.stage = "publish", !.status = Status(row)]
    <3>1. /\ q.stage = "update" /\ alerts' = [alerts EXCEPT ![q.row] = row]
          /\ request' = [request EXCEPT ![r] = new]
          /\ UNCHANGED <<updates, failures, crashes>>
      BY <2>2 DEF UpdateAlert, published, faults
    <3>2. new.stage = "publish" /\ new.row = q.row
      BY <2>0 DEF RequestRecord
    <3> HIDE DEF row, new
    <3>3. \A i \in DOMAIN alerts : alerts'[i].acknowledged =>
                 alerts[i].acknowledged \/ (new.stage = "publish" /\ new.row = i)
      <4> HIDE DEF q
      <4> QED BY <3>1, <3>2
    <3>4. DOMAIN alerts' = DOMAIN alerts /\ q.stage # "publish"
      BY <3>1
    <3>5. Quiet' => Quiet
      BY <3>1 DEF Quiet
    <3> QED BY <3>1, <3>3, <3>4, <3>5, <2>1
  <2>3. CASE PublishUpdate(r)
    <3>1. /\ q.stage = "publish" /\ updates' = updates \cup {<<q.row, q.status>>}
          /\ UNCHANGED <<alerts, failures, crashes>>
      BY <2>3 DEF PublishUpdate, PublishAlertStatusUpdate, faults
    <3>2. q.status \in {"acknowledged", "resolved"}
      BY <2>0, <3>1 DEF Honest, Truth
    <3>3. \A s \in Requests \ {r} : request'[s] = request[s]
      BY <2>3, <1>a DEF PublishUpdate, After, Proceed
    <3>4. Quiet' => Quiet
      BY <3>1 DEF Quiet
    <3>5. ASSUME NEW i \in DOMAIN alerts', NEW s \in Requests, Announces(request[s], i)
          PROVE  \/ Announces(request'[s], i)
                 \/ <<i, "acknowledged">> \in updates' \/ <<i, "resolved">> \in updates'
      <4>1. CASE s = r
        <5>1. q.row = i
          BY <3>5, <4>1 DEF Announces
        <5> HIDE DEF q
        <5> QED BY <3>1, <3>2, <5>1
      <4>2. CASE s # r
        BY <3>3, <3>5, <4>2
      <4> QED BY <4>1, <4>2
    <3> HIDE DEF q
    <3> QED BY <3>1, <3>4, <3>5, AcknowledgedKept
  <2>4. CASE ClearActive(r)
    <3>1. q.stage = "clear" /\ UNCHANGED <<alerts, updates, failures, crashes>>
      BY <2>4 DEF ClearActive, published, faults
    <3>2. \E new : request' = [request EXCEPT ![r] = new]
      BY <2>4 DEF ClearActive, After, Proceed
    <3>3. Quiet' => Quiet
      BY <3>1 DEF Quiet
    <3> QED BY <3>1, <3>2, <3>3, <2>1
  <2>5. CASE RequestFails(r)
    <3>1. failures' # 0
      BY <2>5, <1>a DEF RequestFails
    <3> QED BY <3>1 DEF AcknowledgedInv, Quiet
  <2>6. ASSUME NEW i \in q.todo, NextResolved(r, i) PROVE AcknowledgedInv'
    <3>1. q.stage = "next" /\ UNCHANGED <<alerts, updates, failures, crashes>>
      BY <2>6 DEF NextResolved, published, faults
    <3>2. \E new : request' = [request EXCEPT ![r] = new]
      BY <2>6 DEF NextResolved
    <3>3. Quiet' => Quiet
      BY <3>1 DEF Quiet
    <3> QED BY <3>1, <3>2, <3>3, <2>1
  <2>7. ASSUME NEW i \in DOMAIN alerts, OfRow(r, i) PROVE AcknowledgedInv'
    <3>1. /\ q.stage = "idle" /\ UNCHANGED <<alerts, updates, failures, crashes>>
          /\ \E new : request' = [request EXCEPT ![r] = new]
      BY <2>7 DEF OfRow, Acknowledge, Resolve, Begin, published, faults
    <3>2. Quiet' => Quiet
      BY <3>1 DEF Quiet
    <3> QED BY <3>1, <3>2, <2>1
  <2>8. ASSUME NEW rows \in SUBSET DOMAIN alerts, BulkResolve(r, rows) PROVE AcknowledgedInv'
    <3> DEFINE open == {i \in rows : ~alerts[i].resolved}
    <3>1. /\ q.stage = "idle" /\ UNCHANGED <<updates, failures, crashes>>
          /\ alerts' = BulkResolved(open)
          /\ \E new : request' = [request EXCEPT ![r] = new]
      BY <2>8 DEF BulkResolve, Begin, published, faults
    <3> HIDE DEF open
    <3>2. /\ DOMAIN alerts' = DOMAIN alerts
          /\ \A i \in DOMAIN alerts : alerts'[i].acknowledged = alerts[i].acknowledged
      <4>1. ASSUME NEW i \in DOMAIN alerts
            PROVE  [alerts[i] EXCEPT !.resolved = TRUE].acknowledged = alerts[i].acknowledged
        BY <1>a DEF Row
      <4> QED BY <3>1, <4>1 DEF BulkResolved
    <3>3. Quiet' => Quiet
      BY <3>1 DEF Quiet
    <3> QED BY <3>1, <3>2, <3>3, <2>1
  <2> QED BY <1>5, <2>2, <2>3, <2>4, <2>5, <2>6, <2>7, <2>8 DEF OfRequest
<1> QED BY <1>1, <1>2, <1>3, <1>4, <1>5, FewTouchAnnouncements

LEMMA InitTruth == Init => TruthInv /\ AcknowledgedInv
<1> SUFFICES ASSUME Init PROVE TruthInv /\ AcknowledgedInv
  OBVIOUS
<1>1. updates = {} /\ DOMAIN alerts = {} /\ \A r \in Requests : request[r] = NoRequest
  BY DEF Init
<1>2. Honest(alerts, NoRequest)
  BY DEF Honest, NoRequest
<1> QED BY <1>1, <1>2 DEF TruthInv, AcknowledgedInv

LEMMA TruthHolds == Spec => [](TypeInv /\ TruthInv /\ AcknowledgedInv)
BY InitTruth, TruthStays, AcknowledgedStays, TypesHold, PTL DEF Spec

LEMMA TruthIsTold == TypeInv /\ TruthInv => AnnouncementsAreTrue
<1> SUFFICES ASSUME TypeInv, TruthInv PROVE AnnouncementsAreTrue
  OBVIOUS
<1>1. \A i \in DOMAIN alerts : alerts[i].resolved \in BOOLEAN
  BY Stored, RowFields DEF TypeInv
<1>2. ASSUME NEW i \in DOMAIN alerts, NEW status, <<i, status>> \in updates
      PROVE  \/ status = "resolved" /\ alerts[i].resolved
             \/ status = "acknowledged" /\ alerts[i].acknowledged
  BY <1>2 DEF TruthInv, Truth
<1>3. Told("resolved") \subseteq GetAlertHistory
  <2>1. \A i \in Told("resolved") : i \in DOMAIN alerts /\ alerts[i].resolved
    BY <1>2 DEF Told
  <2> QED BY <2>1 DEF GetAlertHistory, GetAlerts, NoFilter
<1>4. Told("acknowledged") \subseteq GetStatistics.acknowledged
  BY <1>2 DEF Told, GetStatistics
<1>5. Told("active") = {}
  BY <1>2 DEF Told
<1> QED BY <1>3, <1>4, <1>5 DEF AnnouncementsAreTrue

LEMMA AllIsTold ==
  TypeInv /\ TruthInv /\ AcknowledgedInv /\ AnnouncementInv => AnnouncementsAreComplete
<1> SUFFICES ASSUME TypeInv, TruthInv, AcknowledgedInv, AnnouncementInv, Quiet,
                    \A r \in Requests : request[r].stage = "idle"
             PROVE
    /\ \A i \in GetAlertHistory : i \in Told("resolved") \/ "auto_resolved" \in alerts[i].notes
    /\ GetStatistics.acknowledged \subseteq Told("acknowledged") \cup Told("resolved")
    /\ \A m \in Meters : LET open == GetAlerts([NoFilter EXCEPT !.meter = m, !.status = "active"])
                        IN UserSummary(m, "any").active = open \ Told("acknowledged")
  BY Zenon DEF AnnouncementsAreComplete, Quiet
<1>0. \A i \in DOMAIN alerts : alerts[i].resolved \in BOOLEAN /\ alerts[i].acknowledged \in BOOLEAN
  BY Stored, RowFields DEF TypeInv
<1>1. \A i \in GetAlertHistory : i \in DOMAIN alerts /\ alerts[i].resolved
  BY <1>0 DEF GetAlertHistory, GetAlerts, NoFilter
<1>2. \A i \in GetAlertHistory : i \in Told("resolved") \/ "auto_resolved" \in alerts[i].notes
  <2> SUFFICES ASSUME NEW i \in DOMAIN alerts, ToAnnounce(i)
               PROVE  i \in Told("resolved")
    BY <1>1 DEF ToAnnounce
  <2>1. \A r \in Requests : ~ Pending(request[r], i)
    BY DEF Pending, AnnouncementInv
  <2> QED BY <2>1 DEF AnnouncementInv, Quiet, Told
<1>3. GetStatistics.acknowledged \subseteq Told("acknowledged") \cup Told("resolved")
  <2> SUFFICES ASSUME NEW i \in DOMAIN alerts, alerts[i].acknowledged
               PROVE  i \in Told("acknowledged") \cup Told("resolved")
    BY DEF GetStatistics
  <2>1. \A r \in Requests : ~ Announces(request[r], i)
    BY DEF Announces
  <2> QED BY <2>1 DEF AcknowledgedInv, Told
<1>4. ASSUME NEW m \in Meters
      PROVE  UserSummary(m, "any").active
               = GetAlerts([NoFilter EXCEPT !.meter = m, !.status = "active"]) \ Told("acknowledged")
  <2> DEFINE shown == GetAlerts([NoFilter EXCEPT !.meter = m, !.status = "any"])
             open == GetAlerts([NoFilter EXCEPT !.meter = m, !.status = "active"])
  <2>1. /\ shown \subseteq DOMAIN alerts
        /\ open = {i \in shown : ~alerts[i].resolved}
    BY <1>0 DEF GetAlerts, NoFilter
  <2>2. UserSummary(m, "any").active = {i \in shown : Status(alerts[i]) = "active"}
    BY DEF UserSummary
  <2> HIDE DEF shown, open
  <2>3. ASSUME NEW i \in shown
        PROVE  Status(alerts[i]) = "active" <=> ~alerts[i].resolved /\ ~alerts[i].acknowledged
    BY <1>0, <2>1 DEF Status
  <2>4. ASSUME NEW i \in shown, ~alerts[i].resolved
        PROVE  alerts[i].acknowledged <=> i \in Told("acknowledged")
    <3>1. i \in Told("acknowledged") => alerts[i].acknowledged
      BY TruthIsTold DEF AnnouncementsAreTrue, GetStatistics
    <3>2. i \notin Told("resolved")
      BY <2>4, <1>1, TruthIsTold DEF AnnouncementsAreTrue
    <3>3. alerts[i].acknowledged => i \in GetStatistics.acknowledged
      BY <2>1 DEF GetStatistics
    <3> QED BY <3>1, <3>2, <3>3, <1>3
  <2>5. ASSUME NEW i \in shown
        PROVE  Status(alerts[i]) = "active" <=> i \in open /\ i \notin Told("acknowledged")
    BY <2>1, <2>3, <2>4, Zenon
  <2>6. UserSummary(m, "any").active = {i \in shown : i \in open /\ i \notin Told("acknowledged")}
    BY <2>2, <2>5, Zenon
  <2>7. open \subseteq shown
    BY <2>1
  <2>8. UserSummary(m, "any").active = open \ Told("acknowledged")
    BY <2>6, <2>7, Zenon
  <2> QED BY <2>8 DEF open
<1> QED BY <1>2, <1>3, <1>4

(* What the service announces of alerts and what its lists, statistics and  *)
(* summaries show agree: nothing untrue is ever announced, and with no      *)
(* failure and no crash all there is has been announced by the time the     *)
(* requests are done, however many acknowledgements and resolutions, single *)
(* or bulk, overlap.                                                        *)
THEOREM ViewsAndAnnouncementsAgree == Spec => []AnnouncedAsShown
<1>1. Spec => []AnnouncementInv
  BY InitAnnouncement, AnnouncementStays, TypesHold, PTL DEF Spec
<1>2. TypeInv /\ TruthInv /\ AcknowledgedInv /\ AnnouncementInv => AnnouncedAsShown
  BY TruthIsTold, AllIsTold DEF AnnouncedAsShown
<1> QED BY <1>1, <1>2, TruthHolds, PTL

-----------------------------------------------------------------------------
(* Every window in the list comes from an overloaded aggregate, each from a *)
(* counting of its own.                                                     *)

(* The messages that this process has counted, or was not to. *)
Counted == IF consumer.stage \in {"idle", "overload"} THEN pos ELSE pos + 1

CountingInv ==
  /\ CountedOK
  /\ \A c \in counted : log[c[1]].type = "aggregate" /\ log[c[1]].over
  /\ \A c \in counted : c[2] = crashes => c[1] <= Counted

Traces(f) ==
  /\ f \in [1 .. Len(windows) -> counted]
  /\ \A k, l \in 1 .. Len(windows) : f[k] = f[l] => k = l
  /\ \A k \in 1 .. Len(windows) : log[f[k][1]].at = windows[k]

StampInv ==
  /\ \A k \in 1 .. Len(log) : log[k].type = "aggregate" => log[k].at <= now
  /\ consumer.stage = "overload" => /\ log[pos + 1].type = "aggregate" /\ log[pos + 1].over
                                   /\ log[pos + 1].at \in Nat

TraceInv == \E f : Traces(f)

(* The aggregates rest where they are in the topics. *)
LEMMA LogGrows ==
  ASSUME TypeInv, [Next]_vars
  PROVE  Len(log) <= Len(log') /\ \A k \in 1 .. Len(log) : log'[k] = log[k]
<1> USE DEF TypeInv, LogOK
<1>1. ASSUME NEW over \in BOOLEAN, NEW meters \in Reports, EmitAggregate(over, meters)
      PROVE  Len(log) <= Len(log') /\ \A k \in 1 .. Len(log) : log'[k] = log[k]
  <2>1. PICK e : log' = Append(log, e) /\ e = [type |-> "aggregate", over |-> over, meters |-> meters, at |-> now]
    BY <1>1 DEF EmitAggregate, Emit
  <2>2. e \in Aggregate \cup AnomalyMessage
    BY <2>1, MetersAssumption DEF Aggregate, Instant
  <2> QED BY <2>1, <2>2, Appended
<1>2. ASSUME NEW m \in Anomalous, EmitAnomaly(m)
      PROVE  Len(log) <= Len(log') /\ \A k \in 1 .. Len(log) : log'[k] = log[k]
  <2>1. PICK e : log' = Append(log, e) /\ e = [type |-> "anomaly", meter |-> m]
    BY <1>2 DEF EmitAnomaly, Emit
  <2>2. e \in Aggregate \cup AnomalyMessage
    BY <2>1, MetersAssumption DEF AnomalyMessage
  <2> QED BY <2>1, <2>2, Appended
<1>3. Len(log) \in Nat
  OBVIOUS
<1>4. ASSUME UNCHANGED log
      PROVE  Len(log) <= Len(log') /\ \A k \in 1 .. Len(log) : log'[k] = log[k]
  BY <1>3, <1>4
<1>5. CASE UNCHANGED vars
  BY <1>4, <1>5 DEF vars, topic
<1>6. ASSUME NEW r \in Requests, RequestStep(r) PROVE UNCHANGED log
  BY <1>6 DEF RequestStep, UpdateAlert, PublishUpdate, ClearActive, RequestFails,
     NextResolved, topic
<1>7. ASSUME NEW r \in Requests, NEW i \in DOMAIN alerts, Acknowledge(r, i) \/ Resolve(r, i)
      PROVE  UNCHANGED log
  BY <1>7 DEF Acknowledge, Resolve, Begin, topic
<1>8. ASSUME NEW r \in Requests, NEW rows \in SUBSET DOMAIN alerts, BulkResolve(r, rows)
      PROVE  UNCHANGED log
  BY <1>8 DEF BulkResolve, Begin, topic
<1>9. CASE ConsumerStep
  BY <1>4, <1>9 DEF ConsumerStep, Consume, ConsumeFails, CountWindows, FindOutages,
     CheckActive, CheckDuplicate,
     InsertAlert, PublishAlert, MarkDuplicate, Activate, ConsumerFails, topic
<1>10. CASE Tick \/ Crash \/ AutoResolve
  BY <1>4, <1>10 DEF Tick, Crash, AutoResolve, topic
<1> QED BY <1>1, <1>2, <1>4, <1>5, <1>6, <1>7, <1>8, <1>9, <1>10 DEF Next

LEMMA StampsStay ==
  ASSUME TypeInv, StampInv, [Next]_vars PROVE StampInv'
<1> USE ThresholdsAssumption
<1>a. /\ now \in Nat /\ Len(log) \in Nat /\ pos \in 0 .. Len(log)
      /\ log \in Seq(Aggregate \cup AnomalyMessage)
      /\ consumer.stage # "idle" => pos < Len(log)
      /\ \A k \in 1 .. Len(log) : log[k].type = "aggregate" => log[k].at \in Nat
  BY DEF TypeInv, LogOK, ConsumerOK, Instant, Aggregate, AnomalyMessage
<1> USE <1>a DEF StampInv
<1>0. CASE UNCHANGED vars
  BY <1>0 DEF vars, topic, redis, published, faults
<1>1. CASE Tick
  BY <1>1 DEF Tick, topic, redis, published, faults
<1>2. CASE Crash
  BY <1>2 DEF Crash, Rejoin, CutShort, Idle, NoRequest, Eventful, topic, redis, published, faults
<1>3. CASE Consume
  <2>1. CASE ProcessRegionalAggregate
    <3>1. Message.at \in Nat
      BY <1>3, <2>1, Messages DEF Consume, ProcessRegionalAggregate, TypeInv, Instant
    <3> QED BY <1>3, <2>1, <3>1 DEF Consume, ProcessRegionalAggregate, Goto, Message
  <2>2. CASE ProcessAnomalyAlert
    BY <1>3, <2>2 DEF Consume, ProcessAnomalyAlert, Goto
  <2> QED BY <1>3, <2>1, <2>2 DEF Consume
<1>4. CASE ConsumeFails
  BY <1>4 DEF ConsumeFails, UpdateMeterLastSeen, Message, Finish, Idle, Eventful, topic,
     redis, published, faults
<1>5. CASE CountWindows
  BY <1>5 DEF CountWindows, AddOverloadWindow, Goto, Message, topic, redis, published, faults
<1>6. CASE FindOutages
  BY <1>6 DEF FindOutages, NextOutage, GetInactiveMeters, Goto, Finish, Idle, Outage, topic,
     redis, published, faults
<1>7. CASE CheckActive
  BY <1>7 DEF CheckActive, Continue, NextOutage, Goto, Finish, Idle, Outage, topic, redis,
     published, faults
<1>8. CASE CheckDuplicate
  BY <1>8 DEF CheckDuplicate, Goto, Finish, Idle, topic, redis, published, faults
<1>9. CASE InsertAlert
  BY <1>9 DEF InsertAlert, Goto, NewAlert, topic, redis, published, faults
<1>10. CASE PublishAlert
  BY <1>10 DEF PublishAlert, PublishProcessedAlert, Goto, topic, redis, published, faults
<1>11. CASE MarkDuplicate
  BY <1>11 DEF MarkDuplicate, SetDeduplicationMarker, Goto, Finish, Idle, topic, redis,
     published, faults
<1>12. CASE Activate
  BY <1>12 DEF Activate, SetActiveAlert, Continue, NextOutage, Goto, Finish, Idle, Outage,
     topic, redis, published, faults
<1>13. CASE ConsumerFails
  BY <1>13 DEF ConsumerFails, Finish, CutShort, Idle, Eventful, topic, redis, published, faults
<1>14. CASE AutoResolve
  BY <1>14 DEF AutoResolve, AutoResolved, Eventful, Note, topic, redis, published, faults
<1>15. ASSUME NEW over \in BOOLEAN, NEW meters \in Reports, EmitAggregate(over, meters)
       PROVE  StampInv'
  <2>1. PICK e : log' = Append(log, e) /\ e = [type |-> "aggregate", over |-> over, meters |-> meters, at |-> now]
    BY <1>15 DEF EmitAggregate, Emit
  <2>2. e \in Aggregate \cup AnomalyMessage /\ e.at <= now
    BY <2>1, <1>a, MetersAssumption DEF Aggregate, Instant, TypeInv, LogOK
  <2>3. UNCHANGED <<now, pos, consumer>>
    BY <1>15 DEF EmitAggregate, Emit
  <2> QED BY <2>1, <2>2, <2>3, <1>a, Appended
<1>16. ASSUME NEW m \in Anomalous, EmitAnomaly(m) PROVE StampInv'
  <2>1. PICK e : log' = Append(log, e) /\ e = [type |-> "anomaly", meter |-> m]
    BY <1>16 DEF EmitAnomaly, Emit
  <2>2. e \in Aggregate \cup AnomalyMessage /\ e.type # "aggregate"
    BY <2>1, MetersAssumption DEF AnomalyMessage
  <2>3. UNCHANGED <<now, pos, consumer>>
    BY <1>16 DEF EmitAnomaly, Emit
  <2> QED BY <2>1, <2>2, <2>3, <1>a, Appended
<1>17. ASSUME NEW r \in Requests, UpdateAlert(r) PROVE StampInv'
  BY <1>17 DEF UpdateAlert, Updated, Status, topic, redis, published, faults
<1>18. ASSUME NEW r \in Requests, PublishUpdate(r) PROVE StampInv'
  BY <1>18 DEF PublishUpdate, PublishAlertStatusUpdate, After, Proceed, NoRequest, topic,
     redis, published, faults
<1>19. ASSUME NEW r \in Requests, ClearActive(r) PROVE StampInv'
  BY <1>19 DEF ClearActive, ClearActiveAlert, After, Proceed, NoRequest, topic, redis,
     published, faults
<1>20. ASSUME NEW r \in Requests, RequestFails(r) PROVE StampInv'
  BY <1>20 DEF RequestFails, NoRequest, Eventful, topic, redis, published, faults
<1>21. ASSUME NEW r \in Requests, NEW i \in request[r].todo, NextResolved(r, i) PROVE StampInv'
  BY <1>21 DEF NextResolved, topic, redis, published, faults
<1>22. ASSUME NEW r \in Requests, NEW i \in DOMAIN alerts, Acknowledge(r, i) PROVE StampInv'
  BY <1>22 DEF Acknowledge, AcknowledgeAlert, Begin, NoRequest, Eventful, Note, topic,
     redis, published, faults
<1>23. ASSUME NEW r \in Requests, NEW i \in DOMAIN alerts, Resolve(r, i) PROVE StampInv'
  BY <1>23 DEF Resolve, ResolveAlert, Begin, NoRequest, Eventful, Note, topic, redis,
     published, faults
<1>24. ASSUME NEW r \in Requests, NEW rows \in SUBSET DOMAIN alerts, BulkResolve(r, rows)
       PROVE  StampInv'
  BY <1>24 DEF BulkResolve, BulkResolved, Begin, NoRequest, Eventful, topic, redis,
     published, faults
<1> QED BY <1>0, <1>1, <1>2, <1>3, <1>4, <1>5, <1>6, <1>7, <1>8, <1>9, <1>10, <1>11, <1>12,
   <1>13, <1>14, <1>15, <1>16, <1>17, <1>18, <1>19, <1>20, <1>21, <1>22, <1>23,
   <1>24 DEF Next, ConsumerStep, RequestStep

(* Only a crash takes a message back, and only CountWindows counts. *)
NothingIsRecounted ==
  \/ CountWindows
  \/ /\ UNCHANGED <<windows, counted>>
     /\ crashes' = crashes + 1 \/ (crashes' = crashes /\ Counted <= Counted')

LEMMA CountedGrows ==
  ASSUME TypeInv, [Next]_vars PROVE NothingIsRecounted
<1> USE ThresholdsAssumption
<1>a. pos \in Nat /\ crashes \in Nat /\ consumer.stage \in Stage
  BY DEF TypeInv, LogOK, CountsOK, ConsumerOK
<1> USE <1>a DEF NothingIsRecounted, Counted
<1>0. CASE UNCHANGED vars
  BY <1>0 DEF vars, topic, redis, published, faults
<1>1. CASE Tick
  BY <1>1 DEF Tick, topic, redis, published, faults
<1>2. CASE Crash
  BY <1>2 DEF Crash, Rejoin, CutShort, Idle, NoRequest, Eventful, topic, redis, published, faults
<1>3. CASE Consume
  <2>1. CASE ProcessRegionalAggregate
    BY <1>3, <2>1 DEF Consume, ProcessRegionalAggregate, Goto, redis, faults
  <2>2. CASE ProcessAnomalyAlert
    BY <1>3, <2>2 DEF Consume, ProcessAnomalyAlert, Goto, redis, faults
  <2> QED BY <1>3, <2>1, <2>2 DEF Consume
<1>4. CASE ConsumeFails
  BY <1>4 DEF ConsumeFails, UpdateMeterLastSeen, Message, Finish, Idle, Eventful, topic,
     redis, published, faults
<1>5. CASE CountWindows
  BY <1>5 DEF CountWindows, AddOverloadWindow, Goto, Message, topic, redis, published, faults
<1>6. CASE FindOutages
  BY <1>6 DEF FindOutages, NextOutage, GetInactiveMeters, Goto, Finish, Idle, Outage, topic,
     redis, published, faults
<1>7. CASE CheckActive
  BY <1>7 DEF CheckActive, Continue, NextOutage, Goto, Finish, Idle, Outage, topic, redis,
     published, faults
<1>8. CASE CheckDuplicate
  BY <1>8 DEF CheckDuplicate, Goto, Finish, Idle, topic, redis, published, faults
<1>9. CASE InsertAlert
  BY <1>9 DEF InsertAlert, Goto, NewAlert, topic, redis, published, faults
<1>10. CASE PublishAlert
  BY <1>10 DEF PublishAlert, PublishProcessedAlert, Goto, topic, redis, published, faults
<1>11. CASE MarkDuplicate
  BY <1>11 DEF MarkDuplicate, SetDeduplicationMarker, Goto, Finish, Idle, topic, redis,
     published, faults
<1>12. CASE Activate
  BY <1>12 DEF Activate, SetActiveAlert, Continue, NextOutage, Goto, Finish, Idle, Outage,
     topic, redis, published, faults
<1>13. CASE ConsumerFails
  BY <1>13 DEF ConsumerFails, Finish, CutShort, Idle, Eventful, topic, redis, published, faults
<1>14. CASE AutoResolve
  BY <1>14 DEF AutoResolve, redis, faults, topic
<1>15. ASSUME NEW over \in BOOLEAN, NEW meters \in Reports, EmitAggregate(over, meters)
       PROVE  NothingIsRecounted
  BY <1>15 DEF EmitAggregate, Emit, topic, redis, published, faults
<1>16. ASSUME NEW m \in Anomalous, EmitAnomaly(m) PROVE NothingIsRecounted
  BY <1>16 DEF EmitAnomaly, Emit, topic, redis, published, faults
<1>17. ASSUME NEW r \in Requests, UpdateAlert(r) PROVE NothingIsRecounted
  BY <1>17 DEF UpdateAlert, Updated, Status, topic, redis, published, faults
<1>18. ASSUME NEW r \in Requests, PublishUpdate(r) PROVE NothingIsRecounted
  BY <1>18 DEF PublishUpdate, PublishAlertStatusUpdate, After, Proceed, NoRequest, topic,
     redis, published, faults
<1>19. ASSUME NEW r \in Requests, ClearActive(r) PROVE NothingIsRecounted
  BY <1>19 DEF ClearActive, ClearActiveAlert, After, Proceed, NoRequest, topic, redis,
     published, faults
<1>20. ASSUME NEW r \in Requests, RequestFails(r) PROVE NothingIsRecounted
  BY <1>20 DEF RequestFails, NoRequest, Eventful, topic, redis, published, faults
<1>21. ASSUME NEW r \in Requests, NEW i \in request[r].todo, NextResolved(r, i)
       PROVE  NothingIsRecounted
  BY <1>21 DEF NextResolved, topic, redis, published, faults
<1>22. ASSUME NEW r \in Requests, NEW i \in DOMAIN alerts, Acknowledge(r, i)
       PROVE  NothingIsRecounted
  BY <1>22 DEF Acknowledge, AcknowledgeAlert, Begin, NoRequest, Eventful, Note, topic,
     redis, published, faults
<1>23. ASSUME NEW r \in Requests, NEW i \in DOMAIN alerts, Resolve(r, i) PROVE NothingIsRecounted
  BY <1>23 DEF Resolve, ResolveAlert, Begin, NoRequest, Eventful, Note, topic, redis,
     published, faults
<1>24. ASSUME NEW r \in Requests, NEW rows \in SUBSET DOMAIN alerts, BulkResolve(r, rows)
       PROVE  NothingIsRecounted
  BY <1>24 DEF BulkResolve, BulkResolved, Begin, NoRequest, Eventful, topic, redis,
     published, faults
<1> QED BY <1>0, <1>1, <1>2, <1>3, <1>4, <1>5, <1>6, <1>7, <1>8, <1>9, <1>10, <1>11, <1>12,
   <1>13, <1>14, <1>15, <1>16, <1>17, <1>18, <1>19, <1>20, <1>21, <1>22, <1>23,
   <1>24 DEF Next, ConsumerStep, RequestStep

LEMMA CountedBounds ==
  ASSUME TypeInv
  PROVE  Counted \in 0 .. Len(log) /\ (consumer.stage = "overload" => Counted = pos)
BY DEF TypeInv, LogOK, ConsumerOK, Counted, Stage

CountedIsNat == Counted \in Nat

LEMMA CountedNat == TypeInv => CountedIsNat
BY CountedBounds DEF TypeInv, LogOK, CountedIsNat

LEMMA CountedNext == TypeInv /\ [Next]_vars => Counted' \in Nat
<1>1. TypeInv' => CountedIsNat'
  BY CountedNat, PTL
<1> QED BY <1>1, TypesStay DEF CountedIsNat

(* The message in hand is counted, for the first time in this process. *)
LEMMA CountsInHand ==
  ASSUME TypeInv, StampInv, CountingInv, CountWindows
  PROVE  /\ windows' = Append(windows, log[pos + 1].at) /\ UNCHANGED <<now, log, pos, crashes>>
         /\ counted' = counted \cup {<<pos + 1, crashes>>}
         /\ <<pos + 1, crashes>> \notin counted
         /\ pos + 1 \in 1 .. Len(log) /\ Counted = pos /\ Counted' = pos + 1
         /\ log[pos + 1].type = "aggregate" /\ log[pos + 1].over /\ log[pos + 1].at \in Instant
<1>1. /\ consumer.stage = "overload" /\ consumer'.stage \in {"active", "outages"}
      /\ windows' = Append(windows, log[pos + 1].at) /\ UNCHANGED <<now, log, pos, crashes>>
      /\ counted' = counted \cup {<<pos + 1, crashes>>}
  BY DEF CountWindows, AddOverloadWindow, Goto, Message, faults
<1>2. pos \in Nat /\ pos < Len(log) /\ Len(log) \in Nat /\ Counted = pos
  BY <1>1, CountedBounds DEF TypeInv, ConsumerOK, LogOK
<1>3. Counted' = pos + 1
  BY <1>1 DEF Counted
<1>4. <<pos + 1, crashes>> \notin counted
  BY <1>2 DEF CountingInv
<1>5. log[pos + 1].type = "aggregate" /\ log[pos + 1].over /\ log[pos + 1].at \in Instant
  <2>1. Message.type = "aggregate" /\ LogOK
    BY <1>1 DEF TypeInv, StampInv, Message
  <2> QED BY <1>1, <1>2, <2>1, Messages DEF StampInv, Message
<1> QED BY <1>1, <1>2, <1>3, <1>4, <1>5

LEMMA CountingsStay ==
  ASSUME TypeInv, StampInv, CountingInv, [Next]_vars PROVE CountingInv'
<1>1. crashes \in Nat /\ Len(log) \in Nat /\ Len(log') \in Nat /\ Counted \in Nat /\ crashes' \in Nat
  <2>1. TypeInv'
    BY TypesStay
  <2>2. Counted \in Nat
    BY CountedNat DEF CountedIsNat
  <2> QED BY <2>1, <2>2 DEF TypeInv, LogOK, CountsOK
<1>2. Len(log) <= Len(log') /\ \A k \in 1 .. Len(log) : log'[k] = log[k]
  BY LogGrows
<1>3. CASE CountWindows
  <2>1. /\ counted' = counted \cup {<<pos + 1, crashes>>}
        /\ pos + 1 \in 1 .. Len(log) /\ Counted = pos /\ Counted' = pos + 1
        /\ log[pos + 1].type = "aggregate" /\ log[pos + 1].over
        /\ UNCHANGED <<log, crashes>>
    BY <1>3, CountsInHand
  <2>2. CountedOK'
    BY <1>1, <2>1 DEF CountingInv, CountedOK
  <2>3. \A c \in counted' : log'[c[1]].type = "aggregate" /\ log'[c[1]].over
    BY <2>1 DEF CountingInv
  <2>4. \A c \in counted' : c[2] = crashes' => c[1] <= Counted'
    <3>1. \A c \in counted : c[1] \in Nat /\ (c[2] = crashes => c[1] <= pos)
      BY <2>1 DEF CountingInv, CountedOK
    <3> QED BY <1>1, <2>1, <3>1
  <2> QED BY <2>2, <2>3, <2>4 DEF CountingInv
<1>4. CASE /\ UNCHANGED <<windows, counted>>
           /\ crashes' = crashes + 1 \/ (crashes' = crashes /\ Counted <= Counted')
  <2>1. \A c \in counted : /\ c[1] \in 1 .. Len(log) /\ c[2] \in 0 .. crashes
                           /\ c \in (1 .. Len(log)) \X (0 .. crashes)
    BY DEF CountingInv, CountedOK
  <2>2. CountedOK'
    BY <1>1, <1>2, <1>4, <2>1 DEF CountedOK
  <2>3. \A c \in counted' : log'[c[1]].type = "aggregate" /\ log'[c[1]].over
    BY <1>2, <1>4, <2>1 DEF CountingInv
  <2>4. \A c \in counted' : c[2] = crashes' => c[1] <= Counted'
    <3> SUFFICES ASSUME NEW c \in counted, c[2] = crashes' PROVE c[1] <= Counted'
      BY <1>4
    <3>1. crashes' = crashes /\ Counted <= Counted'
      BY <1>1, <1>4, <2>1
    <3>2. Counted' \in Nat
      BY CountedNext
    <3> QED BY <1>1, <2>1, <3>1, <3>2 DEF CountingInv
  <2> QED BY <2>2, <2>3, <2>4 DEF CountingInv
<1> QED BY <1>3, <1>4, CountedGrows DEF NothingIsRecounted

LEMMA InitCounting == Init => StampInv /\ CountingInv
BY DEF Init, Idle, StampInv, CountingInv, CountedOK

(* The windows counted, beside the types. *)
LEMMA CountingsHold == Spec => [](TypeInv /\ StampInv /\ CountingInv)
BY InitTypes, InitCounting, TypesStay, StampsStay, CountingsStay, PTL DEF Spec

(* Every reachable state of the alert service is well typed: an offset is   *)
(* never behind what was committed, a request in progress points at a row,  *)
(* and the consumer is at work only while there is a message to handle.     *)
THEOREM AlertTypes == Spec => []TypeOK
<1>1. TypeInv /\ CountingInv => TypeOK
  BY TypeParts DEF TypeInv, CountingInv
<1> QED BY <1>1, CountingsHold, PTL

(* The window that is counted now is traced to the message in hand, and no  *)
(* step changes what the others are traced to.                              *)
LEMMA TracesStay ==
  ASSUME TypeInv, StampInv, CountingInv, TraceInv, [Next]_vars PROVE TraceInv'
<1>1. PICK f : Traces(f)
  BY DEF TraceInv
<1>2. \A k \in 1 .. Len(log) : log'[k] = log[k]
  BY LogGrows
<1>3. \A c \in counted : c[1] \in 1 .. Len(log)
  BY DEF CountingInv, CountedOK
<1>4. CASE UNCHANGED <<windows, counted>>
  <2>1. Traces(f)'
    BY <1>1, <1>2, <1>3, <1>4 DEF Traces
  <2> QED BY <2>1 DEF TraceInv
<1>5. CASE CountWindows
  <2> DEFINE n == Len(windows)
             new == <<pos + 1, crashes>>
             g == [k \in 1 .. n + 1 |-> IF k = n + 1 THEN new ELSE f[k]]
  <2>1. /\ windows' = Append(windows, log[pos + 1].at) /\ log' = log
        /\ counted' = counted \cup {new} /\ new \notin counted /\ new[1] = pos + 1
        /\ log[pos + 1].at \in Instant
    BY <1>5, CountsInHand
  <2>2. /\ n \in Nat /\ Len(windows') = n + 1 /\ windows'[n + 1] = log[pos + 1].at
        /\ \A k \in 1 .. n : windows'[k] = windows[k]
    BY <2>1, Appended DEF TypeInv, RedisOK
  <2> HIDE DEF n, new
  <2>3. /\ \A k \in 1 .. n : f[k] \in counted
        /\ \A k, l \in 1 .. n : f[k] = f[l] => k = l
        /\ \A k \in 1 .. n : log[f[k][1]].at = windows[k]
    BY <1>1 DEF Traces, n
  <2>4. \A k \in 1 .. n + 1 : k = n + 1 \/ k \in 1 .. n
    BY <2>2
  <2>5. g[n + 1] = new /\ \A k \in 1 .. n : g[k] = f[k] /\ k # n + 1
    BY <2>2
  <2>6. g \in [1 .. n + 1 -> counted']
    BY <2>1, <2>3, <2>4
  <2> HIDE DEF g
  <2>7. \A k, l \in 1 .. n + 1 : g[k] = g[l] => k = l
    <3>1. \A k \in 1 .. n : g[k] \in counted /\ g[k] # g[n + 1]
      BY <2>1, <2>3, <2>5
    <3>2. \A k, l \in 1 .. n : g[k] = g[l] => k = l
      BY <2>3, <2>5
    <3> QED BY <2>4, <3>1, <3>2
  <2>8. \A k \in 1 .. n + 1 : log'[g[k][1]].at = windows'[k]
    BY <2>1, <2>2, <2>3, <2>4, <2>5
  <2>9. \E e : /\ e \in [1 .. Len(windows') -> counted']
               /\ \A k, l \in 1 .. Len(windows') : e[k] = e[l] => k = l
               /\ \A k \in 1 .. Len(windows') : log'[e[k][1]].at = windows'[k]
    BY <2>2, <2>6, <2>7, <2>8
  <2> QED BY <2>9 DEF TraceInv, Traces
<1> QED BY <1>4, <1>5, CountedGrows DEF NothingIsRecounted

-----------------------------------------------------------------------------
(* Overloads, of any log and any windows added. *)
Since(n, l, cs) ==
  {c \in cs : l[c[1]].type = "aggregate" /\ l[c[1]].over /\ l[c[1]].at >= l[n].at - WindowSpan}

Warranted(n) == n \in 1 .. Len(log) /\ Cardinality(Since(n, log, counted)) >= MinWindows

(* An overload alert, or one about to be made, rests on enough aggregates.  *)
WarrantInv ==
  /\ consumer.stage \in {"active", "dedup", "insert"} /\ consumer.subject = Overload
       => Warranted(pos + 1)
  /\ \A i \in DOMAIN alerts : alerts[i].subject = Overload => Warranted(alerts[i].msg)

LEMMA CountedIsFinite ==
  ASSUME CountedOK, Len(log) \in Nat, crashes \in Nat
  PROVE  IsFiniteSet(counted)
<1>1. IsFiniteSet(1 .. Len(log)) /\ IsFiniteSet(0 .. crashes)
  BY FS_Interval
<1>2. IsFiniteSet((1 .. Len(log)) \X (0 .. crashes))
  BY <1>1, FS_Product
<1> QED BY <1>2, FS_Subset DEF CountedOK

FewCounted == IsFiniteSet(counted)

LEMMA CountingIsFinite == TypeInv /\ CountingInv => FewCounted
BY CountedIsFinite DEF TypeInv, LogOK, CountsOK, CountingInv, FewCounted

LEMMA NextCounted ==
  ASSUME TypeInv, StampInv, CountingInv, [Next]_vars PROVE IsFiniteSet(counted')
<1>1. TypeInv' /\ CountingInv' => FewCounted'
  BY CountingIsFinite, PTL
<1> QED BY <1>1, TypesStay, CountingsStay DEF FewCounted

(* What was warranted stays so: windows are only added. *)
LEMMA WarrantedStays ==
  ASSUME TypeInv, StampInv, CountingInv, [Next]_vars, NEW n, Warranted(n)
  PROVE  n \in 1 .. Len(log') /\ Cardinality(Since(n, log', counted')) >= MinWindows
<1> DEFINE A == Since(n, log, counted)
           B == Since(n, log', counted')
<1>1. n \in 1 .. Len(log) /\ Len(log) \in Nat /\ Len(log') \in Nat /\ Len(log) <= Len(log')
  <2>1. TypeInv'
    BY TypesStay
  <2> QED BY <2>1, LogGrows DEF Warranted, TypeInv, LogOK
<1>2. \A k \in 1 .. Len(log) : log'[k] = log[k]
  BY LogGrows
<1>3. counted \subseteq counted'
  BY CountedGrows, CountsInHand DEF NothingIsRecounted
<1>4. \A c \in counted : c[1] \in 1 .. Len(log)
  BY DEF CountingInv, CountedOK
<1>5. A \subseteq B
  BY <1>1, <1>2, <1>3, <1>4 DEF Since
<1>6. IsFiniteSet(B)
  <2>1. B \subseteq counted'
    BY DEF Since
  <2>2. IsFiniteSet(counted')
    BY NextCounted
  <2> HIDE DEF B
  <2> QED BY <2>1, <2>2, FS_Subset
<1> HIDE DEF A, B
<1>7. IsFiniteSet(A) /\ Cardinality(A) <= Cardinality(B)
  BY <1>5, <1>6, FS_Subset
<1>8. Cardinality(A) \in Nat /\ Cardinality(B) \in Nat /\ MinWindows \in Nat
  BY <1>6, <1>7, FS_CardinalityType, ThresholdsAssumption
<1>9. Cardinality(A) >= MinWindows
  BY DEF Warranted, A
<1> QED BY <1>1, <1>7, <1>8, <1>9 DEF B

(* The threshold is reached only by as many countings.                      *)
LEMMA CountIsWarranted ==
  ASSUME TypeInv, StampInv, CountingInv, TraceInv, CountWindows,
         GetOverloadWindowCount(windows') >= MinWindows
  PROVE  /\ pos + 1 \in 1 .. Len(log')
         /\ Cardinality(Since(pos + 1, log', counted')) >= MinWindows
<1> DEFINE R == Recent(windows')
           O == Since(pos + 1, log', counted')
<1>1. /\ CountingInv' /\ TraceInv'
      /\ RedisOK'
  BY CountingsStay, TracesStay, TypesStay DEF Next, ConsumerStep, TypeInv
<1>2. PICK g : Traces(g)'
  BY <1>1 DEF TraceInv
<1>3. /\ UNCHANGED <<now, log>> /\ pos + 1 \in 1 .. Len(log)
      /\ now \in Nat /\ WindowSpan \in Nat /\ MinWindows \in Nat
      /\ log[pos + 1].at \in Nat
  BY CountsInHand, ThresholdsAssumption DEF TypeInv, LogOK, Instant
<1>4. log[pos + 1].at <= now
  <2>1. consumer.stage = "overload" /\ log[pos + 1].type = "aggregate"
    BY CountsInHand DEF CountWindows
  <2> QED BY <1>3, <2>1 DEF StampInv
<1>5. windows' \in Seq(Instant) /\ \A k \in 1 .. Len(windows') : windows'[k] \in Nat
  <2>1. windows' \in Seq(Instant)
    BY <1>1 DEF RedisOK
  <2>2. \A k \in 1 .. Len(windows') : windows'[k] \in Instant
    BY <2>1
  <2> QED BY <2>1, <2>2 DEF Instant
<1>6. DOMAIN windows' = 1 .. Len(windows')
  BY <1>5
<1>7. \A k \in R : /\ k \in 1 .. Len(windows')
                   /\ windows'[k] >= now - WindowSpan
  BY <1>6 DEF Recent
<1>8. \A k \in R : g[k] \in O
  <2> SUFFICES ASSUME NEW k \in R PROVE g[k] \in O
    OBVIOUS
  <2>1. k \in 1 .. Len(windows') /\ windows'[k] >= now - WindowSpan /\ windows'[k] \in Nat
    BY <1>5, <1>7
  <2>2. g[k] \in counted' /\ log'[g[k][1]].at = windows'[k]
    BY <1>2, <2>1 DEF Traces
  <2>3. log'[g[k][1]].type = "aggregate" /\ log'[g[k][1]].over
    BY <1>1, <2>2 DEF CountingInv
  <2>4. log'[g[k][1]].at >= log'[pos + 1].at - WindowSpan
    BY <1>3, <1>4, <2>1, <2>2
  <2> QED BY <2>2, <2>3, <2>4 DEF Since
<1> DEFINE h == [k \in R |-> g[k]]
<1>9. h \in Injection(R, O)
  <2>0. \A k, l \in 1 .. Len(windows') : g[k] = g[l] => k = l
    BY <1>2 DEF Traces
  <2> HIDE DEF O, R
  <2>1. h \in [R -> O]
    BY <1>8
  <2>2. \A k, l \in R : h[k] = h[l] => k = l
    BY <1>7, <2>0
  <2> QED BY <2>1, <2>2 DEF Injection, IsInjective
<1>10. IsFiniteSet(O)
  <2>1. O \subseteq counted'
    BY DEF Since
  <2>2. IsFiniteSet(counted')
    BY NextCounted DEF Next, ConsumerStep
  <2> HIDE DEF O
  <2> QED BY <2>1, <2>2, FS_Subset
<1> HIDE DEF h
<1>11. Cardinality(R) <= Cardinality(O) /\ IsFiniteSet(R)
  <2> HIDE DEF O, R
  <2> QED BY <1>9, <1>10, FS_Injection, Zenon
<1>12. Cardinality(R) \in Nat /\ Cardinality(O) \in Nat
  <2> HIDE DEF O, R
  <2> QED BY <1>10, <1>11, FS_CardinalityType
<1>13. Cardinality(R) >= MinWindows
  BY DEF GetOverloadWindowCount
<1> HIDE DEF O, R
<1>14. Cardinality(O) >= MinWindows
  BY <1>3, <1>11, <1>12, <1>13
<1> QED BY <1>3, <1>14 DEF O

LEMMA WarrantsStay ==
  ASSUME TypeInv, StampInv, CountingInv, TraceInv, WarrantInv, [Next]_vars
  PROVE  WarrantInv'
<1> DEFINE W(n) == n \in 1 .. Len(log') /\ Cardinality(Since(n, log', counted')) >= MinWindows
           G == /\ consumer'.stage \in {"active", "dedup", "insert"} /\ consumer'.subject = Overload
                     => W(pos' + 1)
                /\ \A i \in DOMAIN alerts' : alerts'[i].subject = Overload => W(alerts'[i].msg)
<1>a. ASSUME NEW n, Warranted(n) PROVE W(n)
  BY <1>a, WarrantedStays
<1>b. SUFFICES G
  BY DEF WarrantInv, Warranted
<1> HIDE DEF W
<1>c. /\ crashes \in Nat /\ consumer.stage \in Stage /\ consumer.subject \in Subject
      /\ Len(alerts) \in Nat /\ DOMAIN alerts = 1 .. Len(alerts)
      /\ Overload.type = "REGIONAL_OVERLOAD" /\ \A m : Outage(m) # Overload /\ Anomaly(m) # Overload
  BY Stored, SubjectTypes DEF TypeInv, CountsOK, ConsumerOK
<1> USE <1>a, <1>c DEF WarrantInv
<1>0. CASE UNCHANGED vars
  BY <1>0 DEF vars, topic, redis, published, faults
<1>1. CASE Tick
  BY <1>1 DEF Tick, topic, redis, published, faults
<1>2. CASE Crash
  BY <1>2 DEF Crash, Idle
<1>3. CASE Consume
  <2>1. /\ UNCHANGED <<crashes, alerts>>
        /\ \/ consumer'.stage \notin {"active", "dedup", "insert"}
           \/ consumer'.subject # Overload
           \/ /\ consumer.stage \in {"active", "dedup", "insert"}
              /\ consumer'.subject = consumer.subject /\ pos' = pos
    BY <1>3 DEF Consume, ProcessRegionalAggregate, ProcessAnomalyAlert, Goto, Finish, Idle,
       NextOutage, Continue, faults
  <2> QED BY <2>1
<1>4. CASE ConsumeFails
  <2>1. /\ UNCHANGED <<crashes, alerts>>
        /\ \/ consumer'.stage \notin {"active", "dedup", "insert"}
           \/ consumer'.subject # Overload
           \/ /\ consumer.stage \in {"active", "dedup", "insert"}
              /\ consumer'.subject = consumer.subject /\ pos' = pos
    BY <1>4 DEF ConsumeFails, Goto, Finish, Idle, NextOutage, Continue, faults
  <2> QED BY <2>1
<1>5. CASE CountWindows
  <2>1. CASE GetOverloadWindowCount(windows') >= MinWindows
    <3>1. W(pos + 1)
      BY <1>5, <2>1, CountIsWarranted DEF W
    <3> QED BY <1>5, <2>1, <3>1 DEF CountWindows, Goto, faults
  <2>2. CASE ~ (GetOverloadWindowCount(windows') >= MinWindows)
    BY <1>5, <2>2 DEF CountWindows, Goto, faults
  <2> QED BY <2>1, <2>2
<1>6. CASE FindOutages
  <2>1. /\ UNCHANGED <<crashes, alerts>>
        /\ \/ consumer'.stage \notin {"active", "dedup", "insert"}
           \/ consumer'.subject # Overload
           \/ /\ consumer.stage \in {"active", "dedup", "insert"}
              /\ consumer'.subject = consumer.subject /\ pos' = pos
    BY <1>6 DEF FindOutages, Goto, Finish, Idle, NextOutage, Continue, faults
  <2> QED BY <2>1
<1>7. CASE CheckActive
  <2>1. /\ UNCHANGED <<crashes, alerts>>
        /\ \/ consumer'.stage \notin {"active", "dedup", "insert"}
           \/ consumer'.subject # Overload
           \/ /\ consumer.stage \in {"active", "dedup", "insert"}
              /\ consumer'.subject = consumer.subject /\ pos' = pos
    BY <1>7 DEF CheckActive, Goto, Finish, Idle, NextOutage, Continue, faults
  <2> QED BY <2>1
<1>8. CASE CheckDuplicate
  <2>1. /\ UNCHANGED <<crashes, alerts>>
        /\ \/ consumer'.stage \notin {"active", "dedup", "insert"}
           \/ consumer'.subject # Overload
           \/ /\ consumer.stage \in {"active", "dedup", "insert"}
              /\ consumer'.subject = consumer.subject /\ pos' = pos
    BY <1>8 DEF CheckDuplicate, Goto, Finish, Idle, NextOutage, Continue, faults
  <2> QED BY <2>1
<1>9. CASE InsertAlert
  <2> DEFINE n == Len(alerts) + 1
             new == NewAlert(consumer.subject)
  <2>1. new \in Row /\ new.subject = consumer.subject /\ new.msg = pos + 1
    BY <1>9 DEF NewAlert, Row, Note, TypeInv, ConsumerOK, LogOK
  <2>2. /\ alerts' = Append(alerts, new) /\ consumer.stage = "insert" /\ consumer'.stage = "publish"
        /\ UNCHANGED <<pos, crashes>>
    BY <1>9 DEF InsertAlert, Goto, faults
  <2> HIDE DEF new
  <2>3. /\ DOMAIN alerts' = 1 .. n
        /\ \A i \in 1 .. Len(alerts) : alerts'[i] = alerts[i]
        /\ alerts'[n].subject = consumer.subject /\ alerts'[n].msg = pos + 1
    BY <2>1, <2>2, Appended DEF TypeInv, TableOK
  <2>4. \A i \in DOMAIN alerts' : i = n \/ i \in DOMAIN alerts
    BY <2>3
  <2> QED BY <2>2, <2>3, <2>4
<1>10. CASE PublishAlert
  <2>1. /\ UNCHANGED <<crashes, alerts>>
        /\ \/ consumer'.stage \notin {"active", "dedup", "insert"}
           \/ consumer'.subject # Overload
           \/ /\ consumer.stage \in {"active", "dedup", "insert"}
              /\ consumer'.subject = consumer.subject /\ pos' = pos
    BY <1>10 DEF PublishAlert, Goto, Finish, Idle, NextOutage, Continue, faults
  <2> QED BY <2>1
<1>11. CASE MarkDuplicate
  <2>1. /\ UNCHANGED <<crashes, alerts>>
        /\ \/ consumer'.stage \notin {"active", "dedup", "insert"}
           \/ consumer'.subject # Overload
           \/ /\ consumer.stage \in {"active", "dedup", "insert"}
              /\ consumer'.subject = consumer.subject /\ pos' = pos
    BY <1>11 DEF MarkDuplicate, Goto, Finish, Idle, NextOutage, Continue, faults
  <2> QED BY <2>1
<1>12. CASE Activate
  <2>1. /\ UNCHANGED <<crashes, alerts>>
        /\ \/ consumer'.stage \notin {"active", "dedup", "insert"}
           \/ consumer'.subject # Overload
           \/ /\ consumer.stage \in {"active", "dedup", "insert"}
              /\ consumer'.subject = consumer.subject /\ pos' = pos
    BY <1>12 DEF Activate, Goto, Finish, Idle, NextOutage, Continue, faults
  <2> QED BY <2>1
<1>13. CASE ConsumerFails
  <2>1. /\ UNCHANGED <<crashes, alerts>>
        /\ \/ consumer'.stage \notin {"active", "dedup", "insert"}
           \/ consumer'.subject # Overload
           \/ /\ consumer.stage \in {"active", "dedup", "insert"}
              /\ consumer'.subject = consumer.subject /\ pos' = pos
    BY <1>13 DEF ConsumerFails, Goto, Finish, Idle, NextOutage, Continue, faults
  <2> QED BY <2>1
<1>14. CASE AutoResolve
  <2>1. SameRows
    BY <1>14, InPlace DEF TypeInv
  <2>2. UNCHANGED <<crashes, consumer, pos>>
    BY <1>14 DEF AutoResolve, topic, faults
  <2> QED BY <2>1, <2>2 DEF SameRows
<1>15. ASSUME NEW over \in BOOLEAN, NEW meters \in Reports, EmitAggregate(over, meters) PROVE G
  BY <1>15 DEF EmitAggregate, Emit, topic, redis, published, faults
<1>16. ASSUME NEW m \in Anomalous, EmitAnomaly(m) PROVE G
  BY <1>16 DEF EmitAnomaly, Emit, topic, redis, published, faults
<1>17. ASSUME NEW r \in Requests, UpdateAlert(r) PROVE G
  <2>1. SameRows
    BY <1>17, InPlace DEF TypeInv
  <2>2. UNCHANGED <<crashes, consumer, pos>>
    BY <1>17 DEF UpdateAlert, topic, faults
  <2> QED BY <2>1, <2>2 DEF SameRows
<1>18. ASSUME NEW r \in Requests, PublishUpdate(r) PROVE G
  BY <1>18 DEF PublishUpdate, PublishAlertStatusUpdate, After, Proceed, NoRequest, topic,
     redis, published, faults
<1>19. ASSUME NEW r \in Requests, ClearActive(r) PROVE G
  BY <1>19 DEF ClearActive, ClearActiveAlert, After, Proceed, NoRequest, topic, redis,
     published, faults
<1>20. ASSUME NEW r \in Requests, RequestFails(r) PROVE G
  BY <1>20 DEF RequestFails, NoRequest, Eventful, topic, redis, published, faults
<1>21. ASSUME NEW r \in Requests, NEW i \in request[r].todo, NextResolved(r, i) PROVE G
  BY <1>21 DEF NextResolved, topic, redis, published, faults
<1>22. ASSUME NEW r \in Requests, NEW i \in DOMAIN alerts, Acknowledge(r, i) PROVE G
  BY <1>22 DEF Acknowledge, AcknowledgeAlert, Begin, NoRequest, Eventful, Note, topic,
     redis, published, faults
<1>23. ASSUME NEW r \in Requests, NEW i \in DOMAIN alerts, Resolve(r, i) PROVE G
  BY <1>23 DEF Resolve, ResolveAlert, Begin, NoRequest, Eventful, Note, topic, redis,
     published, faults
<1>24. ASSUME NEW r \in Requests, NEW rows \in SUBSET DOMAIN alerts, BulkResolve(r, rows) PROVE G
  <2>1. SameRows
    BY <1>24, InPlace DEF TypeInv
  <2>2. UNCHANGED <<crashes, consumer, pos>>
    BY <1>24 DEF BulkResolve, Begin, topic, faults
  <2> QED BY <2>1, <2>2 DEF SameRows
<1> QED BY <1>0, <1>1, <1>2, <1>3, <1>4, <1>5, <1>6, <1>7, <1>8, <1>9, <1>10, <1>11, <1>12,
   <1>13, <1>14, <1>15, <1>16, <1>17, <1>18, <1>19, <1>20, <1>21, <1>22, <1>23,
   <1>24 DEF Next, ConsumerStep, RequestStep

LEMMA InitWarrant == Init => TraceInv /\ WarrantInv
<1> SUFFICES ASSUME Init PROVE TraceInv /\ WarrantInv
  OBVIOUS
<1>1. Len(log) = 0 /\ Len(windows) = 0 /\ DOMAIN alerts = {} /\ consumer.stage = "idle" /\ pos = 0
  BY DEF Init, Idle
<1>2. Traces([k \in {} |-> 0])
  BY <1>1 DEF Traces
<1>3. WarrantInv
  BY <1>1 DEF WarrantInv
<1> QED BY <1>2, <1>3 DEF TraceInv

(* Every overload alert rests on as many countings of overloaded aggregates *)
(* within the span as the threshold asks for, however late the messages are *)
(* taken, however often they come again and however long the list of        *)
(* windows has grown; no aggregate was counted twice without a crash.       *)
THEOREM OverloadsAreWarranted == Spec => []OverloadIsWarranted
<1>1. WarrantInv => OverloadIsWarranted
  BY DEF WarrantInv, OverloadIsWarranted, Warranted, Since, Overloads
<1> QED BY <1>1, InitWarrant, TracesStay, WarrantsStay, CountingsHold, PTL DEF Spec

-----------------------------------------------------------------------------
(* How the two markers of a subject go together: one that is about to be    *)
(* alerted has neither, and of the two the active marker ends last.         *)
InCreation == {"dedup", "insert", "publish", "mark", "activate"}

PairInv ==
  /\ \A s \in Subject : dedup[s] <= now + Ttl
  /\ \A s \in Subject : s.type = "ANOMALY" => active[s] = 0
  /\ \A s \in Subject : active[s] # 0 => active[s] >= dedup[s]
  /\ consumer.stage \in InCreation => active[consumer.subject] = 0
  /\ consumer.stage \in {"publish", "mark"} => dedup[consumer.subject] = 0
  /\ consumer.stage = "activate" =>
       Len(alerts) # 0 /\ alerts[Len(alerts)].subject = consumer.subject

LEMMA PairStays ==
  ASSUME TypeInv, SpacedInv, PairInv, [Next]_vars PROVE PairInv'
<1> USE ThresholdsAssumption
<1>a. /\ active \in [Subject -> Nat] /\ dedup \in [Subject -> Nat] /\ consumer.subject \in Subject
      /\ consumer.stage \in Stage /\ now \in Nat /\ Ttl \in Nat /\ Len(alerts) \in Nat
      /\ DOMAIN alerts = 1 .. Len(alerts)
  BY Stored, ThresholdsAssumption DEF TypeInv, RedisOK, ConsumerOK, LogOK, Instant
<1>b. \A i \in DOMAIN alerts : alerts[i].subject \in Subject
  BY Stored, RowFields DEF TypeInv
<1>c. /\ consumer.stage \in {"active", "activate"} => consumer.subject.type # "ANOMALY"
      /\ consumer.stage = "insert" => dedup[consumer.subject] = 0
  BY DEF TypeInv, HandlingOK, SpacedInv
<1> USE <1>a, <1>c DEF PairInv, InCreation
<1>0. CASE UNCHANGED vars
  BY <1>0 DEF vars, topic, redis, published, faults
<1>1. CASE Tick
  BY <1>1 DEF Tick, topic, redis, published, faults
<1>2. CASE Crash
  BY <1>2 DEF Crash, Rejoin, CutShort, Idle, NoRequest, Eventful, topic, redis, published, faults
<1>3. CASE Consume
  <2>1. CASE ProcessRegionalAggregate
    BY <1>3, <2>1 DEF Consume, ProcessRegionalAggregate, Goto
  <2>2. CASE ProcessAnomalyAlert
    <3>1. /\ consumer' = [stage |-> "dedup", subject |-> Anomaly(Message.meter), todo |-> {}]
          /\ Message.type = "anomaly" /\ pos < Len(log) /\ UNCHANGED <<now, active, dedup, alerts>>
      BY <1>3, <2>2 DEF Consume, ProcessAnomalyAlert, Goto
    <3>2. Anomaly(Message.meter) \in Subject /\ Anomaly(Message.meter).type = "ANOMALY"
      BY <3>1, Messages, Subjects, SubjectTypes DEF TypeInv
    <3> QED BY <3>1, <3>2
  <2> QED BY <1>3, <2>1, <2>2 DEF Consume
<1>4. CASE ConsumeFails
  BY <1>4 DEF ConsumeFails, UpdateMeterLastSeen, Message, Finish, Idle, Eventful, topic,
     redis, published, faults
<1>5. CASE CountWindows
  BY <1>5 DEF CountWindows, AddOverloadWindow, Goto, Message, topic, redis, published, faults
<1>6. CASE FindOutages
  BY <1>6 DEF FindOutages, NextOutage, GetInactiveMeters, Goto, Finish, Idle, Outage, topic,
     redis, published, faults
<1>7. CASE CheckActive
  BY <1>7 DEF CheckActive, HasActiveAlert, Continue, NextOutage, Goto, Finish, Idle, Outage,
     topic, redis, published, faults
<1>8. CASE CheckDuplicate
  BY <1>8 DEF CheckDuplicate, Goto, Finish, Idle, topic, redis, published, faults
<1>9. CASE InsertAlert
  BY <1>9 DEF InsertAlert, Goto, redis
<1>10. CASE PublishAlert
  BY <1>10 DEF PublishAlert, PublishProcessedAlert, Goto, topic, redis, published, faults
<1>11. CASE MarkDuplicate
  <2>1. /\ consumer.stage = "mark"
        /\ dedup' = [dedup EXCEPT ![consumer.subject] = now + Ttl]
        /\ consumer'.stage = "activate" => consumer'.subject = consumer.subject
        /\ consumer'.stage \in {"idle", "activate"}
        /\ UNCHANGED <<now, active, alerts>>
    BY <1>11 DEF MarkDuplicate, SetDeduplicationMarker, Goto, Finish, Idle
  <2>2. Len(alerts) # 0 /\ alerts[Len(alerts)].subject = consumer.subject
    BY <2>1 DEF TypeInv, RowInHand
  <2> QED BY <2>1, <2>2
<1>12. CASE Activate
  <2>1. /\ consumer.stage = "activate" /\ consumer'.stage \in {"idle", "active", "outages"}
        /\ active' = [active EXCEPT ![consumer.subject] = now + Ttl]
        /\ UNCHANGED <<now, dedup, alerts>>
    BY <1>12 DEF Activate, SetActiveAlert, Continue, NextOutage, Goto, Finish, Idle
  <2> QED BY <2>1
<1>13. CASE ConsumerFails
  BY <1>13 DEF ConsumerFails, Finish, CutShort, Idle, Eventful, topic, redis, published, faults
<1>14. CASE AutoResolve
  <2>1. SameRows
    BY <1>14, InPlace DEF TypeInv
  <2>2. UNCHANGED <<now, redis, consumer>>
    BY <1>14 DEF AutoResolve
  <2> QED BY <2>1, <2>2 DEF redis, SameRows
<1>15. ASSUME NEW over \in BOOLEAN, NEW meters \in Reports, EmitAggregate(over, meters)
       PROVE  PairInv'
  BY <1>15 DEF EmitAggregate, Emit, topic, redis, published, faults
<1>16. ASSUME NEW m \in Anomalous, EmitAnomaly(m) PROVE PairInv'
  BY <1>16 DEF EmitAnomaly, Emit, topic, redis, published, faults
<1>17. ASSUME NEW r \in Requests, UpdateAlert(r) PROVE PairInv'
  <2>1. SameRows
    BY <1>17, InPlace DEF TypeInv
  <2>2. UNCHANGED <<now, redis, consumer>>
    BY <1>17 DEF UpdateAlert
  <2> QED BY <2>1, <2>2 DEF redis, SameRows
<1>18. ASSUME NEW r \in Requests, PublishUpdate(r) PROVE PairInv'
  BY <1>18 DEF PublishUpdate, PublishAlertStatusUpdate, After, Proceed, NoRequest, topic,
     redis, published, faults
<1>19. ASSUME NEW r \in Requests, ClearActive(r) PROVE PairInv'
  <2>1. PICK s : /\ active' = [active EXCEPT ![s] = 0]
                 /\ UNCHANGED <<now, dedup, alerts, consumer>>
    BY <1>19 DEF ClearActive, ClearActiveAlert
  <2> QED BY <2>1
<1>20. ASSUME NEW r \in Requests, RequestFails(r) PROVE PairInv'
  BY <1>20 DEF RequestFails, NoRequest, Eventful, topic, redis, published, faults
<1>21. ASSUME NEW r \in Requests, NEW i \in request[r].todo, NextResolved(r, i) PROVE PairInv'
  BY <1>21 DEF NextResolved, topic, redis, published, faults
<1>22. ASSUME NEW r \in Requests, NEW i \in DOMAIN alerts, Acknowledge(r, i) PROVE PairInv'
  BY <1>22 DEF Acknowledge, AcknowledgeAlert, Begin, NoRequest, Eventful, Note, topic,
     redis, published, faults
<1>23. ASSUME NEW r \in Requests, NEW i \in DOMAIN alerts, Resolve(r, i) PROVE PairInv'
  BY <1>23 DEF Resolve, ResolveAlert, Begin, NoRequest, Eventful, Note, topic, redis,
     published, faults
<1>24. ASSUME NEW r \in Requests, NEW rows \in SUBSET DOMAIN alerts, BulkResolve(r, rows)
       PROVE  PairInv'
  <2>1. SameRows
    BY <1>24, InPlace DEF TypeInv
  <2>2. UNCHANGED <<now, redis, consumer>>
    BY <1>24 DEF BulkResolve, Begin
  <2> QED BY <2>1, <2>2 DEF redis, SameRows
<1> QED BY <1>0, <1>1, <1>2, <1>3, <1>4, <1>5, <1>6, <1>7, <1>8, <1>9, <1>10, <1>11, <1>12,
   <1>13, <1>14, <1>15, <1>16, <1>17, <1>18, <1>19, <1>20, <1>21, <1>22, <1>23,
   <1>24 DEF Next, ConsumerStep, RequestStep

LEMMA InitPair == Init => PairInv
<1>1. Init => /\ now = 0 /\ consumer.stage = "idle"
              /\ \A s \in Subject : active[s] = 0 /\ dedup[s] = 0
  BY DEF Init, Idle
<1> QED BY <1>1, ThresholdsAssumption DEF PairInv, InCreation

(* What AlertLog sees of a step that sets no marker and does not end the    *)
(* creation of an alert.                                                    *)
LEMMA SilenceKept ==
  ASSUME UNCHANGED <<active, dedup>>,
         UNCHANGED consumer \/ (consumer.stage # "activate" /\ consumer'.stage # "activate")
  PROVE  UNCHANGED <<Silenced, Barred>>
<1>1. Silenced' = Silenced
  BY DEF Silenced, HasActiveAlert, CheckDeduplicationMarker
<1>2. Barred' = Barred
  BY DEF Barred, HasActiveAlert, CheckDeduplicationMarker
<1> QED BY <1>1, <1>2

(* Time takes markers away, the active one last.                            *)
LEMMA TickPasses == ASSUME TypeInv, PairInv, Tick PROVE Log!Pass
<1>1. /\ now' = now + 1 /\ UNCHANGED <<alerts, processed, updates, consumer, interrupted>>
      /\ \A s \in Subject : active'[s] = IF active[s] > now' THEN active[s] ELSE 0
      /\ \A s \in Subject : dedup'[s] = IF dedup[s] > now' THEN dedup[s] ELSE 0
  BY DEF Tick, published
<1>2. /\ now' \in Nat
      /\ \A s \in Subject : active[s] \in Nat /\ dedup[s] \in Nat
      /\ \A s \in Subject : active[s] # 0 => active[s] >= dedup[s]
  BY <1>1 DEF TypeInv, LogOK, RedisOK, Instant, PairInv
<1>3. ASSUME NEW s \in Subject
      PROVE  /\ active'[s] # 0 => active[s] # 0
             /\ dedup'[s] # 0 => dedup[s] # 0
             /\ dedup'[s] # 0 /\ active'[s] = 0 => active[s] = 0
  BY <1>1, <1>2
<1>4. Silenced' \subseteq Silenced
  BY <1>3 DEF Silenced, HasActiveAlert, CheckDeduplicationMarker
<1>5. Barred' \subseteq Barred
  BY <1>1, <1>3 DEF Barred, HasActiveAlert, CheckDeduplicationMarker
<1> QED BY <1>1, <1>4, <1>5 DEF Log!Pass

(* A new alert is of a subject that has no marker, and every earlier one of *)
(* the subject was cut short or is long ago.                                *)
LEMMA InsertRaises ==
  ASSUME TypeInv, SpacedInv, PairInv, InsertAlert PROVE Log!Raise
<1> DEFINE new == NewAlert(consumer.subject)
<1>1. /\ consumer.stage = "insert" /\ consumer'.stage = "publish" /\ consumer.subject \in Subject
      /\ alerts' = Append(alerts, new)
      /\ UNCHANGED <<now, active, dedup, processed, updates, interrupted>>
  BY DEF InsertAlert, Goto, redis, published, TypeInv, ConsumerOK
<1>2. /\ new \in Row /\ new.subject = consumer.subject /\ new.created = now
      /\ new.acknowledged = FALSE /\ new.resolved = FALSE
  BY <1>1 DEF NewAlert, Row, Note, TypeInv, ConsumerOK, LogOK
<1> HIDE DEF new
<1>3. /\ Len(alerts) \in Nat /\ Len(alerts') = Len(alerts) + 1
      /\ alerts'[Len(alerts) + 1] = new
  BY <1>1, <1>2, Appended DEF TypeInv, TableOK
<1>4. active[consumer.subject] = 0 /\ dedup[consumer.subject] = 0
  BY <1>1 DEF PairInv, InCreation, SpacedInv
<1>5. consumer.subject \notin Silenced
  BY <1>4 DEF Silenced, HasActiveAlert, CheckDeduplicationMarker
<1>6. \A i \in DOMAIN alerts \ interrupted :
        alerts[i].subject = consumer.subject => now >= alerts[i].created + Ttl
  <2> SUFFICES ASSUME NEW i \in DOMAIN alerts \ interrupted, alerts[i].subject = consumer.subject
               PROVE  now >= alerts[i].created + Ttl
    OBVIOUS
  <2>1. alerts[i].created \in Nat
    BY Stored, RowFields DEF TypeInv, Instant
  <2> QED BY <1>1, <1>4, <2>1, ThresholdsAssumption DEF SpacedInv
<1>7. UNCHANGED <<Silenced, Barred>>
  BY <1>1, SilenceKept
<1>8. LET last == alerts'[Len(alerts) + 1]
      IN /\ Len(alerts') > Len(alerts) /\ alerts' = Append(alerts, last)
         /\ last.created = now /\ last.subject \notin Silenced
         /\ \A i \in DOMAIN alerts \ interrupted :
              alerts[i].subject = last.subject => now >= alerts[i].created + Ttl
  BY <1>1, <1>2, <1>3, <1>5, <1>6
<1>9. ~alerts'[Len(alerts) + 1].acknowledged /\ ~alerts'[Len(alerts) + 1].resolved
  BY <1>2, <1>3
<1>10. UNCHANGED <<now, processed, updates, interrupted>>
  BY <1>1
<1> QED BY <1>7, <1>8, <1>9, <1>10, Zenon DEF Log!Raise

LEMMA PublicationPublishes ==
  ASSUME TypeInv, PublishAlert PROVE Log!Publish
<1>1. /\ consumer.stage = "publish" /\ consumer'.stage = "mark"
      /\ processed' = processed \cup {Len(alerts)}
      /\ UNCHANGED <<now, active, dedup, alerts, updates, interrupted>>
  BY DEF PublishAlert, PublishProcessedAlert, Goto, redis
<1>2. Len(alerts) \in DOMAIN alerts
  BY <1>1, Stored DEF TypeInv, RowInHand
<1>3. UNCHANGED <<Silenced, Barred>>
  BY <1>1, SilenceKept
<1> QED BY <1>1, <1>2, <1>3 DEF Log!Publish

(* Each marker is set of a subject whose alert is published.  Between the   *)
(* two the subject is not barred.                                           *)
LEMMA MarksSilence ==
  ASSUME TypeInv, MarkersInv, PairInv, MarkDuplicate \/ Activate PROVE Log!Silence
<1> DEFINE s == consumer.subject
<1>1. /\ s \in Subject /\ now \in Nat /\ Ttl \in Nat \ {0} /\ now + Ttl # 0
      /\ active \in [Subject -> Nat] /\ dedup \in [Subject -> Nat]
  BY ThresholdsAssumption DEF TypeInv, ConsumerOK, RedisOK, LogOK, Instant
<1>2. UNCHANGED <<now, alerts, processed, updates, interrupted>>
  BY DEF MarkDuplicate, Activate, published
<1>3. PICK i \in processed : alerts[i].subject = s
  <2>1. CASE consumer.stage = "mark"
    BY <2>1 DEF MarkersInv, TypeInv, RowInHand
  <2>2. CASE consumer.stage = "activate"
    BY <2>2 DEF MarkersInv, Announced
  <2> QED BY <2>1, <2>2 DEF MarkDuplicate, Activate
<1>4. Silenced' = Silenced \cup {s} /\ Barred' = Barred
  <2>1. CASE MarkDuplicate
    <3>1. /\ consumer.stage = "mark" /\ UNCHANGED active
          /\ dedup' = [dedup EXCEPT ![s] = now + Ttl]
          /\ \/ s.type = "ANOMALY" /\ consumer'.stage = "idle"
             \/ consumer'.stage = "activate" /\ consumer'.subject = s
      BY <2>1 DEF MarkDuplicate, SetDeduplicationMarker, Goto, Finish, Idle
    <3>2. dedup[s] = 0
      BY <3>1 DEF PairInv
    <3> HIDE DEF s
    <3>3. Silenced' = Silenced \cup {s}
      BY <1>1, <3>1 DEF Silenced, HasActiveAlert, CheckDeduplicationMarker
    <3>4. Barred' = Barred
      BY <1>1, <3>1, <3>2 DEF Barred, HasActiveAlert, CheckDeduplicationMarker
    <3> QED BY <3>3, <3>4
  <2>2. CASE Activate
    <3>1. /\ consumer.stage = "activate" /\ UNCHANGED dedup
          /\ active' = [active EXCEPT ![s] = now + Ttl]
          /\ consumer'.stage # "activate"
      BY <2>2 DEF Activate, SetActiveAlert, Continue, NextOutage, Goto, Finish, Idle
    <3>2. Silenced' = Silenced \cup {s}
      BY <1>1, <3>1 DEF Silenced, HasActiveAlert, CheckDeduplicationMarker
    <3>3. Barred' = Barred
      BY <1>1, <3>1 DEF Barred, HasActiveAlert, CheckDeduplicationMarker
    <3> QED BY <3>2, <3>3
  <2> QED BY <2>1, <2>2
<1> QED BY <1>2, <1>3, <1>4 DEF Log!Silence

LEMMA ChangesAdvance ==
  ASSUME TypeInv, TruthInv, [Next]_vars,
         \/ AutoResolve
         \/ \E r \in Requests : UpdateAlert(r)
         \/ \E r \in Requests, rows \in SUBSET DOMAIN alerts : BulkResolve(r, rows)
  PROVE  Log!Advance
<1>1. SameRows
  BY InPlace DEF TypeInv
<1>2. Advances
  BY RowsAdvance
<1>3. UNCHANGED <<now, active, dedup, processed, updates, consumer, interrupted>>
  <2>1. CASE AutoResolve
    BY <2>1 DEF AutoResolve, redis, published
  <2>2. CASE \E r \in Requests : UpdateAlert(r)
    BY <2>2 DEF UpdateAlert, redis, published
  <2>3. CASE \E r \in Requests, rows \in SUBSET DOMAIN alerts : BulkResolve(r, rows)
    <3>1. PICK r \in Requests, rows \in SUBSET DOMAIN alerts : BulkResolve(r, rows)
      BY <2>3
    <3>2. UNCHANGED <<now, redis, published, consumer, interrupted>>
      BY <3>1, Zenon DEF BulkResolve, Begin
    <3> QED BY <3>2 DEF redis, published
  <2> QED BY <2>1, <2>2, <2>3
<1>4. UNCHANGED <<Silenced, Barred>>
  BY <1>3, SilenceKept
<1> QED BY <1>1, <1>2, <1>3, <1>4, Zenon DEF Log!Advance, SameRows, Advances

LEMMA UpdateAnnounces ==
  ASSUME TypeInv, TruthInv, NEW r \in Requests, PublishUpdate(r) PROVE Log!Announce
<1> DEFINE u == <<request[r].row, request[r].status>>
<1>1. /\ request[r].stage = "publish" /\ updates' = updates \cup {u}
      /\ UNCHANGED <<now, active, dedup, alerts, processed, consumer, interrupted>>
  BY DEF PublishUpdate, PublishAlertStatusUpdate, redis
<1>2. Truth(alerts, u[1], u[2])
  BY <1>1 DEF TruthInv, Honest
<1>3. u[1] \in DOMAIN alerts
  BY <1>1, Stored DEF TypeInv, RequestOK, RequestRecord
<1> HIDE DEF u
<1>4. updates \subseteq updates' /\ \A t \in updates' \ updates : t = u
  BY <1>1
<1>5. \A t \in updates' \ updates : t[1] \in DOMAIN alerts /\ Log!IsTrue(t[1], t[2])
  BY <1>2, <1>3, <1>4, Zenon DEF Truth, Log!IsTrue
<1>6. UNCHANGED <<Silenced, Barred>>
  BY <1>1, SilenceKept
<1> QED BY <1>1, <1>4, <1>5, <1>6 DEF Log!Announce

(* The active marker is cleared by a request that has acknowledged or       *)
(* resolved a row of the subject, and the other marker may be left.         *)
LEMMA ClearReleases ==
  ASSUME TypeInv, TruthInv, NEW r \in Requests, ClearActive(r) PROVE Log!Release
<1> DEFINE i == request[r].row
           s == alerts[i].subject
<1>1. /\ request[r].stage = "clear" /\ active' = [active EXCEPT ![s] = 0]
      /\ UNCHANGED <<now, dedup, alerts, processed, updates, consumer, interrupted>>
  BY DEF ClearActive, ClearActiveAlert, published
<1>2. i \in DOMAIN alerts
  BY <1>1, Stored DEF TypeInv, RequestOK, RequestRecord
<1>3. Log!DealtWith(i)
  BY <1>1, Zenon DEF TruthInv, Honest, Truth, Log!DealtWith
<1>4. s \in Subject /\ active \in [Subject -> Nat]
  BY <1>2, Stored, RowFields DEF TypeInv, RedisOK
<1> HIDE DEF s
<1>5. Silenced' = IF dedup[s] = 0 THEN Silenced \ {s} ELSE Silenced
  BY <1>1, <1>4 DEF Silenced, HasActiveAlert, CheckDeduplicationMarker
<1>6. Barred' = IF s.type # "ANOMALY" /\ dedup[s] # 0
                   /\ ~(consumer.stage = "activate" /\ consumer.subject = s)
                THEN Barred \cup {s} ELSE Barred
  BY <1>1, <1>4 DEF Barred, HasActiveAlert, CheckDeduplicationMarker
<1>7. Silenced' \in {Silenced, Silenced \ {s}} /\ Barred' \in {Barred, Barred \cup {s}}
  BY <1>5, <1>6
<1> QED BY <1>1, <1>2, <1>3, <1>7, Zenon DEF Log!Release, s

(* The consumer stops, its call or its process having failed.               *)
LEMMA StopFails ==
  ASSUME TypeInv, PairInv, CutShort, consumer' = Idle,
         UNCHANGED <<now, active, dedup, alerts, processed, updates>>
  PROVE  [Log!Next]_(Log!log_vars)
<1>0. /\ Len(alerts) \in Nat /\ consumer'.stage = "idle" /\ consumer.subject \in Subject
      /\ alerts = <<>> => Len(alerts) = 0
  BY Stored DEF Idle, TypeInv, ConsumerOK
<1>1. CASE consumer.stage \in {"publish", "mark"}
  <2>1. Len(alerts) # 0 /\ alerts[Len(alerts)].subject = consumer.subject
    BY <1>1 DEF TypeInv, RowInHand
  <2>2. consumer.subject \notin Silenced
    BY <1>1 DEF PairInv, InCreation, Silenced, HasActiveAlert, CheckDeduplicationMarker
  <2>3. interrupted' = interrupted \cup {Len(alerts)} /\ UNCHANGED <<Silenced, Barred>>
    BY <1>0, <1>1, SilenceKept DEF CutShort
  <2> QED BY <1>0, <2>1, <2>2, <2>3 DEF Log!Fail, Log!Next
<1>2. CASE consumer.stage = "activate"
  <2> DEFINE s == consumer.subject
  <2>1. Len(alerts) # 0 /\ alerts[Len(alerts)].subject = s /\ active[s] = 0
    BY <1>2 DEF PairInv, InCreation
  <2>2. s.type # "ANOMALY"
    BY <1>2 DEF TypeInv, HandlingOK
  <2>3. interrupted' = interrupted
    BY <1>2 DEF CutShort
  <2> HIDE DEF s
  <2>4. Silenced' = Silenced
    BY DEF Silenced, HasActiveAlert, CheckDeduplicationMarker
  <2>5. CASE dedup[s] = 0
    <3>1. Barred' = Barred
      BY <1>0, <1>2, <2>5 DEF Barred, HasActiveAlert, CheckDeduplicationMarker, s
    <3> QED BY <2>3, <2>4, <3>1 DEF Log!log_vars
  <2>6. CASE dedup[s] # 0
    <3>1. Barred' = Barred \cup {s}
      BY <1>0, <1>2, <2>1, <2>2, <2>6 DEF Barred, HasActiveAlert, CheckDeduplicationMarker, s
    <3>2. s \in Silenced
      BY <1>0, <2>6 DEF Silenced, CheckDeduplicationMarker, s
    <3> QED BY <1>0, <2>1, <2>3, <2>4, <3>1, <3>2 DEF Log!Fail, Log!Next
  <2> QED BY <2>5, <2>6
<1>3. CASE consumer.stage \notin {"publish", "mark", "activate"}
  <2>1. interrupted' = interrupted /\ UNCHANGED <<Silenced, Barred>>
    BY <1>0, <1>3, SilenceKept DEF CutShort
  <2> QED BY <2>1 DEF Log!log_vars
<1> QED BY <1>1, <1>2, <1>3

LEMMA LogStep ==
  ASSUME TypeInv, MarkersInv, SpacedInv, TruthInv, PairInv, [Next]_vars
  PROVE  [Log!Next]_(Log!log_vars)
<1> DEFINE Unseen == UNCHANGED <<now, alerts, processed, updates, interrupted>>
           Stutter == Unseen /\ UNCHANGED <<active, dedup, consumer>>
           Onward == /\ Unseen /\ UNCHANGED <<active, dedup>>
                     /\ consumer.stage # "activate" /\ consumer'.stage # "activate"
<1>a. Stutter \/ Onward => [Log!Next]_(Log!log_vars)
  BY SilenceKept DEF Log!log_vars
<1>0. CASE UNCHANGED vars
  <2>1. Stutter
    BY <1>0 DEF vars, redis, published
  <2> QED BY <1>a, <2>1
<1>1. CASE Tick
  BY <1>1, TickPasses DEF Log!Next
<1>2. CASE Crash
  <2>1. CutShort /\ consumer' = Idle /\ UNCHANGED <<now, active, dedup, alerts, processed, updates>>
    BY <1>2 DEF Crash, redis, published
  <2> QED BY <2>1, StopFails
<1>3. CASE ConsumerFails
  <2>1. CutShort /\ consumer' = Idle /\ UNCHANGED <<now, active, dedup, alerts, processed, updates>>
    BY <1>3 DEF ConsumerFails, Finish, redis, published
  <2> QED BY <2>1, StopFails
<1>4. CASE Consume \/ ConsumeFails \/ CountWindows
  <2>1. consumer.stage \in {"idle", "overload"} /\ UNCHANGED <<now, alerts, processed, updates, interrupted, active, dedup>>
    BY <1>4 DEF Consume, ConsumeFails, CountWindows, redis, published
  <2>2. consumer'.stage # "activate"
    BY <1>4 DEF Consume, ProcessRegionalAggregate, ProcessAnomalyAlert, ConsumeFails,
       CountWindows, Goto, Finish, Idle
  <2>3. Onward
    BY <2>1, <2>2
  <2> QED BY <1>a, <2>3
<1>5. CASE FindOutages \/ CheckActive \/ CheckDuplicate
  <2>1. consumer.stage \in {"outages", "active", "dedup"} /\ UNCHANGED <<now, alerts, processed, updates, interrupted, active, dedup>>
    BY <1>5 DEF FindOutages, CheckActive, CheckDuplicate, redis, published
  <2>2. consumer'.stage # "activate"
    BY <1>5 DEF FindOutages, CheckActive, CheckDuplicate, Continue, NextOutage, Goto, Finish, Idle
  <2>3. Onward
    BY <2>1, <2>2
  <2> QED BY <1>a, <2>3
<1>6. CASE InsertAlert
  BY <1>6, InsertRaises DEF Log!Next
<1>7. CASE PublishAlert
  BY <1>7, PublicationPublishes DEF Log!Next
<1>8. CASE MarkDuplicate \/ Activate
  BY <1>8, MarksSilence DEF Log!Next
<1>9. CASE AutoResolve
  BY <1>9, ChangesAdvance DEF Log!Next
<1>10. ASSUME NEW over \in BOOLEAN, NEW meters \in Reports, EmitAggregate(over, meters)
       PROVE  [Log!Next]_(Log!log_vars)
  <2>1. Stutter
    BY <1>10 DEF EmitAggregate, Emit, redis, published
  <2> QED BY <1>a, <2>1
<1>11. ASSUME NEW m \in Anomalous, EmitAnomaly(m) PROVE [Log!Next]_(Log!log_vars)
  <2>1. Stutter
    BY <1>11 DEF EmitAnomaly, Emit, redis, published
  <2> QED BY <1>a, <2>1
<1>12. ASSUME NEW r \in Requests, UpdateAlert(r) PROVE [Log!Next]_(Log!log_vars)
  BY <1>12, ChangesAdvance DEF Log!Next
<1>13. ASSUME NEW r \in Requests, PublishUpdate(r) PROVE [Log!Next]_(Log!log_vars)
  BY <1>13, UpdateAnnounces DEF Log!Next
<1>14. ASSUME NEW r \in Requests, ClearActive(r) PROVE [Log!Next]_(Log!log_vars)
  BY <1>14, ClearReleases DEF Log!Next
<1>15. ASSUME NEW r \in Requests, RequestFails(r) PROVE [Log!Next]_(Log!log_vars)
  <2>1. Stutter
    BY <1>15 DEF RequestFails, redis, published
  <2> QED BY <1>a, <2>1
<1>15b. ASSUME NEW r \in Requests, NEW i \in request[r].todo, NextResolved(r, i)
       PROVE  [Log!Next]_(Log!log_vars)
  <2>1. Stutter
    BY <1>15b DEF NextResolved, redis, published
  <2> QED BY <1>a, <2>1
<1>16. ASSUME NEW r \in Requests, NEW i \in DOMAIN alerts, Acknowledge(r, i) \/ Resolve(r, i)
       PROVE  [Log!Next]_(Log!log_vars)
  <2>1. Stutter
    BY <1>16 DEF Acknowledge, Resolve, Begin, redis, published
  <2> QED BY <1>a, <2>1
<1>17. ASSUME NEW r \in Requests, NEW rows \in SUBSET DOMAIN alerts, BulkResolve(r, rows)
       PROVE  [Log!Next]_(Log!log_vars)
  BY <1>17, ChangesAdvance DEF Log!Next
<1> HIDE DEF Stutter, Onward
<1> QED BY <1>0, <1>1, <1>2, <1>3, <1>4, <1>5, <1>6, <1>7, <1>8, <1>9, <1>10, <1>11, <1>12,
   <1>13, <1>14, <1>15, <1>15b, <1>16, <1>17 DEF Next, ConsumerStep, RequestStep

LEMMA InitLog == Init => Log!Init
<1> SUFFICES ASSUME Init PROVE Log!Init
  OBVIOUS
<1>1. \A s \in Subject : active[s] = 0 /\ dedup[s] = 0
  BY DEF Init
<1>2. Silenced = {} /\ Barred = {}
  BY <1>1 DEF Silenced, Barred, HasActiveAlert, CheckDeduplicationMarker
<1> QED BY <1>2 DEF Init, Log!Init

(* The alert service implements AlertLog: a silent subject is not alerted,  *)
(* nor one that was alerted within the time to live, rows are never taken   *)
(* back, nothing untrue is announced, nothing silences a subject but a      *)
(* published row, and the check of a subject throws only when an operator   *)
(* has dealt with an alert of it or the consumer has failed over one.       *)
THEOREM LogImplemented == Spec => ImplementsLog
<1> DEFINE LogInv == TypeInv /\ MarkersInv /\ SpacedInv /\ TruthInv /\ PairInv
<1>1. Init => LogInv
  BY InitTypes, InitMarkers, InitSpaced, InitTruth, InitPair
<1>2. LogInv /\ [Next]_vars => LogInv'
  BY TypesStay, MarkersStay, SpacedStays, TruthStays, PairStays
<1>3. LogInv /\ [Next]_vars => [Log!Next]_(Log!log_vars)
  BY LogStep
<1> HIDE DEF LogInv
<1> QED BY <1>1, <1>2, <1>3, InitLog, PTL DEF Spec, ImplementsLog, Log!Spec

=============================================================================
