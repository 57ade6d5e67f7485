---------------------------- MODULE AlertService ----------------------------
(***************************************************************************)
(* The alert service (apps/alert) for one region.  The Kafka consumer takes *)
(* one message at a time from aggregates_1m_regional and alerts; operators' *)
(* requests acknowledge and resolve meanwhile.  What the service knows is   *)
(* in Redis (last-seen times, overload windows, and two markers per subject *)
(* with a time to live) and in the alerts table of PostgreSQL; the process  *)
(* itself keeps nothing, and there is an await at every access.             *)
(*                                                                         *)
(* A marker is the instant at which its key expires, 0 when there is none;  *)
(* a definition Mut_X is a mutated form of the definition it precedes.      *)
(***************************************************************************)
EXTENDS Integers, FiniteSets, Sequences

CONSTANTS
  Meters,        \* the meters of the region
  NoMeter,       \* the meter_id of an alert about the region
  Reports,       \* the sets of meters an aggregate may be made from
  Anomalous,     \* the meters anomalies are reported of
  Requests,      \* operators' requests that may be in progress together
  MinWindows,    \* config.alertThresholds.overloadConsecutiveWindows
  WindowSpan,    \* the 5 minutes in which overload windows are counted
  OutageAfter,   \* config.alertThresholds.meterOutageSeconds
  Ttl,           \* time to live of both markers
  AutoAge,       \* the age at which autoResolveOldAlerts resolves an alert
  MaxTime,       \* bound: the last instant of the clock
  TopicSize,     \* bound: messages in the topics
  MaxEvents      \* bound: requests, failed calls and crashes together

ASSUME MetersAssumption ==
  /\ NoMeter \notin Meters
  /\ Reports \subseteq (SUBSET Meters) \ {{}} /\ Anomalous \subseteq Meters
ASSUME ThresholdsAssumption ==
  /\ MinWindows \in Nat \ {0} /\ WindowSpan \in Nat
  /\ OutageAfter \in Nat /\ Ttl \in Nat \ {0} /\ AutoAge \in Nat
ASSUME AlertBoundsAssumption ==
  /\ MaxTime \in Nat /\ TopicSize \in Nat
  /\ MaxEvents \in Nat

VARIABLES
  now,          \* the wall clock
  log,          \* the messages of both topics, in the order they are taken
  pos,          \* messages 1..pos have been handled
  committed,    \* messages 1..committed were committed at the last crash
  lastSeen,     \* last_seen:<meter>, Never when there is no key
  windows,      \* region:overload, the instants of overloaded aggregates
  active,       \* alerts:active:<subject>, the expiry of the key
  dedup,        \* dedup:<subject>, the expiry of the key
  alerts,       \* the rows of the alerts table, in the order of insertion
  processed,    \* the rows published on alerts_processed
  updates,      \* the <<row, status>> pairs published on alert_status_updates
  consumer,     \* what the consumer is doing
  request,      \* what each request is doing
  requests,     \* requests made so far
  failures,     \* failures so far
  crashes,      \* crashes so far
  interrupted,  \* history: the rows whose creation was cut short
  counted       \* history: the messages whose window was added, and after how many crashes

topic  == <<log, pos, committed>>
redis  == <<lastSeen, windows, active, dedup>>
published == <<processed, updates>>
faults == <<failures, crashes>>
vars == <<now, topic, redis, alerts, published, consumer, request, requests, faults,
          interrupted, counted>>

-----------------------------------------------------------------------------
Instant == 0 .. MaxTime
Never   == -1
Subject == [type : {"REGIONAL_OVERLOAD"}, meter : {NoMeter}]
             \cup [type : {"METER_OUTAGE", "ANOMALY"}, meter : Meters]
Overload  == [type |-> "REGIONAL_OVERLOAD", meter |-> NoMeter]
Outage(m) == [type |-> "METER_OUTAGE", meter |-> m]
Anomaly(m) == [type |-> "ANOMALY", meter |-> m]

Aggregate == [type : {"aggregate"}, over : BOOLEAN, meters : SUBSET Meters, at : Instant]
AnomalyMessage == [type : {"anomaly"}, meter : Meters]

(* What the metadata says of the operators, by its keys. *)
Note == {"acknowledgment_timestamp", "resolved_by", "auto_resolved"}

Row == [subject : Subject, created : Instant, msg : Nat, acknowledged : BOOLEAN,
        resolved : BOOLEAN, notes : SUBSET Note]

(* mapRowToAlert *)
Status(row) == IF row.resolved THEN "resolved"
               ELSE IF row.acknowledged THEN "acknowledged" ELSE "active"

Eventful == requests + failures + crashes < MaxEvents

Stage == {"idle", "overload", "active", "dedup", "insert", "publish", "mark",
          "activate", "outages"}
Idle  == [stage |-> "idle", subject |-> Overload, todo |-> {}]
Message == log[pos + 1]

NoRequest == [op |-> "none", stage |-> "idle", row |-> 0, notes |-> {},
              status |-> "active", todo |-> {}]

Init ==
  /\ now = 0 /\ log = <<>> /\ pos = 0 /\ committed = 0
  /\ lastSeen = [m \in Meters |-> Never]
  /\ windows = <<>>
  /\ active = [s \in Subject |-> 0] /\ dedup = [s \in Subject |-> 0]
  /\ alerts = <<>> /\ processed = {} /\ updates = {}
  /\ consumer = Idle
  /\ request = [r \in Requests |-> NoRequest]
  /\ requests = 0 /\ failures = 0 /\ crashes = 0
  /\ interrupted = {} /\ counted = {}

-----------------------------------------------------------------------------
(* The world: time, the producers of the two topics, the broker.            *)

(* Markers whose time to live is over are gone. *)
Tick ==
  /\ now < MaxTime
  /\ now' = now + 1
  /\ active' = [s \in Subject |-> IF active[s] > now' THEN active[s] ELSE 0]
  /\ dedup' = [s \in Subject |-> IF dedup[s] > now' THEN dedup[s] ELSE 0]
  /\ UNCHANGED <<topic, lastSeen, windows, alerts, published, consumer, request,
                 requests, faults, interrupted, counted>>

(* A message may wait for any time before it is taken. *)
Emit(message) ==
  /\ Len(log) < TopicSize
  /\ log' = Append(log, message)
  /\ UNCHANGED <<now, pos, committed, redis, alerts, published, consumer, request,
                 requests, faults, interrupted, counted>>

(* The stream processor stamps a regional aggregate with the time of the    *)
(* flush, and publishes none for a region of which no meter has reported.   *)
EmitAggregate(over, meters) ==
  Emit([type |-> "aggregate", over |-> over, meters |-> meters, at |-> now])

EmitAnomaly(m) == Emit([type |-> "anomaly", meter |-> m])

-----------------------------------------------------------------------------
(* Redis, PostgreSQL and the producer: one call each.                       *)

UpdateMeterLastSeen(meters, t) ==
  lastSeen' = [m \in Meters |-> IF m \in meters THEN t ELSE lastSeen[m]]

GetInactiveMeters == {m \in Meters : lastSeen[m] # Never /\ lastSeen[m] < now - OutageAfter}

AddOverloadWindow(t) == windows' = Append(windows, t)

(* What outlives the time to live of the key would not be counted. *)
Recent(instants) == {i \in DOMAIN instants : instants[i] >= now - WindowSpan}

GetOverloadWindowCount(instants) == Cardinality(Recent(instants))

HasActiveAlert(s) == active[s] # 0

SetActiveAlert(s) == active' = [active EXCEPT ![s] = now + Ttl]

(* The marker is that of the subject, whichever row it was set for. *)
ClearActiveAlert(s) == active' = [active EXCEPT ![s] = 0]

SetDeduplicationMarker(s) == dedup' = [dedup EXCEPT ![s] = now + Ttl]

CheckDeduplicationMarker(s) == dedup[s] # 0

NewAlert(s) == [subject |-> s, created |-> now, msg |-> pos + 1, acknowledged |-> FALSE,
                resolved |-> FALSE, notes |-> {}]

(* The update of one row: what was noted before is replaced.                *)
Updated(row, op, notes) ==
  [row EXCEPT !.acknowledged = @ \/ op = "acknowledge",
              !.resolved = @ \/ op = "resolve",
              !.notes = notes]

(* Its argument for the one who resolves is not used. *)
BulkResolved(rows) ==
  [i \in DOMAIN alerts |-> IF i \in rows THEN [alerts[i] EXCEPT !.resolved = TRUE]
                           ELSE alerts[i]]

AutoResolved(rows) ==
  [i \in DOMAIN alerts |->
     IF i \in rows THEN [alerts[i] EXCEPT !.resolved = TRUE, !.notes = @ \cup {"auto_resolved"}]
     ELSE alerts[i]]

PublishProcessedAlert(i) == processed' = processed \cup {i} /\ UNCHANGED updates

PublishAlertStatusUpdate(i, status) ==
  updates' = updates \cup {<<i, status>>} /\ UNCHANGED processed

-----------------------------------------------------------------------------
(* The consumer.                                                            *)

Goto(stage, subject, todo) ==
  /\ consumer' = [stage |-> stage, subject |-> subject, todo |-> todo]
  /\ UNCHANGED pos

(* handleMessage ends, normally or in its catch block, which only logs: the *)
(* offset is resolved either way.                                           *)
Finish ==
  /\ consumer' = Idle
  /\ pos' = pos + 1

(* The loop of checkMeterOutages over the meters it has found. *)
NextOutage(todo) ==
  \/ \E m \in todo : Goto("active", Outage(m), todo \ {m})
  \/ todo = {} /\ Finish

(* What follows the check of a subject. *)
Continue ==
  \/ consumer.subject.type = "REGIONAL_OVERLOAD" /\ Goto("outages", Overload, {})
  \/ consumer.subject.type = "METER_OUTAGE" /\ NextOutage(consumer.todo)
  \/ consumer.subject.type = "ANOMALY" /\ Finish

(* The last-seen times of the meters are written first. *)
ProcessRegionalAggregate ==
  /\ Message.type = "aggregate"
  /\ UpdateMeterLastSeen(Message.meters, Message.at)
  /\ Goto(IF Message.over THEN "overload" ELSE "outages", Overload, {})

ProcessAnomalyAlert ==
  /\ Message.type = "anomaly"
  /\ Goto("dedup", Anomaly(Message.meter), {})
  /\ UNCHANGED lastSeen

Consume ==
  /\ consumer.stage = "idle"
  /\ pos < Len(log)
  /\ ProcessRegionalAggregate \/ ProcessAnomalyAlert
  /\ UNCHANGED <<now, log, committed, windows, active, dedup, alerts, published, request,
                 requests, faults, interrupted, counted>>

(* One of the updateMeterLastSeen fails, after some have succeeded. *)
ConsumeFails ==
  /\ consumer.stage = "idle"
  /\ pos < Len(log)
  /\ Message.type = "aggregate"
  /\ Eventful /\ failures' = failures + 1
  /\ \E done \in SUBSET Message.meters : UpdateMeterLastSeen(done, Message.at)
  /\ Finish
  /\ UNCHANGED <<now, log, committed, windows, active, dedup, alerts, published, request,
                 requests, crashes, interrupted, counted>>

Mut_AnyOverloadAlerts ==
  /\ consumer.stage = "overload"
  /\ AddOverloadWindow(Message.at)
  /\ counted' = counted \cup {<<pos + 1, crashes>>}
  /\ IF GetOverloadWindowCount(windows') + 1 >= MinWindows
       THEN Goto("active", Overload, {}) ELSE Goto("outages", Overload, {})
  /\ UNCHANGED <<now, log, committed, lastSeen, active, dedup, alerts, published, request,
                 requests, faults, interrupted>>

(* checkRegionalOverload up to its count; only the consumer uses the key.   *)
CountWindows ==
  /\ consumer.stage = "overload"
  /\ AddOverloadWindow(Message.at)
  /\ counted' = counted \cup {<<pos + 1, crashes>>}
  /\ IF GetOverloadWindowCount(windows') >= MinWindows
       THEN Goto("active", Overload, {}) ELSE Goto("outages", Overload, {})
  /\ UNCHANGED <<now, log, committed, lastSeen, active, dedup, alerts, published, request,
                 requests, faults, interrupted>>

(* checkMeterOutages up to its loop. *)
FindOutages ==
  /\ consumer.stage = "outages"
  /\ NextOutage(GetInactiveMeters \ Message.meters)
  /\ UNCHANGED <<now, log, committed, redis, alerts, published, request, requests, faults,
                 interrupted, counted>>

(* A subject with an active alert is skipped. *)
CheckActive ==
  /\ consumer.stage = "active"
  /\ IF HasActiveAlert(consumer.subject) THEN Continue
     ELSE Goto("dedup", consumer.subject, consumer.todo)
  /\ UNCHANGED <<now, log, committed, redis, alerts, published, request, requests, faults,
                 interrupted, counted>>

Mut_NoDuplicateCheck ==
  /\ consumer.stage = "dedup"
  /\ Goto("insert", consumer.subject, consumer.todo)
  /\ UNCHANGED <<now, log, committed, redis, alerts, published, request, requests, faults,
                 interrupted, counted>>

(* isDuplicateAlert: createAlert throws `Duplicate alert suppressed', which *)
(* ends the handling of the message, the meters still to check included.    *)
CheckDuplicate ==
  /\ consumer.stage = "dedup"
  /\ IF CheckDeduplicationMarker(consumer.subject) THEN Finish
     ELSE Goto("insert", consumer.subject, consumer.todo)
  /\ UNCHANGED <<now, log, committed, redis, alerts, published, request, requests, faults,
                 interrupted, counted>>

InsertAlert ==
  /\ consumer.stage = "insert"
  /\ alerts' = Append(alerts, NewAlert(consumer.subject))
  /\ Goto("publish", consumer.subject, consumer.todo)
  /\ UNCHANGED <<now, log, committed, redis, published, request, requests, faults,
                 interrupted, counted>>

PublishAlert ==
  /\ consumer.stage = "publish"
  /\ PublishProcessedAlert(Len(alerts))
  /\ Goto("mark", consumer.subject, consumer.todo)
  /\ UNCHANGED <<now, log, committed, redis, alerts, request, requests, faults,
                 interrupted, counted>>

(* setAlertDeduplicationMarker: the last step of createAlert, and of an     *)
(* anomaly alert.                                                           *)
MarkDuplicate ==
  /\ consumer.stage = "mark"
  /\ SetDeduplicationMarker(consumer.subject)
  /\ IF consumer.subject.type = "ANOMALY" THEN Finish
     ELSE Goto("activate", consumer.subject, consumer.todo)
  /\ UNCHANGED <<now, log, committed, lastSeen, windows, active, alerts, published,
                 request, requests, faults, interrupted, counted>>

Activate ==
  /\ consumer.stage = "activate"
  /\ SetActiveAlert(consumer.subject)
  /\ Continue
  /\ UNCHANGED <<now, log, committed, lastSeen, windows, dedup, alerts, published, request,
                 requests, faults, interrupted, counted>>

(* The creation of the last row ends before its deduplication marker is set. *)
CutShort ==
  interrupted' = interrupted \cup (IF consumer.stage \in {"publish", "mark"}
                                     THEN {Len(alerts)} ELSE {})

(* The call the consumer is waiting for fails and the message is given up.  *)
(* One that fails after taking effect is the call and then a failure of the *)
(* next one.                                                                *)
ConsumerFails ==
  /\ consumer.stage # "idle"
  /\ Eventful /\ failures' = failures + 1
  /\ Finish
  /\ CutShort
  /\ UNCHANGED <<now, log, committed, redis, alerts, published, request, requests, crashes,
                 counted>>

-----------------------------------------------------------------------------
(* The operators' requests.                                                 *)

Begin(r, state) ==
  /\ request[r].stage = "idle"
  /\ Eventful /\ requests' = requests + 1
  /\ request' = [request EXCEPT ![r] = state]
  /\ UNCHANGED <<now, topic, redis, published, consumer, faults, interrupted, counted>>

(* acknowledgeAlert and resolveAlert up to their update, whose metadata is  *)
(* made from the row as it is now.                                          *)
AcknowledgeAlert(i) ==
  [NoRequest EXCEPT !.op = "acknowledge", !.stage = "update", !.row = i,
                    !.notes = alerts[i].notes \cup {"acknowledgment_timestamp"}]

ResolveAlert(i) ==
  [NoRequest EXCEPT !.op = "resolve", !.stage = "update", !.row = i,
                    !.notes = alerts[i].notes \cup {"resolved_by"}]

(* A request for a row that is already so returns it and changes nothing.   *)
Acknowledge(r, i) ==
  ~alerts[i].acknowledged /\ Begin(r, AcknowledgeAlert(i)) /\ UNCHANGED alerts

Resolve(r, i) ==
  ~alerts[i].resolved /\ Begin(r, ResolveAlert(i)) /\ UNCHANGED alerts

(* bulkResolveAlerts up to the end of its transaction: the rows that were   *)
(* not resolved are.                                                        *)
BulkResolve(r, rows) ==
  LET open == {i \in rows : ~alerts[i].resolved}
  IN /\ open # {}
     /\ Begin(r, [NoRequest EXCEPT !.op = "bulk", !.stage = "next", !.todo = open])
     /\ alerts' = BulkResolved(open)

(* autoResolveOldAlerts: no marker is cleared and nothing is published. *)
AutoResolve ==
  LET old == {i \in DOMAIN alerts : ~alerts[i].resolved /\ alerts[i].created < now - AutoAge}
  IN /\ old # {}
     /\ Eventful /\ requests' = requests + 1
     /\ alerts' = AutoResolved(old)
     /\ UNCHANGED <<now, topic, redis, published, consumer, request, faults,
                    interrupted, counted>>

(* updateAlert, and the row it returns. *)
UpdateAlert(r) ==
  LET q == request[r]
      row == Updated(alerts[q.row], q.op, q.notes)
  IN /\ q.stage = "update"
     /\ alerts' = [alerts EXCEPT ![q.row] = row]
     /\ request' = [request EXCEPT ![r].stage = "publish", ![r].status = Status(row)]
     /\ UNCHANGED <<now, topic, redis, published, consumer, requests, faults,
                    interrupted, counted>>

(* The loop of bulkResolveAlerts takes the next row. *)
NextResolved(r, i) ==
  /\ request[r].stage = "next"
  /\ request' = [request EXCEPT ![r].stage = "clear", ![r].row = i,
                                ![r].status = "resolved", ![r].todo = @ \ {i}]
  /\ UNCHANGED <<now, topic, redis, alerts, published, consumer, requests, faults,
                 interrupted, counted>>

(* What a request does after clearing a marker or publishing a status: a    *)
(* single one publishes first, a bulk one clears first.                     *)
Proceed(r, first, second) ==
  LET q == request[r]
  IN request' = [request EXCEPT ![r] =
       IF q.stage = first THEN [q EXCEPT !.stage = second]
       ELSE IF q.todo # {} THEN [q EXCEPT !.stage = "next"] ELSE NoRequest]

After(r) == IF request[r].op = "bulk" THEN Proceed(r, "clear", "publish")
            ELSE Proceed(r, "publish", "clear")

Mut_PublishedAsRead(r) ==
  /\ request[r].stage = "publish"
  /\ PublishAlertStatusUpdate(request[r].row, IF request[r].op = "acknowledge"
                                               THEN "acknowledged" ELSE "active")
  /\ After(r)
  /\ UNCHANGED <<now, topic, redis, alerts, consumer, requests, faults,
                 interrupted, counted>>

(* publishAlertStatusUpdate *)
PublishUpdate(r) ==
  /\ request[r].stage = "publish"
  /\ PublishAlertStatusUpdate(request[r].row, request[r].status)
  /\ After(r)
  /\ UNCHANGED <<now, topic, redis, alerts, consumer, requests, faults,
                 interrupted, counted>>

ClearActive(r) ==
  /\ request[r].stage = "clear"
  /\ ClearActiveAlert(alerts[request[r].row].subject)
  /\ After(r)
  /\ UNCHANGED <<now, topic, lastSeen, windows, dedup, alerts, published, consumer,
                 requests, faults, interrupted, counted>>

(* The call a request is waiting for fails, and the request with it. *)
RequestFails(r) ==
  /\ request[r].stage # "idle"
  /\ Eventful /\ failures' = failures + 1
  /\ request' = [request EXCEPT ![r] = NoRequest]
  /\ UNCHANGED <<now, topic, redis, alerts, published, consumer, requests, crashes,
                 interrupted, counted>>

-----------------------------------------------------------------------------
(* The messages that come again to a consumer that joins the group: those   *)
(* that kafkajs had not committed, of the ones eachMessage had finished.    *)
Rejoin(committable) == \E c \in committable : committed' = c /\ pos' = c

Mut_CommitsOneTooMany ==
  /\ Eventful /\ crashes' = crashes + 1
  /\ consumer' = Idle
  /\ request' = [r \in Requests |-> NoRequest]
  /\ Rejoin(committed .. pos + 1)
  /\ CutShort
  /\ UNCHANGED <<now, log, redis, alerts, published, requests, failures, counted>>

(* The process ends and is started again: what was in progress is gone.     *)
Crash ==
  /\ Eventful /\ crashes' = crashes + 1
  /\ consumer' = Idle
  /\ request' = [r \in Requests |-> NoRequest]
  /\ Rejoin(committed .. pos)
  /\ CutShort
  /\ UNCHANGED <<now, log, redis, alerts, published, requests, failures, counted>>

ConsumerStep ==
  \/ Consume \/ ConsumeFails \/ CountWindows \/ FindOutages \/ CheckActive
  \/ CheckDuplicate \/ InsertAlert \/ PublishAlert \/ MarkDuplicate \/ Activate
  \/ ConsumerFails

RequestStep(r) ==
  \/ UpdateAlert(r) \/ PublishUpdate(r) \/ ClearActive(r) \/ RequestFails(r)
  \/ \E i \in request[r].todo : NextResolved(r, i)

Next ==
  \/ Tick \/ Crash \/ ConsumerStep \/ AutoResolve
  \/ \E over \in BOOLEAN, meters \in Reports : EmitAggregate(over, meters)
  \/ \E m \in Anomalous : EmitAnomaly(m)
  \/ \E r \in Requests :
       \/ RequestStep(r)
       \/ \E i \in DOMAIN alerts : Acknowledge(r, i) \/ Resolve(r, i)
       \/ \E rows \in SUBSET DOMAIN alerts : BulkResolve(r, rows)

Spec == Init /\ [][Next]_vars

(* Every query, command and publication ends, and the consumer goes on with *)
(* the next message.                                                        *)
Fairness == WF_vars(ConsumerStep) /\ \A r \in Requests : WF_vars(RequestStep(r))

FairSpec == Spec /\ Fairness

-----------------------------------------------------------------------------
(* What the service answers, of the table at one moment.  A count is given  *)
(* as the set it counts, and a list whole.  getAlerts knows no severity, no *)
(* hours and no startDate: whoever asks for these gets all.                 *)
(* getStatistics makes a query for each of its counts, each at a moment of   *)
(* its own.                                                                 *)

NoFilter == [status |-> "any", type |-> "any", meter |-> NoMeter]

(* Any status but `resolved' asks for the rows that are not. *)
GetAlerts(filters) ==
  {i \in DOMAIN alerts :
     /\ filters.status = "any" \/ (alerts[i].resolved <=> filters.status = "resolved")
     /\ filters.type \in {"any", alerts[i].subject.type}
     /\ filters.meter \in {NoMeter, alerts[i].subject.meter}}

GetActiveAlerts == {i \in DOMAIN alerts : ~alerts[i].resolved}
GetAlertHistory == GetAlerts([NoFilter EXCEPT !.status = "resolved"])

GetStatistics ==
  [total |-> DOMAIN alerts,
   active |-> GetActiveAlerts,
   acknowledged |-> {i \in DOMAIN alerts : alerts[i].acknowledged},
   resolved |-> {i \in DOMAIN alerts : alerts[i].resolved},
   by_type |-> [t \in {s.type : s \in Subject} |->
                  {i \in DOMAIN alerts : alerts[i].subject.type = t}]]

(* The summary of a user's list: an acknowledged alert is in none of these, *)
(* for the second asks that its status be `active' as well.                 *)
UserSummary(m, status) ==
  LET shown == GetAlerts([NoFilter EXCEPT !.meter = m, !.status = status])
  IN [active |-> {i \in shown : Status(alerts[i]) = "active"},
      acknowledged |-> {i \in shown : alerts[i].acknowledged /\ Status(alerts[i]) = "active"},
      resolved |-> {i \in shown : Status(alerts[i]) = "resolved"}]

-----------------------------------------------------------------------------
TypeOK ==
  /\ now \in Instant
  /\ log \in Seq(Aggregate \cup AnomalyMessage)
  /\ pos \in 0 .. Len(log) /\ committed \in 0 .. pos
  /\ lastSeen \in [Meters -> Instant \cup {Never}]
  /\ windows \in Seq(Instant)
  /\ active \in [Subject -> Nat] /\ dedup \in [Subject -> Nat]
  /\ alerts \in Seq(Row)
  /\ processed \subseteq DOMAIN alerts
  /\ updates \subseteq (DOMAIN alerts) \X {"active", "acknowledged", "resolved"}
  /\ consumer \in [stage : Stage, subject : Subject, todo : SUBSET Meters]
  /\ consumer.stage # "idle" => pos < Len(log)
  /\ request \in [Requests -> [op : {"none", "acknowledge", "resolve", "bulk"},
                               stage : {"idle", "update", "next", "publish", "clear"},
                               row : 0 .. Len(alerts),
                               notes : SUBSET Note,
                               status : {"active", "acknowledged", "resolved"},
                               todo : SUBSET DOMAIN alerts]]
  /\ \A r \in Requests : request[r].stage \in {"update", "publish", "clear"}
                           => request[r].row # 0
  /\ requests \in Nat /\ failures \in Nat /\ crashes \in Nat
  /\ requests + failures + crashes <= MaxEvents
  /\ interrupted \subseteq DOMAIN alerts
  /\ counted \subseteq (1 .. Len(log)) \X (0 .. crashes)

(* createAlert never makes two alerts of one subject within the time to     *)
(* live of the deduplication marker, unless the creation of the first was   *)
(* cut short before its marker was set: whatever the operators clear, and   *)
(* however often a message comes again.                                     *)
DuplicateOnlyAfterInterruption ==
  \A i, j \in DOMAIN alerts :
    i < j /\ alerts[i].subject = alerts[j].subject /\ i \notin interrupted
      => alerts[j].created >= alerts[i].created + Ttl

(* What silences a subject, either marker, stands for a row of the table    *)
(* that was published: no failure leaves a marker that suppresses an alert  *)
(* nobody has stored, or nobody has been told of.                           *)
MarkersHaveRows ==
  \A s \in Subject :
    HasActiveAlert(s) \/ CheckDeduplicationMarker(s)
      => \E i \in processed : alerts[i].subject = s

(* A subject is neither alerted twice nor silenced for nothing. *)
AlertedOnce == DuplicateOnlyAfterInterruption /\ MarkersHaveRows

(* The overload windows added that are not older than the span before the   *)
(* n-th message: the overloaded aggregates they are of, and the life of the *)
(* service that added them.                                                 *)
Overloads(n) ==
  {c \in counted : LET m == log[c[1]]
                   IN m.type = "aggregate" /\ m.over /\ m.at >= log[n].at - WindowSpan}

(* When an overload alert is made, as many windows have been added within   *)
(* the span before its message as the threshold asks for, each from an      *)
(* overloaded aggregate, and an aggregate counts once, or once more after a *)
(* crash that brought it again: an alert on fewer aggregates than the       *)
(* threshold has one that was redelivered.                                  *)
OverloadIsWarranted ==
  \A i \in DOMAIN alerts :
    alerts[i].subject = Overload => Cardinality(Overloads(alerts[i].msg)) >= MinWindows

(* The rows announced with a status. *)
Told(status) == {i \in DOMAIN alerts : <<i, status>> \in updates}

(* What alert_status_updates has said of a row is so, and stays so, in      *)
(* whatever order requests overlap, fail or are cut off.                    *)
AnnouncementsAreTrue ==
  /\ Told("resolved") \subseteq GetAlertHistory
  /\ Told("acknowledged") \subseteq GetStatistics.acknowledged
  /\ Told("active") = {}

(* With no failure and no request in progress it has said all there is: the *)
(* history is what was announced as resolved or resolved automatically, and *)
(* what the service tells a user is active are the open alerts of his meter *)
(* no acknowledgement of which was announced.                               *)
AnnouncementsAreComplete ==
  failures = 0 /\ crashes = 0 /\ (\A r \in Requests : request[r].stage = "idle") =>
    /\ \A i \in GetAlertHistory : i \in Told("resolved") \/ "auto_resolved" \in alerts[i].notes
    /\ GetStatistics.acknowledged \subseteq Told("acknowledged") \cup Told("resolved")
    /\ \A m \in Meters : LET open == GetAlerts([NoFilter EXCEPT !.meter = m, !.status = "active"])
                        IN UserSummary(m, "any").active = open \ Told("acknowledged")

(* The views of the operators and users and the announcements agree. *)
AnnouncedAsShown == AnnouncementsAreTrue /\ AnnouncementsAreComplete

(* The subjects with a marker, and those of which only the deduplication    *)
(* marker is left, so that createAlert throws.  An anomaly has no other,    *)
(* and for a moment a new alert has not.                                    *)
Silenced == {s \in Subject : HasActiveAlert(s) \/ CheckDeduplicationMarker(s)}

Barred ==
  {s \in Subject :
     /\ s.type # "ANOMALY"
     /\ CheckDeduplicationMarker(s) /\ ~HasActiveAlert(s)
     /\ ~(consumer.stage = "activate" /\ consumer.subject = s)}

Log == INSTANCE AlertLog WITH
  Span <- Ttl, rows <- alerts, published <- processed, told <- updates,
  silent <- Silenced, barred <- Barred, cut <- interrupted

(* Whoever looks at the table, the topics and the silence of subjects sees  *)
(* the log of AlertLog: no step alerts a subject that is silent or was not  *)
(* long ago, takes a row back, announces what is not so, silences a subject *)
(* nobody was told of, or bars one that no operator and no failure touched. *)
ImplementsLog == Log!Spec

-----------------------------------------------------------------------------
(* What the documents promise and the code does not do.                     *)

(* README.md: "Stores alerts in PostgreSQL with full audit trail".  What    *)
(* the metadata says of an acknowledgement or a resolution should stay.     *)
AuditTrailIsKept ==
  [][\A i \in DOMAIN alerts : alerts[i].notes \subseteq alerts'[i].notes]_vars

=============================================================================
