----------------------------- MODULE Ingestion -----------------------------
(***************************************************************************)
(* The ingestion service (apps/ingestion) and the senders of readings (the  *)
(* simulator's HttpSender): a sender posts its readings, waits for the      *)
(* answer up to a timeout, and posts them again after a failure.  A request *)
(* marks its readings in Redis, publishes those that were not marked yet on *)
(* raw_readings, and answers.  Requests of one sender overlap when it has   *)
(* stopped waiting for the first.                                           *)
(*                                                                         *)
(* A definition Mut_X is a mutated form of the definition it precedes.      *)
(***************************************************************************)
EXTENDS Integers, FiniteSets

CONSTANTS
  Readings,     \* readings, identified by meter and timestamp
  Senders,      \* senders, each with one post to get through
  Singles,      \* those that post one reading to /telemetry, not /batch
  Load,         \* the readings of each sender
  Attempts,     \* config.retryAttempts
  MaxFaults,    \* bound: failed commands and publications, and crashes
  MaxExpiries   \* bound: markers that reach their time to live

ASSUME LoadAssumption ==
  /\ Load \in [Senders -> (SUBSET Readings) \ {{}}]
  /\ Singles \subseteq Senders
  /\ \A s \in Singles : \E r \in Readings : Load[s] = {r}
ASSUME IngestionBoundsAssumption ==
  Attempts \in Nat \ {0} /\ MaxFaults \in Nat /\ MaxExpiries \in Nat

VARIABLES
  attempt,     \* the post each sender is at
  state,       \* what each sender is doing
  inflight,    \* the requests the service is working on
  marked,      \* the dedup keys in Redis
  published,   \* how often each reading is in raw_readings
  faults,      \* faults so far
  expiries,    \* expiries so far
  lost,        \* history: readings a fault may have kept from the topic
  expired      \* history: how often each reading's marker has expired

senders == <<attempt, state>>
history == <<lost, expired>>
vars == <<senders, inflight, marked, published, faults, expiries, history>>

-----------------------------------------------------------------------------
Request == [sender : Senders, attempt : 1 .. Attempts, stage : {"check", "publish"},
            unique : SUBSET Readings]

(* A request has marked the reading and is about to publish it. *)
Pending(r) == \E q \in inflight : r \in q.unique

Init ==
  /\ attempt = [s \in Senders |-> 0]
  /\ state = [s \in Senders |-> "ready"]
  /\ inflight = {} /\ marked = {}
  /\ published = [r \in Readings |-> 0]
  /\ faults = 0 /\ expiries = 0
  /\ lost = {} /\ expired = [r \in Readings |-> 0]

-----------------------------------------------------------------------------
(* The senders.                                                             *)

(* The loop of sendBatch: the next attempt after its delay. *)
Post(s) ==
  /\ state[s] = "ready"
  /\ attempt' = [attempt EXCEPT ![s] = @ + 1]
  /\ state' = [state EXCEPT ![s] = "waiting"]
  /\ inflight' = inflight \cup {[sender |-> s, attempt |-> attempt'[s],
                                 stage |-> "check", unique |-> {}]}
  /\ UNCHANGED <<marked, published, faults, expiries, history>>

Mut_OneAttemptMore(s) == IF attempt[s] <= Attempts THEN "ready" ELSE "failed"

Retry(s) == IF attempt[s] < Attempts THEN "ready" ELSE "failed"

(* axios gives up after 30 seconds; the service is not told. *)
Timeout(s) ==
  /\ state[s] = "waiting"
  /\ state' = [state EXCEPT ![s] = Retry(s)]
  /\ UNCHANGED <<attempt, inflight, marked, published, faults, expiries, history>>

(* The request ends, and its sender has the answer if it still waits for    *)
(* it; what axios accepts is any status of the 200s.                        *)
Answer(q, ok) ==
  /\ inflight' = inflight \ {q}
  /\ state' = IF state[q.sender] = "waiting" /\ attempt[q.sender] = q.attempt
                THEN [state EXCEPT ![q.sender] = IF ok THEN "succeeded" ELSE Retry(q.sender)]
                ELSE state

-----------------------------------------------------------------------------
(* The requests.                                                            *)

Fault == faults < MaxFaults /\ faults' = faults + 1

Mut_CheckWithoutMark(q) ==
  /\ q.stage = "check"
  /\ marked' = marked \cup Load[q.sender]
  /\ inflight' = (inflight \ {q}) \cup {[q EXCEPT !.stage = "publish",
                                                !.unique = Load[q.sender]]}
  /\ UNCHANGED <<senders, published, faults, expiries, history>>

Mut_SwappedLists(q) ==
  /\ q.stage = "check"
  /\ marked' = marked \cup Load[q.sender]
  /\ LET unique == Load[q.sender] \cap marked
     IN \/ /\ unique # {}
           /\ inflight' = (inflight \ {q}) \cup {[q EXCEPT !.stage = "publish",
                                                        !.unique = unique]}
           /\ UNCHANGED state
        \/ /\ unique = {}
           /\ Answer(q, TRUE)
  /\ UNCHANGED <<attempt, published, faults, expiries, history>>

(* checkAndMark and filterDuplicates: one SET NX EX for each reading, sent  *)
(* together on one connection.  With nothing new to publish the answer is   *)
(* given at once.                                                           *)
CheckAndMark(q) ==
  /\ q.stage = "check"
  /\ marked' = marked \cup Load[q.sender]
  /\ LET unique == Load[q.sender] \ marked
     IN \/ /\ unique # {}
           /\ inflight' = (inflight \ {q}) \cup {[q EXCEPT !.stage = "publish",
                                                        !.unique = unique]}
           /\ UNCHANGED state
        \/ /\ unique = {}
           /\ Answer(q, TRUE)
  /\ UNCHANGED <<attempt, published, faults, expiries, history>>

(* A command fails: the answer is 500, and the others may have been done.   *)
CheckFails(q) ==
  /\ q.stage = "check"
  /\ Fault
  /\ \E done \in SUBSET (Load[q.sender] \ marked) :
       marked' = marked \cup done /\ lost' = lost \cup done
  /\ Answer(q, FALSE)
  /\ UNCHANGED <<attempt, published, expiries, expired>>

Add(readings) ==
  published' = [r \in Readings |-> published[r] + (IF r \in readings THEN 1 ELSE 0)]

Mut_AnsweredUnpublished(q) ==
  /\ q.stage = "publish"
  /\ \E done \in SUBSET q.unique : Add(done)
  /\ Answer(q, TRUE)
  /\ UNCHANGED <<attempt, marked, faults, expiries, history>>

(* publishReading and publishBatch. *)
Publish(q) ==
  /\ q.stage = "publish"
  /\ Add(q.unique)
  /\ Answer(q, TRUE)
  /\ UNCHANGED <<attempt, marked, faults, expiries, history>>

(* The producer gives up, with some partitions written or none.  A single   *)
(* reading is answered with 500, a batch with 207 and its count of failures. *)
PublishFails(q) ==
  /\ q.stage = "publish"
  /\ Fault
  /\ \E done \in SUBSET q.unique : Add(done) /\ lost' = lost \cup (q.unique \ done)
  /\ Answer(q, q.sender \notin Singles)
  /\ UNCHANGED <<attempt, marked, expiries, expired>>

(* A key's 60 seconds are over. *)
Expire(r) ==
  /\ r \in marked
  /\ expiries < MaxExpiries /\ expiries' = expiries + 1
  /\ marked' = marked \ {r}
  /\ expired' = [expired EXCEPT ![r] = @ + 1]
  /\ UNCHANGED <<senders, inflight, published, faults, lost>>

(* The process ends; the senders' connections are reset, those of requests  *)
(* they have given up included.                                             *)
Crash ==
  /\ Fault
  /\ inflight' = {}
  /\ state' = [s \in Senders |-> IF state[s] = "waiting" THEN Retry(s) ELSE state[s]]
  /\ lost' = lost \cup {r \in Readings : Pending(r)}
  /\ UNCHANGED <<attempt, marked, published, expiries, expired>>

-----------------------------------------------------------------------------
Work(q) == CheckAndMark(q) \/ CheckFails(q) \/ Publish(q) \/ PublishFails(q)

Next ==
  \/ \E s \in Senders : Post(s) \/ Timeout(s)
  \/ \E q \in inflight : Work(q)
  \/ \E r \in Readings : Expire(r)
  \/ Crash

Spec == Init /\ [][Next]_vars

(* Senders post and retry, requests are worked on to their end.  Nothing is *)
(* said of timeouts: an answer may always be in time.                       *)
Fairness ==
  /\ \A s \in Senders : WF_vars(Post(s))
  /\ \A s \in Senders, a \in 1 .. Attempts :
       WF_vars(\E q \in inflight : q.sender = s /\ q.attempt = a /\ Work(q))

FairSpec == Spec /\ Fairness

-----------------------------------------------------------------------------
TypeOK ==
  /\ attempt \in [Senders -> 0 .. Attempts]
  /\ state \in [Senders -> {"ready", "waiting", "succeeded", "failed"}]
  /\ \A s \in Senders : state[s] = "ready" => attempt[s] < Attempts
  /\ inflight \subseteq Request
  /\ \A q \in inflight : q.stage = "check" => q.unique = {}
  /\ marked \subseteq Readings
  /\ published \in [Readings -> Nat]
  /\ faults \in 0 .. MaxFaults /\ expiries \in 0 .. MaxExpiries
  /\ lost \subseteq Readings /\ expired \in [Readings -> Nat]

(* Deduplication: however a sender's retries overlap, and whoever else      *)
(* sends the same reading, it gets to raw_readings at most once for each    *)
(* life of its marker: the sixty seconds of the key allow one publication,  *)
(* by whichever request, even if it comes after they are over.              *)
OncePerMarker ==
  \A r \in Readings : published[r] <= expired[r] + (IF r \in marked THEN 1 ELSE 0)

Accounted(r) == published[r] > 0 \/ Pending(r) \/ r \in lost

(* A sender is told success, as a duplicate perhaps, only of readings that  *)
(* are in the topic, or that another request has marked and is about to     *)
(* publish, or that a fault has hit.                                        *)
SuccessIsAccounted ==
  \A s \in Senders : state[s] = "succeeded" => \A r \in Load[s] : Accounted(r)

(* Without a fault every reading gets to the topic, whatever the timeouts   *)
(* and the overlapping retries.                                             *)
ReadingsArrive == <>(faults > 0 \/ \A s \in Senders : \A r \in Load[s] : published[r] > 0)

=============================================================================
