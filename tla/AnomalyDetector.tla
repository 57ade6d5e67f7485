-------------------------- MODULE AnomalyDetector --------------------------
(***************************************************************************)
(* Detection of anomalies in the stream processor: processorsHelper.ts and  *)
(* anomalyDetector.ts, which keep in memory, for each meter, how many       *)
(* readings it has had and a baseline of its power.                         *)
(*                                                                         *)
(* The consumer handles one reading at a time; while it waits for the       *)
(* database or the producer, the flushes store averages, and the process    *)
(* may end and start again.  Power is in whole units, Tenth of them being   *)
(* 0.1 kW; a baseline is rounded to either side.  A definition Mut_X is a   *)
(* mutated form of the definition it precedes.                              *)
(*                                                                         *)
(* Names differ from those of StreamAggregator, which is the other half of  *)
(* the process, for StreamProcessor_proofs extends both.                    *)
(***************************************************************************)
EXTENDS Integers

CONSTANTS
  MeterIds,
  Loads,          \* powers of the readings; 0 kW never gets here
  MaxPower,
  Tenth,          \* units of 0.1 kW
  MinSampleSize,
  SpikePercent, DropPercent  \* thresholds

ASSUME DetectorAssumption ==
  /\ MaxPower \in Nat \ {0} /\ Tenth \in 1 .. MaxPower /\ Loads \subseteq 1 .. MaxPower
  /\ MinSampleSize \in Nat \ {0}
  /\ SpikePercent \in Nat /\ DropPercent \in 0 .. 100

Averages == 0 .. MaxPower
None == -1       \* no row, no baseline, no reading
NoMeter == <<>>

VARIABLES
  readingCounts,  \* counted up to MinSampleSize, which is all that is asked
  baselineCache,
  stored,         \* aggregates_1m: the last avg_power_kw of each meter
  at,             \* the consumer: "idle", "asking" the database, or "alerting"
  meter, power,   \* the reading it is handling
  alerts,         \* the alerts topic: the meters that have one
  last            \* history: for each meter, the reading judged last and
                  \* its verdict

memory == <<readingCounts, baselineCache>>
handling == <<at, meter, power>>
detectorVars == <<memory, stored, handling, alerts, last>>

-----------------------------------------------------------------------------
NothingJudged == [power |-> None, verdict |-> "none"]

DetectorInit ==
  /\ readingCounts = [m \in MeterIds |-> 0]
  /\ baselineCache = [m \in MeterIds |-> None]
  /\ stored = [m \in MeterIds |-> None]
  /\ at = "idle" /\ meter = NoMeter /\ power = None
  /\ alerts = {}
  /\ last = [m \in MeterIds |-> NothingJudged]

(* The change from a baseline, and what checkReading calls it: the last     *)
(* test is for a possible outage.                                           *)
Verdict(p, b) ==
  IF (p - b) * 100 > b * SpikePercent THEN "spike"
  ELSE IF (b - p) * 100 > b * DropPercent THEN "drop"
  ELSE IF p < Tenth /\ b > 10 * Tenth THEN "outage"
  ELSE "calm"

Floored(b) == IF b = 0 THEN Tenth ELSE b

Mut_WeightsExceedOne(b, p) == {(4 * b + p) \div 4}

Moved(b, p) == {(4 * b + p) \div 5, (4 * b + p + 4) \div 5}

Ends == at' = "idle" /\ meter' = NoMeter /\ power' = None

Mut_LearnsFromAll(m, p, cached) ==
  LET b == Floored(cached) IN
  /\ last' = [last EXCEPT ![m] = [power |-> p, verdict |-> Verdict(p, b)]]
  /\ \E new \in Moved(b, p) : baselineCache' = [baselineCache EXCEPT ![m] = new]
  /\ IF Verdict(p, b) = "calm" THEN Ends ELSE at' = "alerting" /\ meter' = m /\ power' = p

(* An anomaly leaves the cache as it is. *)
Judge(m, p, cached) ==
  LET b == Floored(cached) IN
  /\ last' = [last EXCEPT ![m] = [power |-> p, verdict |-> Verdict(p, b)]]
  /\ IF Verdict(p, b) = "calm"
     THEN /\ \E new \in Moved(b, p) : baselineCache' = [baselineCache EXCEPT ![m] = new]
          /\ Ends
     ELSE /\ baselineCache' = [baselineCache EXCEPT ![m] = cached]
          /\ at' = "alerting" /\ meter' = m /\ power' = p

(* handleReading: the reading counts, whatever becomes of it. *)
Read(m, p) ==
  /\ at = "idle"
  /\ LET count == readingCounts[m] + 1 IN
     readingCounts' = [readingCounts EXCEPT ![m] = IF count < MinSampleSize THEN count ELSE @]
  /\ UNCHANGED <<stored, alerts>>

Enough(m) == readingCounts[m] + 1 >= MinSampleSize

TooFew(m, p) == Read(m, p) /\ ~Enough(m) /\ UNCHANGED <<baselineCache, handling, last>>

Compare(m, p) ==
  /\ Enough(m) /\ baselineCache[m] # None
  /\ Read(m, p)
  /\ Judge(m, p, baselineCache[m])

Ask(m, p) ==
  /\ Enough(m) /\ baselineCache[m] = None
  /\ Read(m, p)
  /\ at' = "asking" /\ meter' = m /\ power' = p
  /\ UNCHANGED <<baselineCache, last>>

(* getLastAvgPowerForMeter *)
Answered ==
  /\ at = "asking"
  /\ stored[meter] # None
  /\ Judge(meter, power, stored[meter])
  /\ UNCHANGED <<readingCounts, stored, alerts>>

(* No row yet, or the query failed: the reading is the baseline.            *)
NotAnswered ==
  /\ at = "asking"
  /\ baselineCache' = [baselineCache EXCEPT ![meter] = power]
  /\ last' = [last EXCEPT ![meter] = [power |-> power, verdict |-> "calm"]]
  /\ Ends
  /\ UNCHANGED <<readingCounts, stored, alerts>>

(* publishAlert fails quietly when the producer is not connected, and the   *)
(* alert is gone.                                                           *)
PublishAlert ==
  /\ at = "alerting"
  /\ alerts' \in {alerts, alerts \cup {meter}}
  /\ Ends
  /\ UNCHANGED <<memory, stored, last>>

-----------------------------------------------------------------------------
(* A flush of the aggregator stores an average; one of 0 comes of rounding. *)
Store(m, avg) ==
  /\ stored' = [stored EXCEPT ![m] = avg]
  /\ UNCHANGED <<memory, handling, alerts, last>>

(* The process ends, and starts again with empty maps. *)
DetectorRestart ==
  /\ readingCounts' = [m \in MeterIds |-> 0]
  /\ baselineCache' = [m \in MeterIds |-> None]
  /\ Ends
  /\ last' = [m \in MeterIds |-> NothingJudged]
  /\ UNCHANGED <<stored, alerts>>

DetectorNext ==
  \/ \E m \in MeterIds, p \in Loads : TooFew(m, p) \/ Compare(m, p) \/ Ask(m, p)
  \/ Answered \/ NotAnswered \/ PublishAlert
  \/ \E m \in MeterIds, avg \in Loads \cup {0} : Store(m, avg)
  \/ DetectorRestart

DetectorSpec == DetectorInit /\ [][DetectorNext]_detectorVars

-----------------------------------------------------------------------------
Verdicts == {"none", "spike", "drop", "outage", "calm"}

DetectorTypeOK ==
  /\ readingCounts \in [MeterIds -> 0 .. MinSampleSize - 1]
  /\ baselineCache \in [MeterIds -> {None} \cup Averages]
  /\ stored \in [MeterIds -> {None} \cup Averages]
  /\ at \in {"idle", "asking", "alerting"}
  /\ at # "idle" => meter \in MeterIds /\ power \in Loads
  /\ at = "asking" => baselineCache[meter] = None
  /\ alerts \subseteq MeterIds
  /\ last \in [MeterIds -> [power : {None} \cup Loads, verdict : Verdicts]]

(* A load that stays the same is judged the same, wherever the baseline has *)
(* moved meanwhile: once calm it never alerts, and once an anomaly it       *)
(* alerts with every reading, until another reading comes between or the    *)
(* process is restarted.                                                    *)
SteadyLoadSteadyVerdict ==
  [][\A m \in MeterIds :
       last[m].verdict # "none" /\ last'[m].power = last[m].power
         => last'[m] = last[m]]_detectorVars
=============================================================================
