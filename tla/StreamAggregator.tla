-------------------------- MODULE StreamAggregator --------------------------
(***************************************************************************)
(* The stream processor's aggregation path (apps/stream-processor): the    *)
(* Kafka consumer hands readings of raw_readings to AggregatorService,     *)
(* which keeps one in-memory window per (kind, bucket, meter), kind being  *)
(* "1m" or "15m".  A flush takes a snapshot of the windows of every bucket *)
(* that is over, upserts it into TimescaleDB, publishes it, and then       *)
(* deletes every window whose bucket is over.  Node runs one callback at a *)
(* time, so the code between two awaits is one action here and everything  *)
(* else may happen at an await: deliveries, the clock, another flush.      *)
(*                                                                         *)
(* A window is the set of deliveries it has added up; count is its         *)
(* cardinality, and the sums, minimum and maximum are functions of it.     *)
(*                                                                         *)
(* A definition Mut_X is a mutated form of the definition it precedes, a   *)
(* bug for a property to find; no specification uses it.                   *)
(***************************************************************************)
EXTENDS Integers, FiniteSets

CONSTANTS
  Meters,      \* meter ids
  Powers,      \* the powerKw values of a reading, 0 being the one that matters
  Kinds,       \* the window sizes kept, a subset of {"1m", "15m"}
  Width,       \* ticks of the clock per bucket, for each kind
  MaxTime,     \* bound: the last instant of the clock
  TopicSize,   \* bound: how many readings the topic holds
  MaxRewinds,  \* bound: how often the consumer goes back to its committed offset
  Timers       \* bound: flushes of one kind started by setInterval that may overlap

ASSUME KindsAssumption == Kinds \subseteq {"1m", "15m"} /\ "1m" \in Kinds
ASSUME WidthAssumption == Width \in [Kinds -> Nat \ {0}]
ASSUME BoundsAssumption ==
  MaxTime \in Nat /\ TopicSize \in Nat /\ MaxRewinds \in Nat
ASSUME PowersAssumption == Powers \subseteq Nat
ASSUME TimersAssumption == "shutdown" \notin Timers

VARIABLES
  now,        \* the wall clock
  log,        \* raw_readings: what each offset of the topic holds
  pos,        \* offsets 1..pos have been handled by eachMessage
  committed,  \* offsets 1..committed are committed to the broker
  gen,        \* how often the consumer went back to its committed offset
  born,       \* the value of gen this process started with
  windows,    \* windows1m and windows15m: the deliveries added to each window
  rows,       \* aggregates_1m and aggregates_15m in TimescaleDB
  published,  \* the aggregates sent to the aggregates_1m and _15m topics
  flight,     \* the flushes in progress: where they await, and their local data
  proc,       \* "up", "draining" (shutdown called) or "down"
  drained,    \* the kinds whose last flush shutdown has started
  damaged     \* history: the windows one of the hazards below has touched

vars == <<now, log, pos, committed, gen, born, windows, rows, published, flight,
          proc, drained, damaged>>

-----------------------------------------------------------------------------
Times    == 0 .. MaxTime
Offsets  == 1 .. TopicSize
Gens     == 0 .. MaxRewinds + 1
Reading  == [meter : Meters, time : Times, power : Powers]
Valid(r) == r.power # 0  \* handleMessage's `!reading.powerKw'
Delivery == [off : Offsets, gen : Gens, born : Gens]  \* born: to which process
Key      == Kinds \X Times \X Meters
Flush    == Kinds \X (Timers \cup {"shutdown"})
Stage    == {"idle", "upsert", "publish", "regional"}

(* get1MinuteBucket and get15MinuteBucket. *)
Bucket(k, t) == t \div Width[k]

KeyOf(k, r) == <<k, Bucket(k, r.time), r.meter>>

(* `bucket < currentBucket': the bucket of the window is over. *)
Closed(key) == key[2] < Bucket(key[1], now)

Offs(ds) == {d.off : d \in ds}

NoDeliveries == [key \in Key |-> {}]
Idle == [stage |-> "idle", snap |-> NoDeliveries, regional |-> {}]

InFlight(k) == \E f \in Flush : f[1] = k /\ flight[f].stage # "idle"

Init ==
  /\ now = 0
  /\ log \in [Offsets -> Reading]
  /\ pos = 0 /\ committed = 0 /\ gen = 0 /\ born = 0
  /\ windows = NoDeliveries
  /\ rows = NoDeliveries
  /\ published = {}
  /\ flight = [f \in Flush |-> Idle]
  /\ proc = "up"
  /\ drained = {}
  /\ damaged = {}

-----------------------------------------------------------------------------
(* The clock.  A window whose bucket ends while a flush of its kind is in   *)
(* progress is too late for that flush's snapshot, but not for its clear.   *)

Closing(key) == ~Closed(key) /\ key[2] < Bucket(key[1], now + 1)

Tick ==
  /\ now < MaxTime
  /\ now' = now + 1
  /\ damaged' = damaged \cup
       {key \in Key : windows[key] # {} /\ Closing(key) /\ InFlight(key[1])}
  /\ UNCHANGED <<log, pos, committed, gen, born, windows, rows, published, flight,
                 proc, drained>>

-----------------------------------------------------------------------------
(* handleMessage, handleReading and processReading: the next reading of the *)
(* topic is added to its window of every kind.  A reading with no power is  *)
(* taken for an invalid message and skipped.  A reading for a bucket that   *)
(* is over is late: it does harm if the bucket has been flushed before or   *)
(* is being flushed.                                                        *)

Touched(r) == {KeyOf(k, r) : k \in Kinds}

LateFor(key) == Closed(key) /\ (rows[key] # {} \/ InFlight(key[1]))

Deliver ==
  /\ proc # "down"
  /\ pos < TopicSize
  /\ pos' = pos + 1
  /\ LET r == log[pos + 1]
         d == [off |-> pos + 1, gen |-> gen, born |-> born]
     IN \/ /\ ~Valid(r)
           /\ UNCHANGED <<windows, damaged>>
        \/ /\ Valid(r)
           /\ windows' = [key \in Key |-> IF key \in Touched(r)
                                          THEN windows[key] \cup {d}
                                          ELSE windows[key]]
           /\ damaged' = damaged \cup {key \in Touched(r) : LateFor(key)}
  /\ UNCHANGED <<now, log, committed, gen, born, rows, published, flight, proc, drained>>

(* autoCommit: the broker learns of any prefix of what eachMessage handled. *)
Commit ==
  /\ proc # "down"
  /\ \E c \in committed + 1 .. pos : committed' = c
  /\ UNCHANGED <<now, log, pos, gen, born, windows, rows, published, flight, proc,
                 drained, damaged>>

Mut_RebalanceBelowCommitted ==
  /\ proc # "down" /\ committed < pos /\ gen < MaxRewinds
  /\ pos' = committed - 1 /\ gen' = gen + 1
  /\ UNCHANGED <<now, log, committed, born, windows, rows, published, flight, proc,
                 drained, damaged>>

(* A rebalance: the consumer rejoins its group and fetches again from the   *)
(* committed offset, the windows being what they were.                      *)
Rebalance ==
  /\ proc # "down"
  /\ committed < pos
  /\ gen < MaxRewinds
  /\ pos' = committed
  /\ gen' = gen + 1
  /\ UNCHANGED <<now, log, committed, born, windows, rows, published, flight, proc,
                 drained, damaged>>

-----------------------------------------------------------------------------
(* A flush: flush1mAggregates and flush15mAggregates.                       *)

Mut_ReadyWithOpenBucket(k) ==
  [key \in Key |-> IF key[1] = k /\ key[2] <= Bucket(k, now) THEN windows[key] ELSE {}]
Mut_ReadyOneBucketLate(k) ==
  [key \in Key |-> IF key[1] = k /\ key[2] + 1 < Bucket(k, now) THEN windows[key] ELSE {}]

(* getReadyAggregates *)
Ready(k) == [key \in Key |-> IF key[1] = k /\ Closed(key) THEN windows[key] ELSE {}]

(* The part of a flush before its first await; it returns if nothing is ready. *)
StartFlush(f) ==
  /\ flight[f].stage = "idle"
  /\ Ready(f[1]) # NoDeliveries
  /\ flight' = [flight EXCEPT ![f] = [Idle EXCEPT !.stage = "upsert",
                                                  !.snap = Ready(f[1])]]

Mut_UpsertAdds(f) == [key \in Key |-> rows[key] \cup flight[f].snap[key]]

(* INSERT ... ON CONFLICT DO UPDATE SET ... = EXCLUDED: one statement that   *)
(* replaces the row of every window in the snapshot.                        *)
Upserted(f) ==
  [key \in Key |-> IF flight[f].snap[key] # {} THEN flight[f].snap[key] ELSE rows[key]]

Mut_ClearedOpenToo(k) == [key \in Key |-> IF key[1] = k THEN {} ELSE windows[key]]

(* clearFlushedWindows looks at the clock again. *)
Cleared(k) == [key \in Key |-> IF key[1] = k /\ Closed(key) THEN {} ELSE windows[key]]

(* getRegionalAggregates1m sums the average of every ready window. *)
RegionalInput == {key \in Key : key[1] = "1m" /\ Closed(key) /\ windows[key] # {}}

(* The end of a flush: clear, return. *)
FinishFlush(f) ==
  /\ windows' = Cleared(f[1])
  /\ flight' = [flight EXCEPT ![f] = Idle]

TimerFires(f) ==
  /\ proc = "up"
  /\ f[2] \in Timers
  /\ StartFlush(f)
  /\ UNCHANGED <<now, log, pos, committed, gen, born, windows, rows, published, proc,
                 drained, damaged>>

UpsertDone(f) ==
  /\ flight[f].stage = "upsert"
  /\ rows' = Upserted(f)
  /\ flight' = [flight EXCEPT ![f].stage = "publish"]
  /\ UNCHANGED <<now, log, pos, committed, gen, born, windows, published, proc,
                 drained, damaged>>

Mut_UpsertFailureClears(f) ==
  /\ flight[f].stage = "upsert"
  /\ rows' \in {rows, Upserted(f)}
  /\ FinishFlush(f)
  /\ UNCHANGED <<now, log, pos, committed, gen, born, published, proc, drained, damaged>>

(* The query throws, with or without having taken effect: the catch block   *)
(* ends the flush and the windows stay for the next one.                    *)
UpsertFails(f) ==
  /\ flight[f].stage = "upsert"
  /\ rows' \in {rows, Upserted(f)}
  /\ flight' = [flight EXCEPT ![f] = Idle]
  /\ UNCHANGED <<now, log, pos, committed, gen, born, windows, published, proc,
                 drained, damaged>>

Mut_PublishRereadsWindows(f) ==
  /\ flight[f].stage = "publish"
  /\ published' = published \cup {[key |-> key, content |-> windows[key]] :
                                   key \in {j \in Key : flight[f].snap[j] # {}}}
  /\ FinishFlush(f)
  /\ UNCHANGED <<now, log, pos, committed, gen, born, rows, proc, drained, damaged>>

(* publishAggregates never throws: after a failure, which may follow the    *)
(* delivery of part of the batch, it returns 0, and the flush goes on to    *)
(* the regional aggregates ("1m") or to the clear.                          *)
PublishReturns(f) ==
  /\ flight[f].stage = "publish"
  /\ \E sent \in SUBSET {key \in Key : flight[f].snap[key] # {}} :
       published' = published \cup
         {[key |-> key, content |-> flight[f].snap[key]] : key \in sent}
  /\ \/ /\ f[1] = "1m" /\ RegionalInput # {}
        /\ flight' = [flight EXCEPT ![f].stage = "regional",
                                    ![f].regional = RegionalInput]
        /\ UNCHANGED windows
     \/ /\ ~(f[1] = "1m" /\ RegionalInput # {})
        /\ FinishFlush(f)
  /\ UNCHANGED <<now, log, pos, committed, gen, born, rows, proc, drained, damaged>>

(* publishRegionalAggregates1m does not throw either. *)
RegionalReturns(f) ==
  /\ flight[f].stage = "regional"
  /\ FinishFlush(f)
  /\ UNCHANGED <<now, log, pos, committed, gen, born, rows, published, proc, drained,
                 damaged>>

-----------------------------------------------------------------------------
(* shutdown: stop the timers, flush "1m", then flush "15m", disconnect the  *)
(* consumer, which has been delivering all along, and exit.                 *)

ShutdownCalled ==
  /\ proc = "up"
  /\ gen < MaxRewinds
  /\ proc' = "draining"
  /\ UNCHANGED <<now, log, pos, committed, gen, born, windows, rows, published,
                 flight, drained, damaged>>

Drained(k) == k \in drained /\ flight[<<k, "shutdown">>].stage = "idle"

ShutdownFlush(k) ==
  /\ proc = "draining"
  /\ k \notin drained
  /\ k = "15m" => Drained("1m")
  /\ drained' = drained \cup {k}
  /\ \/ StartFlush(<<k, "shutdown">>)
     \/ Ready(k) = NoDeliveries /\ UNCHANGED flight
  /\ UNCHANGED <<now, log, pos, committed, gen, born, windows, rows, published, proc,
                 damaged>>

(* Whatever ends the process, the windows and the flushes are gone.  A       *)
(* committed reading that is in a window and not in the window's row is      *)
(* nowhere any more.                                                        *)
Lost(c) ==
  {key \in Key : \E d \in windows[key] : d.off <= c /\ d.off \notin Offs(rows[key])}

ProcessEnds(c) ==
  /\ proc' = "down"
  /\ drained' = {}
  /\ windows' = NoDeliveries
  /\ flight' = [f \in Flush |-> Idle]
  /\ damaged' = damaged \cup Lost(c)
  /\ committed' = c
  /\ pos' = c
  /\ gen' = gen + 1 /\ born' = gen + 1
  /\ UNCHANGED <<now, log, rows, published>>

Exit ==
  /\ proc = "draining"
  /\ \A k \in Kinds : Drained(k)
  /\ \E c \in committed .. pos : ProcessEnds(c)

Crash ==
  /\ proc # "down"
  /\ gen < MaxRewinds
  /\ ProcessEnds(committed)

Restart ==
  /\ proc = "down"
  /\ proc' = "up"
  /\ UNCHANGED <<now, log, pos, committed, gen, born, windows, rows, published,
                 flight, drained, damaged>>

-----------------------------------------------------------------------------
FlushStep(f) == UpsertDone(f) \/ UpsertFails(f) \/ PublishReturns(f) \/ RegionalReturns(f)

Next ==
  \/ Tick \/ Deliver \/ Commit \/ Rebalance
  \/ \E f \in Flush : TimerFires(f) \/ FlushStep(f)
  \/ ShutdownCalled
  \/ \E k \in Kinds : ShutdownFlush(k)
  \/ Exit \/ Crash \/ Restart

Spec == Init /\ [][Next]_vars

(* The event loop runs what is ready and the broker delivers what is there; *)
(* setInterval keeps firing; a query or a publication that was sent ends;   *)
(* TimescaleDB does not refuse every upsert for ever; the container is      *)
(* started again.                                                           *)
Fairness ==
  /\ WF_vars(Tick) /\ WF_vars(Deliver) /\ WF_vars(Restart) /\ WF_vars(Exit)
  /\ \A k \in Kinds : WF_vars(ShutdownFlush(k))
  /\ \A f \in Flush : /\ WF_vars(TimerFires(f))
                      /\ WF_vars(FlushStep(f))
                      /\ SF_vars(UpsertDone(f))

FairSpec == Spec /\ Fairness

-----------------------------------------------------------------------------
(* Types. *)
FlightType == [stage : Stage, snap : [Key -> SUBSET Delivery], regional : SUBSET Key]

TypeOK ==
  /\ now \in Times
  /\ log \in [Offsets -> Reading]
  /\ pos \in 0 .. TopicSize
  /\ committed \in 0 .. TopicSize
  /\ gen \in Gens
  /\ born \in Gens
  /\ windows \in [Key -> SUBSET Delivery]
  /\ rows \in [Key -> SUBSET Delivery]
  /\ published \subseteq [key : Key, content : SUBSET Delivery]
  /\ flight \in [Flush -> FlightType]
  /\ proc \in {"up", "draining", "down"}
  /\ drained \subseteq Kinds
  /\ damaged \subseteq Key

(* No loss.  A reading the consumer is past is, for each window size, in    *)
(* memory or in TimescaleDB, whatever flushes overlap, fail or are cut      *)
(* short, unless its window was damaged: its bucket ended while a flush of  *)
(* the kind was running, a reading came late for a bucket flushed or being  *)
(* flushed, or the process ended with a committed reading not yet stored.   *)
ConsumedIsAccounted ==
  \A k \in Kinds, o \in 1 .. pos :
    LET key == KeyOf(k, log[o])
    IN Valid(log[o]) /\ key \notin damaged
         => o \in Offs(windows[key]) \cup Offs(rows[key])

(* Completeness of what billing and the history endpoints read: the row of  *)
(* an undamaged window has every reading of that window the consumer is     *)
(* past, and is of a bucket that is over.  And no row, damaged or not,      *)
(* counts a reading twice because it was stored before a crash and came     *)
(* again after it: only a process that was itself handed a reading twice,   *)
(* after a rebalance, adds it up twice.                                     *)
StoredRowIsComplete ==
  \A key \in Key :
    /\ rows[key] # {} /\ key \notin damaged =>
         /\ Closed(key)
         /\ \A o \in 1 .. pos :
              Valid(log[o]) /\ KeyOf(key[1], log[o]) = key => o \in Offs(rows[key])
    /\ \A d, e \in rows[key] : d.off = e.off => d.born = e.born

(* What a subscriber of aggregates_1m or aggregates_15m has seen of an      *)
(* undamaged window is what the table says, so publishing comes after the   *)
(* upsert and no overlapping flush ever rewrites the row differently.       *)
PublishedMatchesRow ==
  \A p \in published : p.key \notin damaged => rows[p.key] = p.content

(* The regional aggregate is recomputed after two awaits; still it only     *)
(* sums windows of buckets that are over and, damaged ones apart, windows   *)
(* that are stored, though another flush may have cleared some meanwhile.   *)
RegionalInputIsStored ==
  \A f \in Flush : \A key \in flight[f].regional :
    Closed(key) /\ (key \in damaged \/ rows[key] # {})

(* Whoever is told of an aggregate, subscriber or region, is told of what   *)
(* the table has.                                                           *)
PublishedIsStored == PublishedMatchesRow /\ RegionalInputIsStored

(* The readings of a window, those handleMessage takes for invalid apart.   *)
Belongs == [key \in Key |-> {o \in Offsets : Valid(log[o]) /\ KeyOf(key[1], log[o]) = key}]

(* Whatever flushes overlap, fail or are cut short, the tables and topics   *)
(* are those of a processor that writes each row once, complete and from    *)
(* readings of its own, and tells of it afterwards.  A row once written is  *)
(* given up for nothing but another reading of its window.                  *)
Table == INSTANCE AggregateTable WITH
  Windows <- Key, Readings <- Offsets, belongs <- Belongs, reached <- pos,
  table <- rows, told <- published, forfeit <- damaged

ImplementsTable == Table!Spec

(* The row of an undamaged window is written once: retries, overlapping     *)
(* flushes and restarts rewrite it with the same contents.                  *)
StoredRowIsFinal ==
  [][\A key \in Key : rows[key] # {} /\ key \notin damaged' => rows'[key] = rows[key]]_vars

(* Every reading consumed for a bucket that ends is stored in the end, or   *)
(* its window has been damaged.                                             *)
ConsumedIsStored ==
  \A k \in Kinds, o \in Offsets :
    (o <= pos /\ Valid(log[o]) /\ Bucket(k, log[o].time) < Bucket(k, MaxTime))
      ~> (KeyOf(k, log[o]) \in damaged \/ o \in Offs(rows[KeyOf(k, log[o])]))

=============================================================================
