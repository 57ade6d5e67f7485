----------------------- MODULE StreamProcessor_proofs -----------------------
(***************************************************************************)
(* What holds of the two halves of the stream processor.                   *)
(*                                                                         *)
(* Of StreamAggregator, for every topic, clock, number of rewinds and       *)
(* number of overlapping flushes: its type invariant, that no consumed      *)
(* reading of an undamaged window is lost (ConsumedIsAccounted), that the   *)
(* stored row of such a window is complete, final and what was published,   *)
(* and that all this makes it a table whose rows are written once (the      *)
(* refinement of AggregateTable).  They follow from the inductive           *)
(* invariant IInv and, for the refinement, BelongInv.                       *)
(*                                                                         *)
(* Of AnomalyDetector, for all powers and thresholds: its type invariant    *)
(* and that a load that does not change is judged the same every time,      *)
(* which follow from DetectorInv.                                           *)
(***************************************************************************)
EXTENDS StreamAggregator, AnomalyDetector, TLAPS

-----------------------------------------------------------------------------
(* The inductive invariant, one part per idea.  All of it is about          *)
(* undamaged windows.                                                       *)

Sound(key) == key \notin damaged

(* The broker is never ahead of the consumer, and the bound on rewinds      *)
(* leaves room for the one that ends a shutdown.                            *)
CursorInv == committed <= pos /\ (proc = "draining" => gen <= MaxRewinds)

(* Once a window is stored, memory holds it unchanged or not at all.        *)
StoredInv ==
  \A key \in Key : Sound(key) /\ rows[key] # {} =>
    Closed(key) /\ windows[key] \in {{}, rows[key]}

(* What a flush has in its snapshot is what memory and the table have, where *)
(* they have anything.                                                      *)
SnapInv ==
  \A f \in Flush, key \in Key : flight[f].snap[key] # {} =>
    /\ flight[f].stage # "idle"
    /\ key[1] = f[1]
    /\ Sound(key) => /\ Closed(key)
                     /\ windows[key] \in {{}, flight[f].snap[key]}
                     /\ rows[key] \in {{}, flight[f].snap[key]}

(* A flush in progress has in its snapshot every window of its kind that its *)
(* clear would delete.                                                      *)
CoverInv ==
  \A f \in Flush, key \in Key :
    /\ flight[f].stage # "idle" /\ key[1] = f[1]
    /\ Closed(key) /\ windows[key] # {} /\ Sound(key)
    => flight[f].snap[key] = windows[key]

(* After its upsert returned, the table has what is in the snapshot.        *)
WrittenInv ==
  \A f \in Flush, key \in Key :
    /\ flight[f].stage \in {"publish", "regional"}
    /\ flight[f].snap[key] # {} /\ Sound(key)
    => rows[key] = flight[f].snap[key]

(* Two overlapping flushes that both hold a window agree on it.             *)
AgreeInv ==
  \A f, g \in Flush, key \in Key :
    /\ flight[f].snap[key] # {} /\ flight[g].snap[key] # {} /\ Sound(key)
    => flight[f].snap[key] = flight[g].snap[key]

(* PublishedMatchesRow; an aggregate is published of a window with readings. *)
PublishedInv ==
  \A p \in published : p.content # {} /\ (Sound(p.key) => rows[p.key] = p.content)

IInv ==
  /\ TypeOK
  /\ CursorInv
  /\ StoredInv
  /\ SnapInv
  /\ CoverInv
  /\ WrittenInv
  /\ AgreeInv
  /\ PublishedInv
  /\ RegionalInputIsStored
  /\ ConsumedIsAccounted
-----------------------------------------------------------------------------
(* Buckets: a bucket index is an instant, and buckets end in order.         *)

(* A bucket index is a number no larger than the instant. *)
LEMMA DivBounds == \A t \in Nat, w \in Nat \ {0} : t \div w \in Nat /\ t \div w <= t
  OBVIOUS

(* A later instant is in the same bucket or a later one. *)
LEMMA DivMono == \A t \in Nat, w \in Nat \ {0} : t \div w <= (t + 1) \div w
  OBVIOUS

(* get1MinuteBucket and get15MinuteBucket stay within the clock. *)
LEMMA BucketInTimes == ASSUME NEW k \in Kinds, NEW t \in Times
                       PROVE  Bucket(k, t) \in Times
<1>1. Width[k] \in Nat \ {0}
  BY WidthAssumption
<1>2. t \in Nat /\ t <= MaxTime /\ MaxTime \in Nat
  BY BoundsAssumption DEF Times
<1> QED BY <1>1, <1>2, DivBounds DEF Bucket, Times

(* A bucket that is over stays over. *)
LEMMA ClosedStays == ASSUME TypeOK, Tick, NEW key \in Key, Closed(key)
                     PROVE  Closed(key)'
<1>1. Width[key[1]] \in Nat \ {0} /\ key[2] \in Nat
  BY WidthAssumption, BoundsAssumption DEF Key, Times
<1>2. now \in Nat /\ now' = now + 1
  BY BoundsAssumption DEF TypeOK, Times, Tick
<1>3. Bucket(key[1], now) <= Bucket(key[1], now + 1)
  BY <1>1, <1>2, DivMono DEF Bucket
<1>4. Bucket(key[1], now) \in Nat /\ Bucket(key[1], now + 1) \in Nat
  BY <1>1, <1>2, DivBounds DEF Bucket
<1> QED BY <1>1, <1>2, <1>3, <1>4 DEF Closed, Bucket

(* Every reading has a window of every kind. *)
LEMMA KeyOfInKey == ASSUME NEW k \in Kinds, NEW r \in Reading
                    PROVE  KeyOf(k, r) \in Key /\ KeyOf(k, r)[1] = k
  BY BucketInTimes DEF KeyOf, Key, Reading

-----------------------------------------------------------------------------
(* Types. *)

(* A flush that is not running has the type of a flush. *)
LEMMA IdleType == Idle \in FlightType /\ Idle.stage = "idle" /\ Idle.snap = NoDeliveries
  BY DEF Idle, FlightType, NoDeliveries, Stage

(* getReadyAggregates returns contents of windows. *)
LEMMA ReadyType == ASSUME TypeOK, NEW k PROVE Ready(k) \in [Key -> SUBSET Delivery]
  BY DEF Ready, TypeOK

(* The upsert leaves contents of windows in the table. *)
LEMMA UpsertedType == ASSUME TypeOK, NEW f \in Flush
                      PROVE  Upserted(f) \in [Key -> SUBSET Delivery]
  BY DEF Upserted, TypeOK, FlightType

(* clearFlushedWindows leaves contents of windows in memory. *)
LEMMA ClearedType == ASSUME TypeOK, NEW k PROVE Cleared(k) \in [Key -> SUBSET Delivery]
  BY DEF Cleared, TypeOK

(* The start of a flush keeps the type of the flushes. *)
LEMMA StartType == ASSUME TypeOK, NEW f \in Flush, StartFlush(f)
                   PROVE  flight' \in [Flush -> FlightType]
<1>1. [Idle EXCEPT !.stage = "upsert", !.snap = Ready(f[1])] \in FlightType
  BY IdleType, ReadyType DEF FlightType, Stage
<1> QED BY <1>1 DEF StartFlush, TypeOK

(* The end of a flush keeps the types it touches. *)
LEMMA FinishType == ASSUME TypeOK, NEW f \in Flush, FinishFlush(f)
                    PROVE  flight' \in [Flush -> FlightType] /\ windows' \in [Key -> SUBSET Delivery]
  BY IdleType, ClearedType DEF FinishFlush, TypeOK

(* The initial state has the types. *)
LEMMA InitType == Init => TypeOK /\ CursorInv
  BY IdleType, BoundsAssumption DEF Init, CursorInv, TypeOK, Times, Gens, NoDeliveries

(* Every step keeps the types and committed <= pos. *)
LEMMA NextType == TypeOK /\ CursorInv /\ [Next]_vars => TypeOK' /\ CursorInv'
<1> SUFFICES ASSUME TypeOK, CursorInv, [Next]_vars PROVE TypeOK' /\ CursorInv'
  OBVIOUS
<1> USE BoundsAssumption DEF CursorInv
<1>1. CASE Tick
  BY <1>1 DEF Tick, TypeOK, Times
<1>2. CASE Deliver
  <2>1. pos + 1 \in Offsets /\ gen \in Gens /\ born \in Gens
    BY <1>2 DEF Deliver, TypeOK, Offsets
  <2>2. [off |-> pos + 1, gen |-> gen, born |-> born] \in Delivery
    BY <2>1 DEF Delivery
  <2>3. windows' \in [Key -> SUBSET Delivery] /\ damaged' \subseteq Key
    <3>1. log[pos + 1] \in Reading
      BY <2>1 DEF TypeOK
    <3>2. Touched(log[pos + 1]) \subseteq Key
      BY <3>1, KeyOfInKey DEF Touched
    <3> QED BY <1>2, <2>2, <3>2 DEF Deliver, TypeOK
  <2> QED BY <1>2, <2>3 DEF Deliver, TypeOK
<1>3. CASE Commit
  BY <1>3 DEF Commit, TypeOK
<1>4. CASE Rebalance
  BY <1>4 DEF Rebalance, TypeOK, Gens
<1>5. CASE \E f \in Flush : TimerFires(f) \/ FlushStep(f)
  <2> PICK f \in Flush : TimerFires(f) \/ FlushStep(f)
    BY <1>5
  <2>1. CASE TimerFires(f)
    BY <2>1, StartType DEF TimerFires, TypeOK
  <2>2. CASE UpsertDone(f)
    BY <2>2, UpsertedType DEF UpsertDone, TypeOK, FlightType, Stage
  <2>3. CASE UpsertFails(f)
    BY <2>3, UpsertedType, IdleType DEF UpsertFails, TypeOK
  <2>4. CASE PublishReturns(f)
    <3>1. published' \subseteq [key : Key, content : SUBSET Delivery]
      BY <2>4 DEF PublishReturns, TypeOK, FlightType
    <3>2. flight' \in [Flush -> FlightType] /\ windows' \in [Key -> SUBSET Delivery]
      <4>1. CASE FinishFlush(f)
        BY <4>1, FinishType
      <4>2. CASE /\ flight' = [flight EXCEPT ![f].stage = "regional",
                                             ![f].regional = RegionalInput]
                 /\ UNCHANGED windows
        BY <4>2 DEF TypeOK, FlightType, Stage, RegionalInput
      <4> QED BY <2>4, <4>1, <4>2 DEF PublishReturns
    <3> QED BY <2>4, <3>1, <3>2 DEF PublishReturns, TypeOK
  <2>5. CASE RegionalReturns(f)
    BY <2>5, FinishType DEF RegionalReturns, TypeOK
  <2> QED BY <2>1, <2>2, <2>3, <2>4, <2>5 DEF FlushStep
<1>6. CASE ShutdownCalled
  BY <1>6 DEF ShutdownCalled, TypeOK, Gens
<1>7. CASE \E k \in Kinds : ShutdownFlush(k)
  <2> PICK k \in Kinds : ShutdownFlush(k)
    BY <1>7
  <2>1. <<k, "shutdown">> \in Flush
    BY DEF Flush
  <2>2. flight' \in [Flush -> FlightType]
    BY <2>1, StartType DEF ShutdownFlush, TypeOK
  <2> QED BY <2>2 DEF ShutdownFlush, TypeOK
<1>8. CASE Exit \/ Crash
  <2> PICK c \in committed .. pos : ProcessEnds(c)
    <3>1. CASE Exit
      BY <3>1 DEF Exit
    <3>2. CASE Crash
      BY <3>2 DEF Crash, TypeOK
    <3> QED BY <1>8, <3>1, <3>2
  <2>1. gen <= MaxRewinds
    BY <1>8 DEF Exit, Crash, TypeOK, Gens
  <2>2. c \in 0 .. TopicSize
    BY DEF TypeOK
  <2>3. NoDeliveries \in [Key -> SUBSET Delivery] /\ Lost(c) \subseteq Key
    BY DEF NoDeliveries, Lost
  <2> QED BY <2>1, <2>2, <2>3, IdleType DEF ProcessEnds, TypeOK, Gens
<1>9. CASE Restart
  BY <1>9 DEF Restart, TypeOK
<1>10. CASE UNCHANGED vars
  BY <1>10 DEF vars, TypeOK
<1> QED BY <1>1, <1>2, <1>3, <1>4, <1>5, <1>6, <1>7, <1>8, <1>9, <1>10 DEF Next

-----------------------------------------------------------------------------
(* The inductive invariant, action by action. *)

(* The parts that are about the windows, the rows and the flushes. *)
FlushInv == StoredInv /\ SnapInv /\ CoverInv /\ WrittenInv /\ AgreeInv
              /\ PublishedInv /\ RegionalInputIsStored

(* The initial state satisfies the inductive invariant. *)
LEMMA InitIInv == Init => IInv
<1> SUFFICES ASSUME Init PROVE IInv
  OBVIOUS
<1>1. TypeOK /\ CursorInv
  BY InitType
<1>2. \A key \in Key : windows[key] = {} /\ rows[key] = {}
  BY DEF Init, NoDeliveries
<1>3. \A f \in Flush : /\ flight[f].stage = "idle" /\ flight[f].regional = {}
                      /\ \A key \in Key : flight[f].snap[key] = {}
  BY DEF Init, Idle, NoDeliveries
<1>4. StoredInv /\ SnapInv /\ CoverInv /\ WrittenInv /\ AgreeInv
  BY <1>2, <1>3 DEF StoredInv, SnapInv, CoverInv, WrittenInv, AgreeInv
<1>5. PublishedInv /\ RegionalInputIsStored
  BY <1>3 DEF Init, PublishedInv, RegionalInputIsStored
<1>6. ConsumedIsAccounted
  BY BoundsAssumption DEF Init, ConsumedIsAccounted
<1> QED BY <1>1, <1>4, <1>5, <1>6 DEF IInv

(* A step that leaves the clock, the windows, the rows, the flushes, what   *)
(* was published and the damaged windows alone.                             *)
LEMMA FlushFrame ==
  ASSUME FlushInv, UNCHANGED <<now, windows, rows, flight, published, damaged>>
  PROVE  FlushInv'
  BY DEF FlushInv, StoredInv, SnapInv, CoverInv, WrittenInv, AgreeInv, PublishedInv,
         RegionalInputIsStored, Closed, Sound

(* The clock: closed buckets stay closed, and a window that a running flush *)
(* did not see is damaged when its bucket ends.                             *)
LEMMA TickStep == ASSUME TypeOK, FlushInv, Tick PROVE FlushInv'
<1>1. \A key \in Key : Closed(key) => Closed(key)'
  BY ClosedStays
<1>2. \A key \in Key : Sound(key)' => Sound(key)
  BY DEF Tick, Sound
<1>3. StoredInv' /\ PublishedInv'
  BY <1>1, <1>2 DEF FlushInv, StoredInv, PublishedInv, Tick, TypeOK
<1>4. SnapInv'
  BY <1>1, <1>2 DEF FlushInv, SnapInv, Tick
<1>5. WrittenInv' /\ AgreeInv'
  BY <1>2 DEF FlushInv, WrittenInv, AgreeInv, Tick
<1>6. RegionalInputIsStored'
  BY <1>1 DEF FlushInv, RegionalInputIsStored, Tick, TypeOK, FlightType
<1>7. CoverInv'
  <2> SUFFICES ASSUME NEW f \in Flush, NEW key \in Key,
                      (flight[f].stage # "idle")', key[1] = f[1],
                      Closed(key)', (windows[key] # {})', Sound(key)'
               PROVE  (flight[f].snap[key] = windows[key])'
    BY DEF CoverInv
  <2>1. InFlight(key[1])
    BY DEF Tick, InFlight
  <2>2. Closed(key)
    BY <2>1 DEF Tick, Closing, Closed, Sound
  <2> QED BY <1>2, <2>2 DEF FlushInv, CoverInv, Tick
<1> QED BY <1>3, <1>4, <1>5, <1>6, <1>7 DEF FlushInv

(* A delivery that leaves a window sound found its bucket open, or neither  *)
(* stored nor being flushed.                                                *)
LEMMA DeliverStep == ASSUME TypeOK, FlushInv, Deliver PROVE FlushInv'
<1>1. \A key \in Key : Closed(key) <=> Closed(key)'
  BY DEF Deliver, Closed
<1>2. \A key \in Key : Sound(key)' => Sound(key)
  BY DEF Deliver, Sound
<1>3. \A key \in Key : Sound(key)' =>
         windows'[key] = windows[key] \/ ~Closed(key) \/ (rows[key] = {} /\ ~InFlight(key[1]))
  BY DEF Deliver, LateFor, Sound, TypeOK
<1>4. \A f \in Flush, key \in Key :
         flight[f].stage # "idle" /\ key[1] = f[1] => InFlight(key[1])
  BY DEF InFlight
<1>5. UNCHANGED <<rows, flight, published>>
  BY DEF Deliver
<1>6. StoredInv'
  BY <1>1, <1>2, <1>3, <1>5 DEF FlushInv, StoredInv
<1>7. SnapInv'
  BY <1>1, <1>2, <1>3, <1>4, <1>5 DEF FlushInv, SnapInv
<1>8. CoverInv'
  BY <1>1, <1>2, <1>3, <1>4, <1>5 DEF FlushInv, CoverInv
<1>9. WrittenInv' /\ AgreeInv'
  BY <1>2, <1>5 DEF FlushInv, WrittenInv, AgreeInv
<1>10. PublishedInv' /\ RegionalInputIsStored'
  BY <1>1, <1>2, <1>5 DEF FlushInv, PublishedInv, RegionalInputIsStored, TypeOK, FlightType, Sound
<1> QED BY <1>6, <1>7, <1>8, <1>9, <1>10 DEF FlushInv

(* A flush starts: its snapshot is what memory holds of the buckets that    *)
(* are over, so it agrees with the flushes already running.                 *)
LEMMA StartStep ==
  ASSUME TypeOK, FlushInv, NEW f \in Flush, StartFlush(f),
         UNCHANGED <<now, windows, rows, published, damaged>>
  PROVE  FlushInv'
<1>1. \A key \in Key : Closed(key) <=> Closed(key)'
  BY DEF Closed
<1>2. \A g \in Flush : g # f => flight'[g] = flight[g]
  BY DEF StartFlush, TypeOK
<1>3. /\ flight'[f].stage = "upsert" /\ flight'[f].regional = {}
      /\ \A key \in Key : flight'[f].snap[key] =
            IF key[1] = f[1] /\ Closed(key) THEN windows[key] ELSE {}
  BY DEF StartFlush, TypeOK, Idle, Ready, FlightType
<1>4. \A key \in Key : Sound(key) <=> Sound(key)'
  BY DEF Sound
<1>5. StoredInv' /\ PublishedInv'
  BY <1>1 DEF FlushInv, StoredInv, PublishedInv, Sound
<1>6. SnapInv'
  <2> SUFFICES ASSUME NEW g \in Flush, NEW key \in Key, flight'[g].snap[key] # {}
               PROVE  /\ flight'[g].stage # "idle"
                      /\ key[1] = g[1]
                      /\ Sound(key) => /\ Closed(key)
                                       /\ windows[key] \in {{}, flight'[g].snap[key]}
                                       /\ rows[key] \in {{}, flight'[g].snap[key]}
    BY <1>1, <1>4 DEF SnapInv
  <2>1. CASE g = f
    BY <2>1, <1>3 DEF FlushInv, StoredInv
  <2>2. CASE g # f
    BY <2>2, <1>2 DEF FlushInv, SnapInv
  <2> QED BY <2>1, <2>2
<1>7. CoverInv'
  <2> SUFFICES ASSUME NEW g \in Flush, NEW key \in Key,
                      flight'[g].stage # "idle", key[1] = g[1],
                      Closed(key), windows[key] # {}, Sound(key)
               PROVE  flight'[g].snap[key] = windows[key]
    BY <1>1, <1>4 DEF CoverInv
  <2> QED BY <1>2, <1>3 DEF FlushInv, CoverInv
<1>8. WrittenInv'
  <2> SUFFICES ASSUME NEW g \in Flush, NEW key \in Key,
                      flight'[g].stage \in {"publish", "regional"},
                      flight'[g].snap[key] # {}, Sound(key)
               PROVE  rows[key] = flight'[g].snap[key]
    BY <1>4 DEF WrittenInv
  <2> QED BY <1>2, <1>3 DEF FlushInv, WrittenInv
<1>9. AgreeInv'
  <2> SUFFICES ASSUME NEW g \in Flush, NEW h \in Flush, NEW key \in Key,
                      flight'[g].snap[key] # {}, flight'[h].snap[key] # {}, Sound(key)
               PROVE  flight'[g].snap[key] = flight'[h].snap[key]
    BY <1>4 DEF AgreeInv
  <2>1. CASE g = f /\ h # f
    BY <2>1, <1>2, <1>3 DEF FlushInv, SnapInv
  <2>2. CASE h = f /\ g # f
    BY <2>2, <1>2, <1>3 DEF FlushInv, SnapInv
  <2>3. CASE g # f /\ h # f
    BY <2>3, <1>2 DEF FlushInv, AgreeInv
  <2> QED BY <2>1, <2>2, <2>3
<1>10. RegionalInputIsStored'
  BY <1>2, <1>3 DEF FlushInv, RegionalInputIsStored, Closed
<1> QED BY <1>5, <1>6, <1>7, <1>8, <1>9, <1>10 DEF FlushInv

(* An upsert that takes effect writes what a sound window's row already     *)
(* held, if it held anything.                                               *)
LEMMA UpsertKeeps ==
  ASSUME TypeOK, FlushInv, NEW f \in Flush, NEW key \in Key, Sound(key), rows[key] # {}
  PROVE  Upserted(f)[key] = rows[key]
  BY DEF FlushInv, SnapInv, Upserted

(* The step in which the upsert takes effect keeps FlushInv. *)
LEMMA UpsertStep ==
  ASSUME TypeOK, FlushInv, NEW f \in Flush, flight[f].stage = "upsert",
         \/ rows' = Upserted(f) /\ flight' = [flight EXCEPT ![f].stage = "publish"]
         \/ rows' \in {rows, Upserted(f)} /\ flight' = [flight EXCEPT ![f] = Idle],
         UNCHANGED <<now, windows, published, damaged>>
  PROVE  FlushInv'
<1>1. \A key \in Key : (Closed(key) <=> Closed(key)') /\ (Sound(key) <=> Sound(key)')
  BY DEF Closed, Sound
<1>2. \A g \in Flush : g # f => flight'[g] = flight[g]
  BY DEF TypeOK
<1>3. \/ /\ flight'[f].stage = "publish"
         /\ flight'[f].snap = flight[f].snap /\ flight'[f].regional = flight[f].regional
         /\ rows' = Upserted(f)
      \/ /\ flight'[f].stage = "idle" /\ flight'[f].regional = {}
         /\ \A key \in Key : flight'[f].snap[key] = {}
  BY DEF TypeOK, FlightType, Idle, NoDeliveries
<1>4. \A key \in Key : Upserted(f)[key] = IF flight[f].snap[key] # {}
                                         THEN flight[f].snap[key] ELSE rows[key]
  BY DEF Upserted
<1>5. \A key \in Key : rows'[key] \in {rows[key], Upserted(f)[key]}
  BY DEF TypeOK
<1>6. \A key \in Key : Sound(key) /\ rows[key] # {} => rows'[key] = rows[key]
  BY <1>5, UpsertKeeps
<1>7. StoredInv'
  BY <1>1, <1>4, <1>5, <1>6 DEF FlushInv, StoredInv, SnapInv
<1>8. SnapInv'
  <2> SUFFICES ASSUME NEW g \in Flush, NEW key \in Key, flight'[g].snap[key] # {}
               PROVE  /\ flight'[g].stage # "idle"
                      /\ key[1] = g[1]
                      /\ Sound(key) => /\ Closed(key)
                                       /\ windows[key] \in {{}, flight'[g].snap[key]}
                                       /\ rows'[key] \in {{}, flight'[g].snap[key]}
    BY <1>1 DEF SnapInv
  <2>1. flight'[g].snap = flight[g].snap /\ flight'[g].stage # "idle"
    BY <1>2, <1>3 DEF FlushInv, SnapInv
  <2>2. Sound(key) => rows'[key] \in {{}, flight[g].snap[key]}
    BY <2>1, <1>4, <1>5 DEF FlushInv, SnapInv, AgreeInv
  <2> QED BY <2>1, <2>2 DEF FlushInv, SnapInv
<1>9. CoverInv'
  BY <1>1, <1>2, <1>3 DEF FlushInv, CoverInv
<1>10. WrittenInv'
  <2> SUFFICES ASSUME NEW g \in Flush, NEW key \in Key,
                      flight'[g].stage \in {"publish", "regional"},
                      flight'[g].snap[key] # {}, Sound(key)
               PROVE  rows'[key] = flight'[g].snap[key]
    BY <1>1 DEF WrittenInv
  <2>1. CASE g = f
    BY <2>1, <1>3, <1>4
  <2>2. CASE g # f
    BY <2>2, <1>2, <1>6 DEF FlushInv, WrittenInv
  <2> QED BY <2>1, <2>2
<1>11. AgreeInv'
  BY <1>1, <1>2, <1>3 DEF FlushInv, AgreeInv
<1>12. PublishedInv'
  BY <1>1, <1>6 DEF FlushInv, PublishedInv, TypeOK
<1>13. RegionalInputIsStored'
  <2> SUFFICES ASSUME NEW g \in Flush, NEW key \in flight'[g].regional
               PROVE  Closed(key) /\ (~Sound(key) \/ rows'[key] # {})
    BY DEF RegionalInputIsStored, Closed, Sound
  <2>1. key \in flight[g].regional /\ key \in Key
    BY <1>2, <1>3 DEF TypeOK, FlightType
  <2> QED BY <2>1, <1>6 DEF FlushInv, RegionalInputIsStored, Sound
<1> QED BY <1>7, <1>8, <1>9, <1>10, <1>11, <1>12, <1>13 DEF FlushInv

(* The end of a flush: every sound window it deletes is in the table.       *)
LEMMA ClearedIsStored ==
  ASSUME TypeOK, FlushInv, NEW f \in Flush, flight[f].stage \in {"publish", "regional"},
         NEW key \in Key, Sound(key), Cleared(f[1])[key] # windows[key]
  PROVE  rows[key] = windows[key]
<1>1. key[1] = f[1] /\ Closed(key) /\ windows[key] # {}
  BY DEF Cleared
<1>2. flight[f].snap[key] = windows[key]
  BY <1>1 DEF FlushInv, CoverInv
<1> QED BY <1>1, <1>2 DEF FlushInv, WrittenInv

(* The clear at the end of a flush keeps FlushInv, given that what it *)
(* deletes is stored or damaged. *)
LEMMA FinishStep ==
  ASSUME TypeOK, FlushInv, NEW f \in Flush, FinishFlush(f),
         UNCHANGED <<now, rows, damaged>>, PublishedInv'
  PROVE  FlushInv'
<1>1. \A key \in Key : (Closed(key) <=> Closed(key)') /\ (Sound(key) <=> Sound(key)')
  BY DEF Closed, Sound
<1>2. \A g \in Flush : g # f => flight'[g] = flight[g]
  BY DEF FinishFlush, TypeOK
<1>3. /\ flight'[f].stage = "idle" /\ flight'[f].regional = {}
      /\ \A key \in Key : flight'[f].snap[key] = {}
  BY DEF FinishFlush, TypeOK, Idle, NoDeliveries
<1>4. \A key \in Key : windows'[key] \in {{}, windows[key]}
  BY DEF FinishFlush, Cleared
<1>5. StoredInv'
  BY <1>1, <1>4 DEF FlushInv, StoredInv
<1>6. SnapInv'
  BY <1>1, <1>2, <1>3, <1>4 DEF FlushInv, SnapInv
<1>7. CoverInv'
  BY <1>1, <1>2, <1>3, <1>4 DEF FlushInv, CoverInv
<1>8. WrittenInv' /\ AgreeInv'
  BY <1>1, <1>2, <1>3 DEF FlushInv, WrittenInv, AgreeInv
<1>9. RegionalInputIsStored'
  BY <1>2, <1>3 DEF FlushInv, RegionalInputIsStored, Closed
<1> QED BY <1>5, <1>6, <1>7, <1>8, <1>9 DEF FlushInv

(* Publishing, wholly or in part, sends what the rows hold. *)
LEMMA PublishStep == ASSUME TypeOK, FlushInv, NEW f \in Flush, PublishReturns(f)
                     PROVE  FlushInv'
<1>1. PublishedInv'
  <2> SUFFICES ASSUME NEW p \in published'
               PROVE  p.content # {} /\ (Sound(p.key) => rows[p.key] = p.content)
    BY DEF PublishedInv, Sound, PublishReturns
  <2>1. CASE p \in published
    BY <2>1 DEF FlushInv, PublishedInv
  <2>2. CASE \E key \in Key : flight[f].snap[key] # {}
                            /\ p = [key |-> key, content |-> flight[f].snap[key]]
    BY <2>2 DEF FlushInv, WrittenInv, PublishReturns
  <2> QED BY <2>1, <2>2 DEF PublishReturns
<1>2. CASE FinishFlush(f)
  BY <1>1, <1>2, FinishStep DEF PublishReturns
<1>3. CASE /\ f[1] = "1m"
           /\ flight' = [flight EXCEPT ![f].stage = "regional",
                                       ![f].regional = RegionalInput]
           /\ UNCHANGED windows
  <2>1. \A g \in Flush : flight'[g].snap = flight[g].snap
    BY <1>3 DEF TypeOK, FlightType
  <2>2. \A g \in Flush : g # f => flight'[g] = flight[g]
    BY <1>3 DEF TypeOK
  <2>3. flight[f].stage = "publish" /\ flight'[f].stage = "regional"
        /\ flight'[f].regional = RegionalInput
    BY <1>3 DEF PublishReturns, TypeOK, FlightType
  <2>4. UNCHANGED <<now, windows, rows, damaged>>
    BY <1>3 DEF PublishReturns
  <2>5. \A key \in Key : (Closed(key) <=> Closed(key)') /\ (Sound(key) <=> Sound(key)')
    BY <2>4 DEF Closed, Sound
  <2>6. StoredInv'
    BY <2>4, <2>5 DEF FlushInv, StoredInv
  <2>7. SnapInv'
    BY <2>1, <2>2, <2>3, <2>4, <2>5 DEF FlushInv, SnapInv
  <2>8. CoverInv'
    BY <2>1, <2>2, <2>3, <2>4, <2>5 DEF FlushInv, CoverInv
  <2>9. WrittenInv'
    BY <2>1, <2>2, <2>3, <2>4, <2>5 DEF FlushInv, WrittenInv
  <2>10. AgreeInv'
    BY <2>1, <2>5 DEF FlushInv, AgreeInv
  <2>11. RegionalInputIsStored'
    <3> SUFFICES ASSUME NEW g \in Flush, NEW key \in flight'[g].regional
                 PROVE  Closed(key) /\ (~Sound(key) \/ rows[key] # {})
      BY <2>4 DEF RegionalInputIsStored, Closed, Sound
    <3>1. CASE g = f
      <4>1. key \in Key /\ key[1] = f[1] /\ Closed(key) /\ windows[key] # {}
        BY <3>1, <2>3, <1>3 DEF RegionalInput
      <4> QED BY <4>1, <2>3 DEF FlushInv, CoverInv, WrittenInv
    <3>2. CASE g # f
      BY <3>2, <2>2 DEF FlushInv, RegionalInputIsStored, Sound
    <3> QED BY <3>1, <3>2
  <2> QED BY <1>1, <2>6, <2>7, <2>8, <2>9, <2>10, <2>11 DEF FlushInv
<1> QED BY <1>2, <1>3 DEF PublishReturns

(* The process ends: memory is empty and no flush is in progress.           *)
LEMMA EndStep == ASSUME TypeOK, FlushInv, NEW c, ProcessEnds(c) PROVE FlushInv'
<1>1. \A key \in Key : (Closed(key) <=> Closed(key)') /\ (Sound(key)' => Sound(key))
  BY DEF ProcessEnds, Closed, Sound
<1>2. \A f \in Flush : /\ flight'[f].stage = "idle" /\ flight'[f].regional = {}
                      /\ \A key \in Key : flight'[f].snap[key] = {}
  BY DEF ProcessEnds, Idle, NoDeliveries
<1>3. \A key \in Key : windows'[key] = {}
  BY DEF ProcessEnds, NoDeliveries
<1>4. UNCHANGED <<rows, published>>
  BY DEF ProcessEnds
<1>5. StoredInv'
  BY <1>1, <1>3, <1>4 DEF FlushInv, StoredInv
<1>6. SnapInv' /\ CoverInv' /\ WrittenInv' /\ AgreeInv' /\ RegionalInputIsStored'
  BY <1>2, <1>3 DEF SnapInv, CoverInv, WrittenInv, AgreeInv, RegionalInputIsStored
<1>7. PublishedInv'
  BY <1>1, <1>4 DEF FlushInv, PublishedInv, TypeOK
<1> QED BY <1>5, <1>6, <1>7 DEF FlushInv

-----------------------------------------------------------------------------
(* Every step keeps FlushInv.                                               *)

(* Every step of a running flush keeps FlushInv. *)
LEMMA FlushStepInv == ASSUME TypeOK, FlushInv, NEW f \in Flush, FlushStep(f)
                      PROVE  FlushInv'
<1>1. CASE UpsertDone(f)
  BY <1>1, UpsertStep DEF UpsertDone
<1>2. CASE UpsertFails(f)
  BY <1>2, UpsertStep DEF UpsertFails
<1>3. CASE PublishReturns(f)
  BY <1>3, PublishStep
<1>4. CASE RegionalReturns(f)
  <2>1. PublishedInv'
    BY <1>4 DEF RegionalReturns, FlushInv, PublishedInv, Sound
  <2> QED BY <1>4, <2>1, FinishStep DEF RegionalReturns
<1> QED BY <1>1, <1>2, <1>3, <1>4 DEF FlushStep

(* Every step of the system keeps FlushInv. *)
LEMMA NextFlushInv == ASSUME TypeOK, FlushInv, [Next]_vars PROVE FlushInv'
<1>1. CASE Tick
  BY <1>1, TickStep
<1>2. CASE Deliver
  BY <1>2, DeliverStep
<1>3. CASE Commit \/ Rebalance \/ ShutdownCalled \/ Restart \/ UNCHANGED vars
  BY <1>3, FlushFrame DEF Commit, Rebalance, ShutdownCalled, Restart, vars
<1>4. CASE \E f \in Flush : TimerFires(f)
  BY <1>4, StartStep DEF TimerFires
<1>5. CASE \E f \in Flush : FlushStep(f)
  BY <1>5, FlushStepInv
<1>6. CASE \E k \in Kinds : ShutdownFlush(k)
  <2> PICK k \in Kinds : ShutdownFlush(k)
    BY <1>6
  <2>1. <<k, "shutdown">> \in Flush
    BY DEF Flush
  <2>2. CASE StartFlush(<<k, "shutdown">>)
    BY <2>1, <2>2, StartStep DEF ShutdownFlush
  <2>3. CASE UNCHANGED flight
    BY <2>3, FlushFrame DEF ShutdownFlush
  <2> QED BY <2>2, <2>3 DEF ShutdownFlush
<1>7. CASE Exit \/ Crash
  BY <1>7, EndStep DEF Exit, Crash
<1> QED BY <1>1, <1>2, <1>3, <1>4, <1>5, <1>6, <1>7 DEF Next

-----------------------------------------------------------------------------
(* No consumed reading is lost. *)

(* A window or row of a sound key that loses deliveries does so in favour   *)
(* of the other.                                                            *)
LEMMA AccountedKept ==
  ASSUME TypeOK, ConsumedIsAccounted, pos' \in Nat, pos' <= pos, log' = log,
         \A key \in Key : Sound(key)' =>
           /\ Sound(key)
           /\ \A o \in 1 .. pos' :
                o \in Offs(windows[key]) \cup Offs(rows[key])
                  => o \in Offs(windows'[key]) \cup Offs(rows'[key])
  PROVE  ConsumedIsAccounted'
<1> SUFFICES ASSUME NEW k \in Kinds, NEW o \in 1 .. pos',
                    Valid(log[o]), Sound(KeyOf(k, log[o]))'
             PROVE  o \in Offs(windows'[KeyOf(k, log[o])]) \cup Offs(rows'[KeyOf(k, log[o])])
  BY DEF ConsumedIsAccounted, Sound, KeyOf, Bucket, Valid
<1>1. o \in 1 .. pos /\ o \in Offsets
  BY BoundsAssumption DEF TypeOK, Offsets
<1>2. KeyOf(k, log[o]) \in Key
  BY <1>1, KeyOfInKey DEF TypeOK
<1> QED BY <1>1, <1>2 DEF ConsumedIsAccounted, Sound

(* A delivery puts the reading in its windows. *)
LEMMA DeliverAccounted == ASSUME TypeOK, ConsumedIsAccounted, Deliver
                          PROVE  ConsumedIsAccounted'
<1> SUFFICES ASSUME NEW k \in Kinds, NEW o \in 1 .. pos',
                    Valid(log[o]), Sound(KeyOf(k, log[o]))'
             PROVE  o \in Offs(windows'[KeyOf(k, log[o])]) \cup Offs(rows[KeyOf(k, log[o])])
  BY DEF Deliver, ConsumedIsAccounted, Sound, KeyOf, Bucket, Valid
<1> DEFINE key == KeyOf(k, log[o])
<1>1. pos' = pos + 1 /\ pos \in Nat /\ pos < TopicSize /\ o \in Offsets
  BY BoundsAssumption DEF Deliver, TypeOK, Offsets
<1>2. key \in Key /\ Sound(key)
  BY <1>1, KeyOfInKey DEF TypeOK, Deliver, Sound
<1>3. windows[key] \subseteq windows'[key]
  BY <1>2 DEF Deliver, TypeOK
<1>4. CASE o \in 1 .. pos
  BY <1>2, <1>3, <1>4 DEF ConsumedIsAccounted, Sound, Offs
<1>5. CASE o = pos + 1
  <2>1. key \in Touched(log[pos + 1])
    BY <1>5 DEF Touched
  <2>2. [off |-> pos + 1, gen |-> gen, born |-> born] \in windows'[key]
    BY <1>2, <1>5, <2>1 DEF Deliver
  <2> QED BY <1>5, <2>2 DEF Offs
<1> QED BY <1>1, <1>4, <1>5

(* The end of the process damages every window it takes a committed *)
(* reading from, and the consumer goes back to the committed offset. *)
LEMMA EndAccounted == ASSUME TypeOK, CursorInv, ConsumedIsAccounted,
                             NEW c \in committed .. pos, ProcessEnds(c)
                      PROVE  ConsumedIsAccounted'
<1>1. pos' = c /\ c \in Nat /\ c <= pos /\ log' = log
  BY BoundsAssumption DEF ProcessEnds, TypeOK
<1>2. ASSUME NEW key \in Key, Sound(key)', NEW o \in 1 .. c,
             o \in Offs(windows[key]) \cup Offs(rows[key])
      PROVE  o \in Offs(rows[key])
  BY <1>2 DEF ProcessEnds, Lost, Sound, Offs
<1>3. \A key \in Key : Sound(key)' => Sound(key)
  BY DEF ProcessEnds, Sound
<1>4. rows' = rows
  BY DEF ProcessEnds
<1> QED BY <1>1, <1>2, <1>3, <1>4, AccountedKept

(* A flush takes from memory only what is stored or damaged. *)
LEMMA FlushAccounted ==
  ASSUME TypeOK, FlushInv, ConsumedIsAccounted, NEW f \in Flush, FlushStep(f)
  PROVE  ConsumedIsAccounted'
<1>1. log' = log /\ pos' = pos /\ pos \in Nat /\ damaged' = damaged
  BY DEF FlushStep, UpsertDone, UpsertFails, PublishReturns, RegionalReturns, TypeOK
<1>2. ASSUME NEW key \in Key, Sound(key)
      PROVE  Offs(windows[key]) \cup Offs(rows[key])
               \subseteq Offs(windows'[key]) \cup Offs(rows'[key])
  <2>1. CASE UpsertDone(f) \/ UpsertFails(f)
    <3>1. windows' = windows /\ rows'[key] \in {rows[key], Upserted(f)[key]}
      BY <2>1 DEF UpsertDone, UpsertFails, TypeOK
    <3>2. rows[key] # {} => rows'[key] = rows[key]
      BY <1>2, <3>1, UpsertKeeps
    <3> QED BY <3>1, <3>2 DEF Offs
  <2>2. CASE FinishFlush(f) /\ flight[f].stage \in {"publish", "regional"} /\ rows' = rows
    <3>1. windows' = Cleared(f[1])
      BY <2>2 DEF FinishFlush
    <3>2. windows'[key] # windows[key] => rows[key] = windows[key]
      BY <1>2, <2>2, <3>1, ClearedIsStored
    <3> QED BY <2>2, <3>2
  <2>3. CASE UNCHANGED <<windows, rows>>
    BY <2>3
  <2> QED BY <2>1, <2>2, <2>3 DEF FlushStep, PublishReturns, RegionalReturns
<1> QED BY <1>1, <1>2, AccountedKept DEF Sound

(* Every step of the system keeps ConsumedIsAccounted. *)
LEMMA NextAccounted ==
  ASSUME TypeOK, CursorInv, FlushInv, ConsumedIsAccounted, [Next]_vars
  PROVE  ConsumedIsAccounted'
<1>1. pos \in Nat /\ committed \in Nat
  BY DEF TypeOK
<1>2. CASE Deliver
  BY <1>2, DeliverAccounted
<1>3. CASE Tick
  BY <1>1, <1>3, AccountedKept DEF Tick, Sound
<1>4. CASE Rebalance
  BY <1>1, <1>4, AccountedKept DEF Rebalance, Sound
<1>5. CASE \E f \in Flush : FlushStep(f)
  BY <1>5, FlushAccounted
<1>6. CASE Exit \/ Crash
  <2>1. \E c \in committed .. pos : ProcessEnds(c)
    BY <1>1, <1>6 DEF Exit, Crash, CursorInv
  <2> QED BY <2>1, EndAccounted
<1>7. CASE UNCHANGED <<log, pos, windows, rows, damaged>>
  BY <1>1, <1>7, AccountedKept DEF Sound
<1> QED BY <1>2, <1>3, <1>4, <1>5, <1>6, <1>7
        DEF Next, vars, Commit, TimerFires, ShutdownCalled, ShutdownFlush, Restart

-----------------------------------------------------------------------------
(* Where the contents of windows, snapshots and rows come from. *)

(* Contents are moved whole: out of memory, into a snapshot, into a row. *)
ContentsMove ==
  /\ \A key \in Key : windows'[key] \in {{}, windows[key]}
  /\ \A key \in Key : \/ rows'[key] = rows[key]
                       \/ \E f \in Flush : rows'[key] = flight[f].snap[key]
  /\ \A f \in Flush, key \in Key :
       flight'[f].snap[key] \in {{}, flight[f].snap[key], windows[key]}

(* Every step but a delivery only moves contents. *)
LEMMA OnlyDeliverAdds == ASSUME TypeOK, [Next]_vars PROVE Deliver \/ ContentsMove
<1>1. CASE UNCHANGED <<windows, rows, flight>>
  BY <1>1 DEF ContentsMove
<1>2. ASSUME NEW f \in Flush, StartFlush(f), UNCHANGED <<windows, rows>>
      PROVE  ContentsMove
  <2>1. \A g \in Flush, key \in Key : flight'[g].snap[key] \in {flight[g].snap[key], Ready(f[1])[key]}
    BY <1>2 DEF StartFlush, TypeOK, Idle
  <2>2. \A key \in Key : Ready(f[1])[key] \in {{}, windows[key]}
    BY DEF Ready
  <2> QED BY <1>2, <2>1, <2>2 DEF ContentsMove
<1>3. ASSUME NEW f \in Flush, FlushStep(f)
      PROVE  ContentsMove
  <2>1. \A key \in Key : windows'[key] \in {{}, windows[key]}
    BY <1>3 DEF FlushStep, UpsertDone, UpsertFails, PublishReturns, RegionalReturns,
                FinishFlush, Cleared
  <2>2. \A key \in Key : rows'[key] = rows[key] \/ rows'[key] = flight[f].snap[key]
    BY <1>3 DEF FlushStep, UpsertDone, UpsertFails, PublishReturns, RegionalReturns, Upserted
  <2>3. \A g \in Flush, key \in Key : flight'[g].snap[key] \in {{}, flight[g].snap[key]}
    <3>1. \A key \in Key : Idle.snap[key] = {}
      BY DEF Idle, NoDeliveries
    <3> QED BY <1>3, <3>1 DEF FlushStep, UpsertDone, UpsertFails, PublishReturns,
               RegionalReturns, FinishFlush, TypeOK, FlightType
  <2> QED BY <2>1, <2>2, <2>3 DEF ContentsMove
<1>4. ASSUME NEW c, ProcessEnds(c)
      PROVE  ContentsMove
  <2>1. \A key \in Key : windows'[key] = {}
    BY <1>4 DEF ProcessEnds, NoDeliveries
  <2>2. \A f \in Flush, key \in Key : flight'[f].snap[key] = {}
    BY <1>4 DEF ProcessEnds, Idle, NoDeliveries
  <2> QED BY <1>4, <2>1, <2>2 DEF ContentsMove, ProcessEnds
<1>5. CASE \E k \in Kinds : ShutdownFlush(k)
  <2> PICK k \in Kinds : ShutdownFlush(k)
    BY <1>5
  <2>1. <<k, "shutdown">> \in Flush
    BY DEF Flush
  <2> QED BY <1>1, <1>2, <2>1 DEF ShutdownFlush
<1>6. CASE \E f \in Flush : TimerFires(f)
  BY <1>2, <1>6 DEF TimerFires
<1> QED BY <1>1, <1>3, <1>4, <1>5, <1>6
        DEF Next, vars, Tick, Commit, Rebalance, ShutdownCalled, Exit, Crash, Restart

(* Memory holds what this process was handed, and a row what one process was. *)
OneProcessInv ==
  /\ \A key \in Key : \A d \in windows[key] : d.born = born
  /\ \A f \in Flush, key \in Key : \A d \in flight[f].snap[key] : d.born = born
  /\ \A key \in Key : \A d, e \in rows[key] : d.born = e.born

(* There is nothing in memory or in the tables at first. *)
LEMMA OneProcessInitially == Init => OneProcessInv
<1> SUFFICES ASSUME Init PROVE OneProcessInv
  OBVIOUS
<1>1. \A key \in Key : windows[key] = {} /\ rows[key] = {}
  BY DEF Init, NoDeliveries
<1>2. \A f \in Flush, key \in Key : flight[f].snap[key] = {}
  BY DEF Init, Idle, NoDeliveries
<1> QED BY <1>1, <1>2 DEF OneProcessInv

(* A delivery is to the process there is; the windows of a process end with *)
(* it; an upsert replaces the whole row.                                    *)
LEMMA OneProcessStep == ASSUME TypeOK, OneProcessInv, [Next]_vars PROVE OneProcessInv'
<1>1. CASE Deliver
  <2>1. \A key \in Key : windows'[key] \in
          {windows[key], windows[key] \cup {[off |-> pos + 1, gen |-> gen, born |-> born]}}
    BY <1>1 DEF Deliver, TypeOK
  <2>2. \A key \in Key : \A d \in windows'[key] : d.born = born
    BY <2>1 DEF OneProcessInv
  <2> QED BY <1>1, <2>2 DEF OneProcessInv, Deliver
<1>2. ASSUME NEW c, ProcessEnds(c) PROVE OneProcessInv'
  <2>1. \A key \in Key : windows'[key] = {}
    BY <1>2 DEF ProcessEnds, NoDeliveries
  <2>2. \A f \in Flush, key \in Key : flight'[f].snap[key] = {}
    BY <1>2 DEF ProcessEnds, Idle, NoDeliveries
  <2>3. rows' = rows
    BY <1>2 DEF ProcessEnds
  <2> QED BY <2>1, <2>2, <2>3 DEF OneProcessInv
<1>3. CASE ContentsMove /\ born' = born
  <2>1. \A key \in Key : \A d \in windows'[key] : d.born = born
    BY <1>3 DEF OneProcessInv, ContentsMove
  <2>2. \A f \in Flush, key \in Key : \A d \in flight'[f].snap[key] : d.born = born
    BY <1>3 DEF OneProcessInv, ContentsMove
  <2>3. \A key \in Key : \A d, e \in rows'[key] : d.born = e.born
    BY <1>3 DEF OneProcessInv, ContentsMove
  <2> QED BY <1>3, <2>1, <2>2, <2>3 DEF OneProcessInv
<1>4. born' = born \/ \E c : ProcessEnds(c)
  BY DEF Next, vars, Tick, Deliver, Commit, Rebalance, TimerFires, FlushStep, UpsertDone,
         UpsertFails, PublishReturns, RegionalReturns, ShutdownCalled, ShutdownFlush,
         Exit, Crash, Restart
<1> QED BY <1>1, <1>2, <1>3, <1>4, OnlyDeliverAdds

-----------------------------------------------------------------------------
(* The theorems. *)

(* IInv holds in every reachable state, for all values of the constants.    *)
THEOREM InductiveInvariant == Spec => []IInv
<1>1. Init => IInv
  BY InitIInv
<1>2. IInv /\ [Next]_vars => IInv'
  BY NextType, NextFlushInv, NextAccounted DEF IInv, FlushInv
<1> QED BY <1>1, <1>2, PTL DEF Spec

(* The variables keep their types. *)
THEOREM TypeCorrect == Spec => []TypeOK
<1>1. IInv => TypeOK
  BY DEF IInv
<1> QED BY <1>1, InductiveInvariant, PTL

(* A consumed reading of an undamaged window is in memory or in the table.  *)
THEOREM NoConsumedReadingLost == Spec => []ConsumedIsAccounted
<1>1. IInv => ConsumedIsAccounted
  BY DEF IInv
<1> QED BY <1>1, InductiveInvariant, PTL

(* The row of an undamaged window has all its consumed readings, and no row *)
(* has a reading twice that was not handed to one process twice.            *)
THEOREM StoredRowsComplete == Spec => []StoredRowIsComplete
<1>1. Spec => []OneProcessInv
  BY OneProcessInitially, OneProcessStep, InductiveInvariant, PTL DEF Spec, IInv
<1>2. IInv /\ OneProcessInv => StoredRowIsComplete
  <2>1. ASSUME IInv, NEW key \in Key, rows[key] # {}, Sound(key)
        PROVE  /\ Closed(key)
               /\ \A o \in 1 .. pos : Valid(log[o]) /\ KeyOf(key[1], log[o]) = key
                                       => o \in Offs(rows[key])
    <3>1. Closed(key) /\ windows[key] \in {{}, rows[key]}
      BY <2>1 DEF IInv, StoredInv
    <3>2. key[1] \in Kinds
      BY DEF Key
    <3> QED BY <2>1, <3>1, <3>2 DEF IInv, ConsumedIsAccounted, Sound, Offs
  <2> QED BY <2>1 DEF StoredRowIsComplete, OneProcessInv, Sound
<1> QED BY <1>1, <1>2, InductiveInvariant, PTL

(* What was published of an undamaged window is what its row says.          *)
THEOREM PublishedRowsMatch == Spec => []PublishedMatchesRow
<1>1. IInv => PublishedMatchesRow
  BY DEF IInv, PublishedInv, PublishedMatchesRow, Sound
<1> QED BY <1>1, InductiveInvariant, PTL

(* The regional aggregate sums stored windows of buckets that are over.     *)
THEOREM RegionalInputStored == Spec => []RegionalInputIsStored
<1>1. IInv => RegionalInputIsStored
  BY DEF IInv
<1> QED BY <1>1, InductiveInvariant, PTL

(* Whoever is told of an aggregate is told of what the table has.           *)
THEOREM PublishedStored == Spec => []PublishedIsStored
BY PublishedRowsMatch, RegionalInputStored, PTL DEF PublishedIsStored

(* The row of an undamaged window is never rewritten differently.           *)
THEOREM StoredRowsFinal == Spec => StoredRowIsFinal
<1>1. IInv /\ [Next]_vars =>
        [\A key \in Key : rows[key] # {} /\ key \notin damaged' => rows'[key] = rows[key]]_vars
  <2> SUFFICES ASSUME IInv, [Next]_vars, NEW key \in Key,
                      rows[key] # {}, key \notin damaged'
               PROVE  rows'[key] = rows[key]
    OBVIOUS
  <2>1. CASE UNCHANGED rows
    BY <2>1
  <2>2. CASE \E f \in Flush : UpsertDone(f) \/ UpsertFails(f)
    <3> PICK f \in Flush : UpsertDone(f) \/ UpsertFails(f)
      BY <2>2
    <3>1. rows' \in {rows, Upserted(f)} /\ Sound(key)
      BY DEF UpsertDone, UpsertFails, Sound
    <3> QED BY <3>1, UpsertKeeps DEF IInv, FlushInv
  <2> QED BY <2>1, <2>2 DEF Next, vars, Tick, Deliver, Commit, Rebalance, TimerFires,
             FlushStep, PublishReturns, RegionalReturns, ShutdownCalled, ShutdownFlush,
             Exit, Crash, ProcessEnds, Restart
<1> QED BY <1>1, InductiveInvariant, PTL DEF Spec, StoredRowIsFinal
-----------------------------------------------------------------------------
(* The table of windows, each written once.                                 *)

(* Every window, snapshot and row holds readings of its own only. *)
BelongInv ==
  /\ \A key \in Key : Offs(windows[key]) \subseteq Belongs[key] /\ Offs(rows[key]) \subseteq Belongs[key]
  /\ \A f \in Flush, key \in Key : Offs(flight[f].snap[key]) \subseteq Belongs[key]

(* A topic does not change, nor does what belongs to a window. *)
LEMMA BelongsStays == ASSUME [Next]_vars PROVE log' = log /\ Belongs' = Belongs
<1>1. log' = log
  BY DEF Next, vars, Tick, Deliver, Commit, Rebalance, TimerFires, FlushStep, UpsertDone,
         UpsertFails, PublishReturns, RegionalReturns, ShutdownCalled, ShutdownFlush,
         Exit, Crash, ProcessEnds, Restart
<1> QED BY <1>1 DEF Belongs, KeyOf, Bucket, Valid

(* No delivery, no reading. *)
LEMMA NoOffs == Offs({}) = {}
BY DEF Offs

(* A delivery more, a reading more. *)
LEMMA OffsAdd == ASSUME NEW ds, NEW d PROVE Offs(ds \cup {d}) = Offs(ds) \cup {d.off}
BY DEF Offs

(* An empty window holds nothing foreign. *)
LEMMA BelongInitially == Init => BelongInv
<1> SUFFICES ASSUME Init PROVE BelongInv
  OBVIOUS
<1>1. \A key \in Key : windows[key] = {} /\ rows[key] = {}
  BY DEF Init, NoDeliveries
<1>2. \A f \in Flush, key \in Key : flight[f].snap[key] = {}
  BY DEF Init, Idle, NoDeliveries
<1> QED BY <1>1, <1>2, NoOffs DEF BelongInv

(* A reading is put in its own windows. *)
LEMMA DeliverBelongs == ASSUME TypeOK, BelongInv, Deliver PROVE BelongInv'
<1>0. Belongs' = Belongs /\ UNCHANGED <<rows, flight>>
  BY BelongsStays DEF Deliver, Next
<1>1. ASSUME NEW key \in Key PROVE Offs(windows'[key]) \subseteq Belongs[key]
  <2> DEFINE d == [off |-> pos + 1, gen |-> gen, born |-> born]
  <2>1. CASE windows'[key] = windows[key]
    BY <2>1 DEF BelongInv
  <2>2. CASE /\ windows'[key] = windows[key] \cup {d}
             /\ key \in Touched(log[pos + 1]) /\ Valid(log[pos + 1])
    <3>1. pos + 1 \in Offsets
      BY BoundsAssumption DEF Deliver, TypeOK, Offsets
    <3>2. \E k \in Kinds : key = KeyOf(k, log[pos + 1])
      BY <2>2 DEF Touched
    <3>3. key = KeyOf(key[1], log[pos + 1])
      BY <3>1, <3>2, KeyOfInKey DEF TypeOK
    <3>4. pos + 1 \in Belongs[key]
      BY <2>2, <3>1, <3>3 DEF Belongs
    <3>5. Offs(windows'[key]) = Offs(windows[key]) \cup {d.off} /\ d.off = pos + 1
      <4>1. d.off = pos + 1
        OBVIOUS
      <4> HIDE DEF d
      <4> QED BY <2>2, <4>1, OffsAdd
    <3> QED BY <3>4, <3>5 DEF BelongInv
  <2> QED BY <2>1, <2>2 DEF Deliver, TypeOK
<1> QED BY <1>0, <1>1 DEF BelongInv

(* Every step leaves each window with readings of its own. *)
LEMMA BelongStep == ASSUME TypeOK, BelongInv, [Next]_vars PROVE BelongInv'
<1>0. Belongs' = Belongs
  BY BelongsStays
<1>1. CASE ContentsMove
  <2>1. \A key \in Key : Offs(windows'[key]) \subseteq Belongs[key]
    BY <1>1, NoOffs DEF BelongInv, ContentsMove
  <2>2. \A key \in Key : Offs(rows'[key]) \subseteq Belongs[key]
    BY <1>1 DEF BelongInv, ContentsMove
  <2>3. \A f \in Flush, key \in Key : Offs(flight'[f].snap[key]) \subseteq Belongs[key]
    BY <1>1, NoOffs DEF BelongInv, ContentsMove
  <2> QED BY <1>0, <2>1, <2>2, <2>3 DEF BelongInv
<1>2. CASE Deliver
  BY <1>2, DeliverBelongs
<1> QED BY <1>1, <1>2, OnlyDeliverAdds

(* Nothing is stored of nothing. *)
LEMMA TableInitially == Init => Table!Init
<1> SUFFICES ASSUME Init PROVE Table!Init
  OBVIOUS
<1>1. Belongs \in [Key -> SUBSET Offsets]
  BY DEF Belongs
<1> QED BY <1>1 DEF Init, NoDeliveries, Table!Init

(* A delivery consumes a reading: a stored row of its windows is given up. *)
LEMMA DeliverConsumes == ASSUME IInv, Deliver PROVE Table!Consume
<1>0. pos + 1 \in Offsets /\ log[pos + 1] \in Reading
  BY BoundsAssumption DEF IInv, TypeOK, Deliver, Offsets
<1>1. Belongs' = Belongs /\ UNCHANGED <<rows, published>> /\ pos' = pos + 1
  BY BelongsStays DEF Deliver, Next
<1>2. CASE ~Valid(log[pos + 1]) /\ UNCHANGED damaged
  <2>1. \A key \in Key : pos + 1 \notin Belongs[key]
    BY <1>2 DEF Belongs
  <2> QED BY <1>1, <1>2, <2>1 DEF Table!Consume, Table!GiveUp
<1>3. CASE /\ Valid(log[pos + 1])
           /\ damaged' = damaged \cup {key \in Touched(log[pos + 1]) : LateFor(key)}
  <2>1. \A key \in Key : pos + 1 \in Belongs[key] <=> key \in Touched(log[pos + 1])
    BY <1>0, <1>3, KeyOfInKey DEF Belongs, Touched, Key
  <2>2. Touched(log[pos + 1]) \subseteq Key
    BY <1>0, KeyOfInKey DEF Touched
  <2>3. \A key \in Key : rows[key] # {} /\ key \notin damaged => LateFor(key)
    BY DEF IInv, StoredInv, Sound, LateFor
  <2> QED BY <1>1, <1>3, <2>1, <2>2, <2>3 DEF Table!Consume, Table!GiveUp
<1> QED BY <1>2, <1>3 DEF Deliver

(* The clock gives up windows that are in memory and in no row. *)
LEMMA TickSetsBack == ASSUME IInv, BelongInv, Tick PROVE Table!SetBack
<1>1. Belongs' = Belongs /\ UNCHANGED <<pos, rows, published>> /\ pos \in Nat
  BY BelongsStays DEF Tick, Next, IInv, TypeOK
<1>2. ASSUME NEW key \in damaged' \ damaged
      PROVE  key \in Key /\ Belongs[key] # {} /\ rows[key] = {}
  <2>1. key \in Key /\ windows[key] # {} /\ ~Closed(key)
    BY <1>2 DEF Tick, Closing
  <2>2. Belongs[key] # {}
    BY <2>1 DEF BelongInv, Offs
  <2> QED BY <1>2, <2>1, <2>2 DEF IInv, StoredInv, Sound
<1>3. damaged \subseteq damaged'
  BY DEF Tick
<1> QED BY <1>1, <1>2, <1>3 DEF Table!SetBack, Table!GiveUp

(* The end of the process gives up what is in memory and in no row. *)
LEMMA EndSetsBack ==
  ASSUME IInv, BelongInv, NEW c \in committed .. pos, ProcessEnds(c)
  PROVE  Table!SetBack
<1>1. Belongs' = Belongs /\ UNCHANGED <<rows, published>> /\ pos' = c /\ c \in 0 .. pos
  BY DEF ProcessEnds, IInv, TypeOK, Belongs, KeyOf, Bucket, Valid
<1>2. ASSUME NEW key \in damaged' \ damaged
      PROVE  key \in Key /\ Belongs[key] # {} /\ rows[key] = {}
  <2>1. key \in Key /\ \E d \in windows[key] : d.off \notin Offs(rows[key])
    BY <1>2 DEF ProcessEnds, Lost
  <2>2. Belongs[key] # {}
    BY <2>1 DEF BelongInv, Offs
  <2>3. windows[key] # rows[key] /\ windows[key] # {}
    BY <2>1 DEF Offs
  <2> QED BY <1>2, <2>1, <2>2, <2>3 DEF IInv, StoredInv, Sound
<1>3. damaged \subseteq damaged'
  BY DEF ProcessEnds
<1> QED BY <1>1, <1>2, <1>3 DEF Table!SetBack, Table!GiveUp

(* An upsert writes rows that were empty, complete, or leaves them.         *)
LEMMA UpsertStores ==
  ASSUME IInv, BelongInv, NEW f \in Flush, rows' \in {rows, Upserted(f)},
         UNCHANGED <<log, pos, published, damaged>>
  PROVE  Table!Store
<1>1. Belongs' = Belongs
  BY DEF Belongs, KeyOf, Bucket, Valid
<1>2. rows' = [key \in Key |-> rows'[key]]
  BY DEF IInv, TypeOK, Upserted
<1>3. ASSUME NEW key \in Key, rows'[key] # rows[key]
      PROVE  /\ Table!Of(rows'[key]) \subseteq Belongs[key]
             /\ key \notin damaged => rows[key] = {} /\ Table!Due(key) \subseteq Table!Of(rows'[key])
  <2>1. rows'[key] = flight[f].snap[key] /\ flight[f].snap[key] # {}
    BY <1>3 DEF Upserted
  <2>2. Offs(rows'[key]) \subseteq Belongs[key]
    BY <2>1 DEF BelongInv
  <2>3. ASSUME key \notin damaged
        PROVE  rows[key] = {} /\ Table!Due(key) \subseteq Offs(rows'[key])
    <3>1. rows[key] = {} /\ windows[key] \in {{}, rows'[key]}
      BY <1>3, <2>1, <2>3 DEF IInv, SnapInv, Sound
    <3>2. ASSUME NEW o \in Table!Due(key)
          PROVE  o \in Offs(windows[key]) \cup Offs(rows[key])
      <4>1. o \in 1 .. pos /\ Valid(log[o]) /\ KeyOf(key[1], log[o]) = key
        BY BoundsAssumption DEF Table!Due, Belongs, Offsets, IInv, TypeOK
      <4>2. key[1] \in Kinds
        BY DEF Key
      <4> QED BY <2>3, <4>1, <4>2 DEF IInv, ConsumedIsAccounted
    <3> QED BY <3>1, <3>2, NoOffs
  <2> QED BY <2>2, <2>3 DEF Table!Of, Offs
<1> QED BY <1>1, <1>2, <1>3 DEF Table!Store

(* A publication tells of rows that are written. *)
LEMMA PublishTells ==
  ASSUME IInv, BelongInv, NEW f \in Flush, PublishReturns(f)
  PROVE  Table!Tell
<1>1. Belongs' = Belongs /\ UNCHANGED <<pos, rows, damaged>>
  BY DEF PublishReturns, Belongs, KeyOf, Bucket, Valid
<1>2. published \subseteq published'
  BY DEF PublishReturns
<1>3. ASSUME NEW p \in published' \ published
      PROVE  /\ p.key \in Key /\ p.content # {}
             /\ Table!Of(p.content) \subseteq Belongs[p.key]
             /\ p.key \notin damaged => p.content = rows[p.key]
  <2>1. PICK key \in Key : /\ flight[f].snap[key] # {}
                           /\ p = [key |-> key, content |-> flight[f].snap[key]]
    BY <1>3 DEF PublishReturns
  <2>2. p.key = key /\ p.content = flight[f].snap[key]
    BY <2>1
  <2>3. flight[f].stage = "publish"
    BY DEF PublishReturns
  <2> QED BY <2>1, <2>2, <2>3 DEF BelongInv, IInv, WrittenInv, Sound, Table!Of, Offs
<1> QED BY <1>1, <1>2, <1>3 DEF Table!Tell

(* Every step of the stream processor is one of the table, or none. *)
LEMMA TableStep ==
  ASSUME IInv, BelongInv, [Next]_vars
  PROVE  [Table!Next]_(Table!table_vars)
<1>0. Belongs' = Belongs
  BY BelongsStays
<1>1. CASE Deliver
  BY <1>1, DeliverConsumes DEF Table!Next
<1>2. CASE Tick
  BY <1>2, TickSetsBack DEF Table!Next
<1>3. CASE Rebalance
  <2>1. pos' \in 0 .. pos
    BY <1>3 DEF Rebalance, IInv, TypeOK
  <2>2. Table!SetBack
    BY <1>0, <1>3, <2>1 DEF Rebalance, Table!SetBack, Table!GiveUp
  <2> QED BY <2>2 DEF Table!Next
<1>4. CASE Exit \/ Crash
  <2>1. \E c \in committed .. pos : ProcessEnds(c)
    BY <1>4 DEF Exit, Crash, IInv, TypeOK, CursorInv
  <2> QED BY <2>1, EndSetsBack DEF Table!Next
<1>5. CASE \E f \in Flush : UpsertDone(f) \/ UpsertFails(f)
  BY <1>5, UpsertStores DEF UpsertDone, UpsertFails, Table!Next
<1>6. CASE \E f \in Flush : PublishReturns(f)
  BY <1>6, PublishTells DEF Table!Next
<1>7. CASE UNCHANGED <<pos, rows, published, damaged>>
  BY <1>0, <1>7 DEF Table!table_vars
<1> QED BY <1>1, <1>2, <1>3, <1>4, <1>5, <1>6, <1>7
        DEF Next, vars, Commit, TimerFires, FlushStep, RegionalReturns, ShutdownCalled,
            ShutdownFlush, Restart

(* The stream processor writes each row once, complete and from readings of *)
(* its own, tells of it afterwards, and gives a written row up for nothing  *)
(* but another reading of its window: it implements AggregateTable.         *)
THEOREM TableImplemented == Spec => ImplementsTable
<1>1. Init => BelongInv
  BY BelongInitially
<1>2. IInv /\ BelongInv /\ [Next]_vars => BelongInv'
  BY BelongStep DEF IInv
<1>3. Spec => []BelongInv
  BY <1>1, <1>2, InductiveInvariant, PTL DEF Spec
<1>4. IInv /\ BelongInv /\ [Next]_vars => [Table!Next]_(Table!table_vars)
  BY TableStep
<1> QED BY <1>3, <1>4, TableInitially, InductiveInvariant, PTL
        DEF Spec, ImplementsTable, Table!Spec

-----------------------------------------------------------------------------
(* Anomaly detection: what a meter's last reading was judged, it would be   *)
(* judged again by the baseline the meter has now.                          *)

Judged(m) == last[m].verdict # "none"

VerdictInv ==
  \A m \in MeterIds : Judged(m) =>
    /\ last[m].power \in Loads
    /\ baselineCache[m] # None
    /\ last[m].verdict = Verdict(last[m].power, Floored(baselineCache[m]))

DetectorInv == DetectorTypeOK /\ VerdictInv

(* A baseline moves towards the reading it learns from and not past it.     *)
LEMMA MovesBetween ==
  ASSUME NEW p \in Nat, NEW b \in Nat, NEW new \in Moved(b, p)
  PROVE  /\ new \in Nat
         /\ b <= p => b <= new /\ new <= p
         /\ p <= b => p <= new /\ new <= b
BY DEF Moved

(* Multiplying by a percentage keeps the order.                             *)
LEMMA TimesKeepsOrder ==
  ASSUME NEW a \in Nat, NEW b \in Nat, NEW k \in Nat, a <= b
  PROVE  a * k \in Nat /\ b * k \in Nat /\ a * k <= b * k
OBVIOUS

(* A reading that is calm stays so while the baseline moves towards it.     *)
LEMMA CalmStays ==
  ASSUME NEW p \in Nat \ {0}, NEW b \in Nat \ {0}, Verdict(p, b) = "calm",
         NEW new \in Moved(b, p)
  PROVE  new \in Nat \ {0} /\ Verdict(p, new) = "calm"
<1>0. /\ Tenth \in Nat /\ SpikePercent \in Nat /\ DropPercent \in Nat
      /\ 100 - DropPercent \in Nat
  BY DetectorAssumption
<1>1. /\ new \in Nat
      /\ b <= p => b <= new /\ new <= p
      /\ p <= b => p <= new /\ new <= b
  BY MovesBetween
<1>2. /\ ~((p - b) * 100 > b * SpikePercent)
      /\ ~((b - p) * 100 > b * DropPercent)
      /\ ~(p < Tenth /\ b > 10 * Tenth)
  BY DEF Verdict
<1>3. ~((p - new) * 100 > new * SpikePercent)
  <2>1. CASE b <= p
    <3>1. b * SpikePercent \in Nat /\ new * SpikePercent \in Nat
          /\ b * SpikePercent <= new * SpikePercent
      BY <2>1, <1>0, <1>1, TimesKeepsOrder
    <3> QED BY <2>1, <3>1, <1>1, <1>2
  <2>2. CASE p <= b
    <3>1. new * SpikePercent \in Nat
      BY <1>0, <1>1, TimesKeepsOrder
    <3> QED BY <2>2, <3>1, <1>1
  <2> QED BY <2>1, <2>2
<1>4. ~((new - p) * 100 > new * DropPercent)
  <2>1. CASE b <= p
    <3>1. new * DropPercent \in Nat
      BY <1>0, <1>1, TimesKeepsOrder
    <3> QED BY <2>1, <3>1, <1>1
  <2>2. CASE p <= b
    <3>1. new * (100 - DropPercent) <= b * (100 - DropPercent)
      BY <2>2, <1>0, <1>1, TimesKeepsOrder
    <3>2. /\ new * (100 - DropPercent) = new * 100 - new * DropPercent
          /\ b * (100 - DropPercent) = b * 100 - b * DropPercent
      BY <1>0, <1>1
    <3>3. new * DropPercent \in Nat /\ b * DropPercent \in Nat
      BY <1>0, <1>1, TimesKeepsOrder
    <3> QED BY <3>1, <3>2, <3>3, <1>1, <1>2
  <2> QED BY <2>1, <2>2
<1>5. ~(p < Tenth /\ new > 10 * Tenth)
  BY <1>0, <1>1, <1>2
<1> QED BY <1>1, <1>3, <1>4, <1>5 DEF Verdict

(* A reading that is its own baseline is calm.                              *)
LEMMA ItselfIsCalm ==
  ASSUME NEW p \in Nat \ {0}
  PROVE  Verdict(p, p) = "calm" /\ Floored(p) = p
<1>1. p * SpikePercent \in Nat /\ p * DropPercent \in Nat
  BY DetectorAssumption, TimesKeepsOrder
<1> QED BY <1>1, DetectorAssumption DEF Verdict, Floored

LEMMA FlooredIsPositive ==
  ASSUME NEW b \in Averages
  PROVE  Floored(b) \in Averages \ {0}
BY DetectorAssumption DEF Floored, Averages

(* What a reading is judged, checkReading would judge it again with the     *)
(* baseline it leaves behind.                                               *)
LEMMA JudgeKeeps ==
  ASSUME DetectorInv, NEW m \in MeterIds, NEW p \in Loads, NEW cached \in Averages,
         Judge(m, p, cached)
  PROVE  /\ last'[m] = [power |-> p, verdict |-> Verdict(p, Floored(cached))]
         /\ baselineCache'[m] \in Averages
         /\ Verdict(p, Floored(baselineCache'[m])) = Verdict(p, Floored(cached))
         /\ \A n \in MeterIds \ {m} : last'[n] = last[n] /\ baselineCache'[n] = baselineCache[n]
<1> DEFINE b == Floored(cached)
<1>0. /\ b \in Averages \ {0} /\ p \in Averages \ {0}
      /\ baselineCache \in [MeterIds -> {None} \cup Averages]
      /\ last \in [MeterIds -> [power : {None} \cup Loads, verdict : Verdicts]]
  BY FlooredIsPositive, DetectorAssumption DEF DetectorInv, DetectorTypeOK, Averages
<1>1. last' = [last EXCEPT ![m] = [power |-> p, verdict |-> Verdict(p, b)]]
  BY DEF Judge
<1>2. CASE Verdict(p, b) = "calm"
  <2>1. PICK new \in Moved(b, p) : baselineCache' = [baselineCache EXCEPT ![m] = new]
    BY <1>2 DEF Judge
  <2>2. new \in Nat \ {0} /\ Verdict(p, new) = "calm"
    BY <1>0, <1>2, CalmStays DEF Averages
  <2>3. new \in Averages
    BY <1>0, <2>1, MovesBetween, DetectorAssumption DEF Averages
  <2>4. Floored(new) = new
    BY <2>2 DEF Floored
  <2> QED BY <1>0, <1>1, <1>2, <2>1, <2>2, <2>3, <2>4
<1>3. CASE Verdict(p, b) # "calm"
  <2>1. baselineCache' = [baselineCache EXCEPT ![m] = cached]
    BY <1>3 DEF Judge
  <2> QED BY <1>0, <1>1, <2>1
<1> QED BY <1>2, <1>3

LEMMA VerdictsAre ==
  ASSUME NEW p, NEW b
  PROVE  Verdict(p, b) \in Verdicts /\ Verdict(p, b) # "none"
BY DEF Verdict, Verdicts

(* A reading judged by a baseline, from the cache or from the database.     *)
LEMMA JudgeStep ==
  ASSUME DetectorInv, NEW m \in MeterIds, NEW p \in Loads, NEW cached \in Averages,
         Judge(m, p, cached),
         readingCounts' \in [MeterIds -> 0 .. MinSampleSize - 1],
         stored' = stored, alerts' = alerts
  PROVE  DetectorInv'
<1>1. /\ last'[m] = [power |-> p, verdict |-> Verdict(p, Floored(cached))]
      /\ baselineCache'[m] \in Averages
      /\ Verdict(p, Floored(baselineCache'[m])) = Verdict(p, Floored(cached))
      /\ \A n \in MeterIds \ {m} : last'[n] = last[n] /\ baselineCache'[n] = baselineCache[n]
  BY JudgeKeeps
<1>2. /\ last' = [last EXCEPT ![m] = [power |-> p, verdict |-> Verdict(p, Floored(cached))]]
      /\ \/ \E new \in Moved(Floored(cached), p) :
              baselineCache' = [baselineCache EXCEPT ![m] = new]
         \/ baselineCache' = [baselineCache EXCEPT ![m] = cached]
      /\ at' \in {"idle", "alerting"}
      /\ at' # "idle" => meter' = m /\ power' = p
  BY DEF Judge, Ends
<1>3. DetectorTypeOK'
  <2>1. last' \in [MeterIds -> [power : {None} \cup Loads, verdict : Verdicts]]
    BY <1>2, VerdictsAre DEF DetectorInv, DetectorTypeOK
  <2>2. baselineCache' \in [MeterIds -> {None} \cup Averages]
    BY <1>1, <1>2 DEF DetectorInv, DetectorTypeOK
  <2> QED BY <1>2, <2>1, <2>2 DEF DetectorInv, DetectorTypeOK
<1>4. VerdictInv'
  <2> SUFFICES ASSUME NEW n \in MeterIds, Judged(n)'
               PROVE  /\ last'[n].power \in Loads
                      /\ baselineCache'[n] # None
                      /\ last'[n].verdict = Verdict(last'[n].power, Floored(baselineCache'[n]))
    BY DEF VerdictInv
  <2>1. CASE n = m
    BY <2>1, <1>1 DEF Averages, None
  <2>2. CASE n # m
    BY <2>2, <1>1 DEF DetectorInv, VerdictInv, Judged
  <2> QED BY <2>1, <2>2
<1> QED BY <1>3, <1>4 DEF DetectorInv

LEMMA ReadCounts ==
  ASSUME DetectorInv, NEW m \in MeterIds, NEW p \in Loads, Read(m, p)
  PROVE  readingCounts' \in [MeterIds -> 0 .. MinSampleSize - 1]
BY DetectorAssumption DEF Read, DetectorInv, DetectorTypeOK

LEMMA DetectorInitial == DetectorInit => DetectorInv
<1>1. DetectorInit => DetectorTypeOK
  BY DetectorAssumption DEF DetectorInit, DetectorTypeOK, NothingJudged, Verdicts, None
<1>2. DetectorInit => VerdictInv
  BY DEF DetectorInit, VerdictInv, Judged, NothingJudged
<1> QED BY <1>1, <1>2 DEF DetectorInv

LEMMA DetectorStep == DetectorInv /\ [DetectorNext]_detectorVars => DetectorInv'
<1> SUFFICES ASSUME DetectorInv, [DetectorNext]_detectorVars PROVE DetectorInv'
  OBVIOUS
<1>1. ASSUME NEW m \in MeterIds, NEW p \in Loads, TooFew(m, p) PROVE DetectorInv'
  <2>1. readingCounts' \in [MeterIds -> 0 .. MinSampleSize - 1]
    BY <1>1, ReadCounts DEF TooFew
  <2> QED BY <1>1, <2>1 DEF TooFew, Read, handling, DetectorInv, DetectorTypeOK, VerdictInv,
             Judged
<1>2. ASSUME NEW m \in MeterIds, NEW p \in Loads, Compare(m, p) PROVE DetectorInv'
  <2>1. baselineCache[m] \in Averages
    BY <1>2 DEF Compare, DetectorInv, DetectorTypeOK
  <2>2. readingCounts' \in [MeterIds -> 0 .. MinSampleSize - 1]
    BY <1>2, ReadCounts DEF Compare
  <2> QED BY <1>2, <2>1, <2>2, JudgeStep DEF Compare, Read
<1>3. ASSUME NEW m \in MeterIds, NEW p \in Loads, Ask(m, p) PROVE DetectorInv'
  <2>1. readingCounts' \in [MeterIds -> 0 .. MinSampleSize - 1]
    BY <1>3, ReadCounts DEF Ask
  <2> QED BY <1>3, <2>1 DEF Ask, Read, DetectorInv, DetectorTypeOK, VerdictInv, Judged
<1>4. CASE Answered
  <2>1. meter \in MeterIds /\ power \in Loads /\ stored[meter] \in Averages
    BY <1>4 DEF Answered, DetectorInv, DetectorTypeOK
  <2>2. readingCounts' \in [MeterIds -> 0 .. MinSampleSize - 1]
    BY <1>4 DEF Answered, DetectorInv, DetectorTypeOK
  <2> QED BY <1>4, <2>1, <2>2, JudgeStep DEF Answered
<1>5. CASE NotAnswered
  <2>1. /\ meter \in MeterIds /\ power \in Loads
        /\ power \in Nat \ {0} /\ power \in Averages /\ power # None
    <3>1. meter \in MeterIds /\ power \in Loads
      BY <1>5 DEF NotAnswered, DetectorInv, DetectorTypeOK
    <3> QED BY <3>1, DetectorAssumption DEF Averages, None
  <2>2. /\ baselineCache' = [baselineCache EXCEPT ![meter] = power]
        /\ last' = [last EXCEPT ![meter] = [power |-> power, verdict |-> "calm"]]
    BY <1>5 DEF NotAnswered
  <2>3. DetectorTypeOK'
    BY <1>5, <2>1, <2>2 DEF NotAnswered, Ends, DetectorInv, DetectorTypeOK, Verdicts
  <2>4. VerdictInv'
    <3> SUFFICES ASSUME NEW n \in MeterIds, Judged(n)'
                 PROVE  /\ last'[n].power \in Loads
                        /\ baselineCache'[n] # None
                        /\ last'[n].verdict = Verdict(last'[n].power, Floored(baselineCache'[n]))
      BY DEF VerdictInv
    <3>1. CASE n = meter
      <4>1. /\ last'[n] = [power |-> power, verdict |-> "calm"]
            /\ baselineCache'[n] = power
        BY <3>1, <2>2 DEF DetectorInv, DetectorTypeOK
      <4> QED BY <4>1, <2>1, ItselfIsCalm
    <3>2. CASE n # meter
      BY <3>2, <2>2 DEF DetectorInv, DetectorTypeOK, VerdictInv, Judged
    <3> QED BY <3>1, <3>2
  <2> QED BY <2>3, <2>4 DEF DetectorInv
<1>6. CASE PublishAlert
  BY <1>6 DEF PublishAlert, Ends, memory, DetectorInv, DetectorTypeOK, VerdictInv, Judged
<1>7. ASSUME NEW m \in MeterIds, NEW avg \in Loads \cup {0}, Store(m, avg)
      PROVE  DetectorInv'
  <2>1. avg \in Averages
    BY <1>7, DetectorAssumption DEF Averages
  <2> QED BY <1>7, <2>1
          DEF Store, memory, handling, DetectorInv, DetectorTypeOK, VerdictInv, Judged
<1>8. CASE DetectorRestart
  <2>1. DetectorTypeOK'
    BY <1>8, DetectorAssumption
    DEF DetectorRestart, Ends, NothingJudged, DetectorInv, DetectorTypeOK, Verdicts
  <2>2. VerdictInv'
    BY <1>8 DEF DetectorRestart, NothingJudged, VerdictInv, Judged
  <2> QED BY <2>1, <2>2 DEF DetectorInv
<1>9. CASE UNCHANGED detectorVars
  BY <1>9 DEF detectorVars, memory, handling, DetectorInv, DetectorTypeOK, VerdictInv, Judged
<1> QED BY <1>1, <1>2, <1>3, <1>4, <1>5, <1>6, <1>7, <1>8, <1>9 DEF DetectorNext

(* Anomaly detection keeps its inductive invariant: the types, and that a   *)
(* baseline never moves to where the last reading would be judged           *)
(* differently (anomalyDetector.ts, checkReading).                          *)
THEOREM DetectorInvariant == DetectorSpec => []DetectorInv
BY DetectorInitial, DetectorStep, PTL DEF DetectorSpec

(* Baselines, averages and judged readings stay within the power of a       *)
(* reading, and the database is asked for a baseline nobody has.            *)
THEOREM DetectorTypes == DetectorSpec => []DetectorTypeOK
<1>1. DetectorInv => DetectorTypeOK
  BY DEF DetectorInv
<1> QED BY <1>1, DetectorInvariant, PTL

(* A load that stays the same is judged the same, whatever the thresholds,  *)
(* wherever the baseline has moved (checkReading).                          *)
THEOREM SteadyLoads == DetectorSpec => SteadyLoadSteadyVerdict
<1>1. DetectorInv /\ [DetectorNext]_detectorVars =>
        [\A m \in MeterIds :
           last[m].verdict # "none" /\ last'[m].power = last[m].power => last'[m] = last[m]]_detectorVars
  <2> SUFFICES ASSUME DetectorInv, [DetectorNext]_detectorVars, NEW n \in MeterIds,
                      Judged(n), last'[n].power = last[n].power
               PROVE  last'[n] = last[n]
    BY DEF Judged
  <2>0. /\ last[n].power \in Loads /\ last[n].power # None
        /\ last[n] = [power |-> last[n].power, verdict |-> last[n].verdict]
        /\ baselineCache[n] # None
        /\ last[n].verdict = Verdict(last[n].power, Floored(baselineCache[n]))
    BY DetectorAssumption DEF DetectorInv, DetectorTypeOK, VerdictInv, None
  <2>1. ASSUME NEW m \in MeterIds, NEW p \in Loads, Compare(m, p)
        PROVE  last'[n] = last[n]
    <3>1. last' = [last EXCEPT ![m] = [power |-> p,
                                       verdict |-> Verdict(p, Floored(baselineCache[m]))]]
      BY <2>1 DEF Compare, Judge
    <3>2. CASE n = m
      <4>1. last'[n] = [power |-> p, verdict |-> Verdict(p, Floored(baselineCache[n]))]
        BY <3>1, <3>2 DEF DetectorInv, DetectorTypeOK
      <4> QED BY <4>1, <2>0
    <3>3. CASE n # m
      BY <3>1, <3>3 DEF DetectorInv, DetectorTypeOK
    <3> QED BY <3>2, <3>3
  <2>2. CASE Answered \/ NotAnswered
    <3>1. n # meter
      BY <2>2, <2>0 DEF Answered, NotAnswered, DetectorInv, DetectorTypeOK
    <3> QED BY <2>2, <3>1 DEF Answered, NotAnswered, Judge, DetectorInv, DetectorTypeOK
  <2>3. CASE DetectorRestart
    <3>1. last'[n].power = None
      BY <2>3 DEF DetectorRestart, NothingJudged
    <3> QED BY <3>1, <2>0
  <2>4. CASE UNCHANGED last
    BY <2>4
  <2> QED BY <2>1, <2>2, <2>3, <2>4 DEF DetectorNext, detectorVars, TooFew, Ask,
     PublishAlert, Store
<1> QED BY <1>1, DetectorInvariant, PTL DEF DetectorSpec, SteadyLoadSteadyVerdict

=============================================================================
