---------------------------- MODULE Tariff_proofs ----------------------------
(* Proofs about TariffService, for any loads, prices, numbers of requests   *)
(* and crashes.  The cache follows the table because, while nothing has     *)
(* disturbed it, one handler at most is in progress, and what that handler  *)
(* is about to put in the cache is a latest row (CalmInv).                  *)
(*                                                                         *)
(* Then about TariffGateway: the service behind the gateway's client makes  *)
(* steps of TariffService only, so what was proved of it carries over, and  *)
(* what the gateway tells operators follows from where their calls are in   *)
(* the service (CallInv, BoardInv).                                         *)
EXTENDS TariffGateway, TLAPS

(* What the consumer or a request brings to the cache or the topic has been *)
(* stored.                                                                  *)
StoredInv ==
  /\ PricesShownWereStored
  /\ \A r \in tariffs : r.price \in stored
  /\ \A p \in Slots : op[p].stage \in {"cache", "refill", "publish"}
                        => op[p].row.price \in stored

DownInv == ~up => AllIdle

CalmInv ==
  up /\ ~disturbed =>
    /\ \A p, q \in Slots : Busy(p) /\ Busy(q) => p = q
    /\ \A p \in Slots :
         /\ op[p].stage \in {"cache", "refill"} => op[p].row \in Latest(tariffs)
         /\ op[p].stage \in {"publish", "delete", "read"} => CacheIsCurrent
    /\ AllIdle => CacheIsCurrent

IInv == TypeOK /\ StoredInv /\ DownInv /\ CalmInv

-----------------------------------------------------------------------------
(* calculateTariff yields a price. *)
LEMMA PriceForType == ASSUME NEW load \in Nat PROVE PriceFor(load) \in Price
<1>1. Multiplier(load) \in {80, 90, 100, 110, 125}
  BY DEF Multiplier
<1>2. BasePrice * Multiplier(load) \in Nat
  BY <1>1, PricesAssumption
<1> QED BY <1>2 DEF PriceFor, Price

(* The initial state satisfies the inductive invariant. *)
LEMMA InitIInv == Init => IInv
<1> SUFFICES ASSUME Init PROVE IInv
  OBVIOUS
<1>1. TypeOK
  <2>1. log = <<>> /\ log \in Seq([load : Loads, at : 0 .. MaxTime]) /\ Len(log) = 0
    BY DEF Init
  <2>2. Idle \in [stage : Stage, row : Row] /\ Idle.stage = "idle"
    BY TariffBoundsAssumption DEF Idle, NoRow, Row, Price, Stage
  <2>3. op \in [Slots -> [stage : Stage, row : Row]] /\ op["consumer"].stage = "idle"
    BY <2>2 DEF Init, Slots
  <2>4. up \in BOOLEAN /\ disturbed \in BOOLEAN
    BY Zenon DEF Init
  <2> QED BY <2>1, <2>3, <2>4, TariffBoundsAssumption DEF Init, TypeOK, Busy
<1>2. StoredInv /\ DownInv
  BY DEF Init, StoredInv, DownInv, PricesShownWereStored, Idle
<1>3. CalmInv
  BY DEF Init, CalmInv, Busy, Idle, CacheIsCurrent
<1> QED BY <1>1, <1>2, <1>3 DEF IInv

(* A handler starts. *)
LEMMA StartIInv ==
  ASSUME IInv, NEW p \in Slots, NEW row \in Row,
         NEW stage \in {"insert", "delete", "read"}, Start(p, stage, row),
         UNCHANGED <<tariffs, cache, announced, up, stored>>
  PROVE  StoredInv' /\ DownInv' /\ CalmInv'
<1> USE DEF Start, Busy, TypeOK
<1>1. op' = [op EXCEPT ![p] = [stage |-> stage, row |-> row]] /\ op[p].stage = "idle" /\ up
  OBVIOUS
<1>2. op \in [Slots -> [stage : Stage, row : Row]]
  BY DEF IInv
<1>3. \A q \in Slots : op'[q] = IF q = p THEN [stage |-> stage, row |-> row] ELSE op[q]
  BY <1>1, <1>2
<1>4. StoredInv'
  BY <1>3 DEF IInv, StoredInv, PricesShownWereStored
<1>5. DownInv'
  BY <1>1 DEF DownInv
<1>6. CalmInv'
  <2> SUFFICES ASSUME up', ~disturbed'
               PROVE  CalmInv'
    BY DEF CalmInv
  <2>1. AllIdle /\ CacheIsCurrent
    BY DEF IInv, CalmInv
  <2>2. \A q \in Slots : q # p => op'[q].stage = "idle"
    BY <1>3, <2>1 DEF AllIdle
  <2>3. CacheIsCurrent'
    BY <2>1 DEF CacheIsCurrent, Latest
  <2> QED BY <1>3, <2>2, <2>3 DEF CalmInv
<1> QED BY <1>4, <1>5, <1>6

(* The variables keep their types when a handler goes on or ends. *)
LEMMA AwaitType ==
  ASSUME IInv, NEW p \in Slots, Await(p)
  PROVE  TypeOK'
<1> USE DEF IInv, TypeOK
<1>1. ASSUME NEW stage \in Stage, NEW row \in Row, Continue(p, stage, row),
             p = "consumer" => stage \in {"cache", "publish"}, op[p].stage # "idle"
      PROVE  /\ op' \in [Slots -> [stage : Stage, row : Row]]
             /\ op'["consumer"].stage \in {"idle", "insert", "cache", "publish"}
             /\ pos' = pos
             /\ op'["consumer"].stage # "idle" => pos < Len(log)
  BY <1>1 DEF Continue, Slots, Busy
<1>2. ASSUME Finish(p), op[p].stage # "idle"
      PROVE  /\ op' \in [Slots -> [stage : Stage, row : Row]]
             /\ op'["consumer"].stage \in {"idle", "insert", "cache", "publish"}
             /\ pos' \in 0 .. Len(log) /\ committed \in 0 .. pos'
             /\ op'["consumer"].stage # "idle" => pos' < Len(log)
  BY <1>2, TariffBoundsAssumption DEF Finish, Slots, Busy, Idle, NoRow, Row, Price, Stage
<1>3. p = "consumer" => op[p].stage \in {"idle", "insert", "cache", "publish"}
  OBVIOUS
<1>4. op[p].row \in Row /\ op[p].stage \in Stage
  OBVIOUS
<1>5. CASE InsertDone(p)
  BY <1>1, <1>3, <1>4, <1>5 DEF InsertDone, Inserted, Row, Busy, Stage
<1>6. CASE InsertFails(p)
  BY <1>2, <1>4, <1>6 DEF InsertFails, Inserted, Row, Busy
<1>7. CASE CacheSet(p)
  <2>1. CASE op[p].stage = "cache"
    BY <1>1, <1>4, <1>7, <2>1 DEF CacheSet, Row, Busy, Stage
  <2>2. CASE op[p].stage = "refill"
    BY <1>2, <1>4, <1>7, <2>2 DEF CacheSet, Row, Busy
  <2> QED BY <1>7, <2>1, <2>2 DEF CacheSet
<1>8. CASE CacheSetFails(p)
  BY <1>2, <1>4, <1>8 DEF CacheSetFails, Row, Busy
<1>9. CASE PublishReturns(p)
  BY <1>2, <1>4, <1>9 DEF PublishReturns, PublishTariffUpdate, Row, Busy
<1>10. CASE DeleteDone(p)
  <2>1. CASE Continue(p, "latest", op[p].row)
    BY <1>1, <1>3, <1>4, <1>10, <2>1 DEF DeleteDone, Busy, Stage
  <2>2. CASE Finish(p)
    BY <1>2, <1>10, <2>2 DEF DeleteDone, Busy
  <2> QED BY <1>10, <2>1, <2>2 DEF DeleteDone
<1>11. CASE DeleteFails(p)
  BY <1>2, <1>11 DEF DeleteFails, Busy
<1>12. CASE LatestRead(p)
  <2> DEFINE next == IF op[p].stage = "latest" THEN "cache" ELSE "refill"
  <2>1. CASE \E r \in Latest(tariffs) : Continue(p, next, r) /\ UNCHANGED disturbed
    <3> PICK r \in Latest(tariffs) : Continue(p, next, r) /\ UNCHANGED disturbed
      BY <2>1
    <3>1. r \in Row /\ next \in Stage /\ p # "consumer"
      BY <1>3, <1>12 DEF Latest, LatestRead, Stage
    <3> HIDE DEF next
    <3> QED BY <1>1, <1>12, <3>1 DEF LatestRead, Busy
  <2>2. CASE Finish(p)
    BY <1>2, <1>12, <2>2 DEF LatestRead, Busy
  <2> QED BY <1>12, <2>1, <2>2 DEF LatestRead
<1>13. CASE LatestReadFails(p)
  BY <1>2, <1>13 DEF LatestReadFails, Busy
<1> QED BY <1>5, <1>6, <1>7, <1>8, <1>9, <1>10, <1>11, <1>12, <1>13 DEF Await

(* ... and what they bring to the cache and the topic has been stored. *)
LEMMA AwaitStored ==
  ASSUME IInv, NEW p \in Slots, Await(p)
  PROVE  StoredInv'
<1> USE DEF IInv, StoredInv, PricesShownWereStored
<1>0. /\ op \in [Slots -> [stage : Stage, row : Row]] /\ Idle.stage = "idle"
      /\ op[p].row \in Row /\ tariffs \subseteq Row
      /\ {"cache", "publish", "latest", "refill"} \subseteq Stage
  BY DEF TypeOK, Idle, Stage
<1>1. ASSUME NEW stage \in Stage, NEW row \in Row, Continue(p, stage, row)
      PROVE  \A q \in Slots : op'[q] = IF q = p THEN [stage |-> stage, row |-> row] ELSE op[q]
  BY <1>0, <1>1 DEF Continue
<1>2. ASSUME Finish(p)
      PROVE  \A q \in Slots : op'[q] = IF q = p THEN Idle ELSE op[q]
  BY <1>0, <1>2 DEF Finish
<1>3. CASE InsertDone(p)
  BY <1>0, <1>3 DEF InsertDone, Inserted, Continue
<1>4. CASE InsertFails(p)
  BY <1>0, <1>2, <1>4 DEF InsertFails, Inserted
<1>5. CASE CacheSet(p)
  <2>1. CASE op[p].stage = "cache"
    <3>1. Continue(p, "publish", op[p].row)
      BY <1>5, <2>1 DEF CacheSet
    <3>2. \A q \in Slots : op'[q] = IF q = p THEN [stage |-> "publish", row |-> op[p].row] ELSE op[q]
      BY <3>1, <1>0, <1>1
    <3>3. op[p].row.price \in stored
      BY <2>1
    <3> QED BY <1>5, <2>1, <3>2, <3>3 DEF CacheSet
  <2>2. CASE op[p].stage = "refill"
    BY <1>0, <1>2, <1>5, <2>2 DEF CacheSet
  <2> QED BY <1>5, <2>1, <2>2 DEF CacheSet
<1>6. CASE CacheSetFails(p)
  BY <1>0, <1>2, <1>6 DEF CacheSetFails
<1>7. CASE PublishReturns(p)
  BY <1>0, <1>2, <1>7 DEF PublishReturns, PublishTariffUpdate
<1>8. CASE DeleteDone(p)
  <2>1. CASE Continue(p, "latest", op[p].row)
    BY <1>0, <1>8, <2>1 DEF DeleteDone, Continue
  <2>2. CASE Finish(p)
    BY <1>0, <1>2, <1>8, <2>2 DEF DeleteDone
  <2> QED BY <1>8, <2>1, <2>2 DEF DeleteDone
<1>9. CASE DeleteFails(p)
  BY <1>0, <1>2, <1>9 DEF DeleteFails
<1>10. CASE LatestRead(p)
  <2> DEFINE next == IF op[p].stage = "latest" THEN "cache" ELSE "refill"
  <2>1. CASE \E r \in Latest(tariffs) : Continue(p, next, r)
    <3> PICK r \in Latest(tariffs) : Continue(p, next, r)
      BY <2>1
    <3>1. r.price \in stored /\ r \in Row /\ next \in Stage
      BY <1>0 DEF Latest
    <3> HIDE DEF next
    <3> QED BY <1>0, <1>10, <3>1 DEF LatestRead, Continue
  <2>2. CASE Finish(p)
    BY <1>0, <1>2, <1>10, <2>2 DEF LatestRead
  <2> QED BY <1>10, <2>1, <2>2 DEF LatestRead
<1>11. CASE LatestReadFails(p)
  BY <1>0, <1>2, <1>11 DEF LatestReadFails
<1> QED BY <1>3, <1>4, <1>5, <1>6, <1>7, <1>8, <1>9, <1>10, <1>11 DEF Await

(* ... and while nothing disturbs the cache, the only handler in progress   *)
(* takes it from one current price to the next.                             *)
LEMMA AwaitCalm ==
  ASSUME IInv, NEW p \in Slots, Await(p)
  PROVE  CalmInv'
<1>a. up' = up /\ (disturbed => disturbed')
  <2>1. ASSUME InsertDone(p) PROVE up' = up /\ (disturbed => disturbed')
    BY <2>1, Zenon DEF InsertDone
  <2>2. ASSUME LatestRead(p) PROVE up' = up /\ (disturbed => disturbed')
    <3>1. disturbed' = disturbed \/ disturbed' = (disturbed \/ op[p].stage = "latest")
      BY <2>2, Zenon DEF LatestRead
    <3>2. disturbed => disturbed'
      BY <3>1, Zenon
    <3>3. up' = up
      BY <2>2, Zenon DEF LatestRead
    <3> QED BY <3>2, <3>3, Zenon
  <2>3. ASSUME InsertFails(p) \/ CacheSetFails(p) \/ DeleteFails(p) \/ LatestReadFails(p)
        PROVE  up' = up /\ (disturbed => disturbed')
    BY <2>3, Zenon DEF InsertFails, CacheSetFails, DeleteFails, LatestReadFails
  <2>4. ASSUME CacheSet(p) PROVE up' = up /\ (disturbed => disturbed')
    BY <2>4, Zenon DEF CacheSet
  <2>5. ASSUME PublishReturns(p) PROVE up' = up /\ (disturbed => disturbed')
    BY <2>5, Zenon DEF PublishReturns
  <2>6. ASSUME DeleteDone(p) PROVE up' = up /\ (disturbed => disturbed')
    BY <2>6, Zenon DEF DeleteDone
  <2> QED BY <2>1, <2>2, <2>3, <2>4, <2>5, <2>6, Zenon DEF Await
<1> SUFFICES ASSUME up, ~disturbed, ~disturbed'
             PROVE  /\ \A q, s \in Slots : Busy(q)' /\ Busy(s)' => q = s
                    /\ \A q \in Slots :
                         /\ op'[q].stage \in {"cache", "refill"} => op'[q].row \in Latest(tariffs')
                         /\ op'[q].stage \in {"publish", "delete", "read"} => CacheIsCurrent'
                    /\ AllIdle' => CacheIsCurrent'
  BY <1>a DEF CalmInv
<1>0. /\ op \in [Slots -> [stage : Stage, row : Row]] /\ Idle.stage = "idle" /\ op[p].stage # "idle"
      /\ op[p].row \in Row /\ tariffs \subseteq Row
      /\ {"cache", "publish", "latest", "refill"} \subseteq Stage
  BY DEF Stage, IInv, TypeOK, Idle, Await, InsertDone, InsertFails, CacheSet, CacheSetFails,
         PublishReturns, DeleteDone, DeleteFails, LatestRead, LatestReadFails
<1>1. \A q \in Slots : q # p => op[q].stage = "idle"
  BY <1>0 DEF IInv, CalmInv, Busy
<1>2. ASSUME NEW stage \in Stage, NEW row \in Row, Continue(p, stage, row)
      PROVE  op'[p] = [stage |-> stage, row |-> row] /\ \A q \in Slots : q # p => op'[q].stage = "idle"
  BY <1>0, <1>1, <1>2 DEF Continue
<1>3. ASSUME Finish(p)
      PROVE  \A q \in Slots : op'[q].stage = "idle"
  BY <1>0, <1>1, <1>3 DEF Finish
<1> USE DEF Busy
<1>4. ASSUME NEW stage \in Stage, NEW row \in Row, Continue(p, stage, row), stage # "idle",
             stage \in {"cache", "refill"} => row \in Latest(tariffs'),
             stage \in {"publish", "delete", "read"} => CacheIsCurrent'
      PROVE  /\ \A q, s \in Slots : Busy(q)' /\ Busy(s)' => q = s
             /\ \A q \in Slots :
                  /\ op'[q].stage \in {"cache", "refill"} => op'[q].row \in Latest(tariffs')
                  /\ op'[q].stage \in {"publish", "delete", "read"} => CacheIsCurrent'
             /\ ~AllIdle'
  <2>1. op'[p] = [stage |-> stage, row |-> row] /\ \A q \in Slots : q # p => op'[q].stage = "idle"
    BY <1>2, <1>4
  <2> QED BY <2>1, <1>4 DEF AllIdle
<1>5. ASSUME Finish(p), CacheIsCurrent'
      PROVE  /\ \A q, s \in Slots : Busy(q)' /\ Busy(s)' => q = s
             /\ \A q \in Slots :
                  /\ op'[q].stage \in {"cache", "refill"} => op'[q].row \in Latest(tariffs')
                  /\ op'[q].stage \in {"publish", "delete", "read"} => CacheIsCurrent'
             /\ AllIdle' => CacheIsCurrent'
  BY <1>3, <1>5
<1>6. CASE InsertDone(p)
  <2>1. \A q \in tariffs : ~(q.from > op[p].row.from)
    BY <1>6, Zenon DEF InsertDone
  <2>2. op[p].row \in Latest(tariffs')
    BY <1>0, <1>6, <2>1, TariffBoundsAssumption DEF InsertDone, Inserted, Latest, Row
  <2> QED BY <1>0, <1>4, <1>6, <2>2 DEF InsertDone
<1>7. CASE CacheSet(p)
  <2>1. op[p].row \in Latest(tariffs) /\ CacheIsCurrent'
    BY <1>7 DEF CacheSet, IInv, CalmInv, CacheIsCurrent
  <2> QED BY <1>0, <1>4, <1>5, <1>7, <2>1 DEF CacheSet
<1>8. CASE PublishReturns(p)
  <2>1. CacheIsCurrent'
    BY <1>8 DEF PublishReturns, IInv, CalmInv, CacheIsCurrent
  <2> QED BY <1>5, <1>8, <2>1 DEF PublishReturns
<1>9. CASE DeleteDone(p)
  <2>1. CASE Continue(p, "latest", op[p].row)
    BY <1>0, <1>4, <2>1
  <2>2. CASE op[p].row \notin tariffs /\ Finish(p)
    <3>1. tariffs' = tariffs /\ CacheIsCurrent /\ cache' = cache
      BY <1>9, <2>2 DEF DeleteDone, IInv, CalmInv
    <3> QED BY <1>5, <2>2, <3>1 DEF CacheIsCurrent
  <2> QED BY <1>9, <2>1, <2>2 DEF DeleteDone
<1>10. CASE LatestRead(p)
  <2> DEFINE next == IF op[p].stage = "latest" THEN "cache" ELSE "refill"
  <2>1. CASE \E r \in Latest(tariffs) : Continue(p, next, r)
    <3> PICK r \in Latest(tariffs) : Continue(p, next, r)
      BY <2>1
    <3>1. next \in {"cache", "refill"} /\ r \in Latest(tariffs') /\ r \in Row
      BY <1>0, <1>10 DEF LatestRead, Latest
    <3> HIDE DEF next
    <3> QED BY <1>0, <1>4, <3>1
  <2>2. CASE Finish(p) /\ op[p].stage = "read"
    <3>1. CacheIsCurrent'
      BY <1>10, <2>2 DEF LatestRead, IInv, CalmInv, CacheIsCurrent
    <3> QED BY <1>5, <2>2, <3>1
  <2> QED BY <1>10, <2>1, <2>2 DEF LatestRead
<1> QED BY <1>6, <1>7, <1>8, <1>9, <1>10
        DEF Await, InsertFails, CacheSetFails, DeleteFails, LatestReadFails

-----------------------------------------------------------------------------
(* The steps that touch neither the handlers nor what they work on. *)
LEMMA FrameIInv ==
  ASSUME StoredInv, DownInv, CalmInv,
         UNCHANGED <<tariffs, cache, announced, op, up, stored, disturbed>>
  PROVE  StoredInv' /\ DownInv' /\ CalmInv'
BY DEF StoredInv, PricesShownWereStored, DownInv, CalmInv, CacheIsCurrent, Latest, AllIdle, Busy

(* Every step keeps the inductive invariant. *)
LEMMA NextIInv == IInv /\ [Next]_vars => IInv'
<1> SUFFICES ASSUME IInv, [Next]_vars PROVE IInv'
  OBVIOUS
<1>0. StoredInv /\ DownInv /\ CalmInv /\ TypeOK
  BY DEF IInv
<1>1. CASE UNCHANGED vars
  BY <1>0, <1>1, FrameIInv DEF IInv, vars, TypeOK, Busy
<1>2. CASE Tick
  <2>1. TypeOK'
    BY <1>0, <1>2, TariffBoundsAssumption DEF Tick, TypeOK, Busy
  <2> QED BY <1>0, <1>2, <2>1, FrameIInv DEF Tick, IInv
<1>3. ASSUME NEW load \in Loads, Emit(load) PROVE IInv'
  <2>1. [load |-> load, at |-> now] \in [load : Loads, at : 0 .. MaxTime]
    BY <1>0 DEF TypeOK
  <2>2. log' \in Seq([load : Loads, at : 0 .. MaxTime]) /\ Len(log') = Len(log) + 1
    BY <1>0, <1>3, <2>1 DEF Emit, TypeOK
  <2>3. TypeOK'
    BY <1>0, <1>3, <2>2 DEF Emit, TypeOK, Busy
  <2> QED BY <1>0, <1>3, <2>3, FrameIInv DEF Emit, IInv
<1>4. CASE Commit
  <2>1. TypeOK'
    BY <1>0, <1>4 DEF Commit, TypeOK, Busy
  <2> QED BY <1>0, <1>4, <2>1, FrameIInv DEF Commit, IInv
<1>5. CASE Consume
  <2> DEFINE price == PriceFor(log[pos + 1].load)
             row   == [id |-> nextId, price |-> price, from |-> log[pos + 1].at, by |-> "AUTO"]
  <2>1. log[pos + 1] \in [load : Loads, at : 0 .. MaxTime]
    <3>1. pos + 1 \in 1 .. Len(log)
      BY <1>0, <1>5 DEF Consume, TypeOK
    <3> DEFINE S == [load : Loads, at : 0 .. MaxTime]
    <3>2. log \in Seq(S)
      BY <1>0 DEF TypeOK
    <3> HIDE DEF S
    <3>3. log[pos + 1] \in S
      BY <3>1, <3>2
    <3> QED BY <3>3 DEF S
  <2>2. price \in Price /\ row \in Row
    BY <1>0, <2>1, PriceForType, LoadsAssumption DEF TypeOK, Row
  <2>3. CASE pos' = pos + 1 /\ UNCHANGED <<lastPrice, op, nextId, disturbed>>
    <3>1. TypeOK'
      BY <1>0, <1>5, <2>3 DEF Consume, TypeOK, Busy
    <3> QED BY <1>0, <1>5, <2>3, <3>1, FrameIInv DEF Consume, IInv
  <2>4. CASE /\ lastPrice' = price /\ Start("consumer", "insert", row)
             /\ nextId' = nextId + 1 /\ UNCHANGED pos
    <3> HIDE DEF price, row
    <3>1. disturbed' \in BOOLEAN
      BY <2>4, Zenon DEF Start
    <3>2. /\ op' \in [Slots -> [stage : Stage, row : Row]]
          /\ op'["consumer"].stage = "insert"
      BY <1>0, <2>2, <2>4 DEF Start, TypeOK, Stage, Slots
    <3>3. TypeOK'
      BY <1>0, <1>5, <2>2, <2>4, <3>1, <3>2 DEF Consume, TypeOK
    <3>4. StoredInv' /\ DownInv' /\ CalmInv'
      BY <1>5, <2>2, <2>4, StartIInv DEF Consume, Slots
    <3> QED BY <3>3, <3>4 DEF IInv
  <2> QED BY <1>5, <2>3, <2>4 DEF Consume
<1>6. ASSUME NEW p \in Requests, NEW stage \in {"insert", "delete", "read"}, NEW row \in Row,
             Start(p, stage, row), NewRequest, nextId' \in Nat,
             UNCHANGED <<now, log, pos, committed, lastPrice, tariffs, cache, announced, up,
                         crashes, stored>>
      PROVE  IInv'
  <2>1. p \in Slots /\ p # "consumer"
    BY TariffBoundsAssumption DEF Slots
  <2>2. disturbed' \in BOOLEAN
    BY <1>6, Zenon DEF Start
  <2>3. /\ op' \in [Slots -> [stage : Stage, row : Row]]
        /\ op'["consumer"] = op["consumer"]
    BY <1>0, <1>6, <2>1 DEF Start, TypeOK, Stage, Slots
  <2>4. TypeOK'
    <3>1. requests' \in 0 .. MaxRequests
      BY <1>0, <1>6, TariffBoundsAssumption DEF NewRequest, TypeOK
    <3>2. up' \in BOOLEAN
      BY <1>0, <1>6, Zenon DEF TypeOK
    <3> QED BY <1>0, <1>6, <2>2, <2>3, <3>1, <3>2 DEF TypeOK, Busy
  <2>5. StoredInv' /\ DownInv' /\ CalmInv'
    BY <1>6, <2>1, StartIInv
  <2> QED BY <2>4, <2>5 DEF IInv
<1>7. ASSUME NEW p \in Requests, NEW price \in OverridePrices, Override(p, price) PROVE IInv'
  <2>1. [id |-> nextId, price |-> price, from |-> now, by |-> "MANUAL"] \in Row /\ nextId' \in Nat
    BY <1>0, <1>7, PricesAssumption DEF TypeOK, Row, Price, Override
  <2> QED BY <1>6, <1>7, <2>1 DEF Override
<1>8. ASSUME NEW p \in Requests, NEW row \in tariffs, Remove(p, row) PROVE IInv'
  <2>1. row \in Row /\ nextId' \in Nat
    BY <1>0, <1>8 DEF TypeOK, Remove
  <2> QED BY <1>6, <1>8, <2>1 DEF Remove
<1>9. ASSUME NEW p \in Requests, Get(p) PROVE IInv'
  <2>1. NoRow \in Row /\ nextId' \in Nat
    BY <1>0, <1>9, TariffBoundsAssumption DEF TypeOK, Get, NoRow, Row, Price
  <2> QED BY <1>6, <1>9, <2>1 DEF Get
<1>10. ASSUME NEW p \in Slots, Await(p) PROVE IInv'
  <2>1. DownInv'
    BY <1>0, <1>10 DEF DownInv, AllIdle, Busy, Await, InsertDone, InsertFails, CacheSet,
       CacheSetFails, PublishReturns, DeleteDone, DeleteFails, LatestRead, LatestReadFails
  <2> QED BY <1>10, <2>1, AwaitType, AwaitStored, AwaitCalm DEF IInv
<1>11. CASE Expire
  <2>1. disturbed' \in BOOLEAN /\ (~disturbed' => ~disturbed \/ AllIdle)
    BY <1>11, Zenon DEF Expire
  <2>2. TypeOK'
    BY <1>0, <1>11, <2>1 DEF Expire, TypeOK, Busy
  <2>3. StoredInv' /\ DownInv'
    BY <1>0, <1>11 DEF Expire, StoredInv, PricesShownWereStored, DownInv, AllIdle, Busy
  <2>4. CalmInv'
    BY <1>0, <1>11, <2>1 DEF Expire, CalmInv, CacheIsCurrent, AllIdle, Busy, Latest
  <2> QED BY <2>2, <2>3, <2>4 DEF IInv
<1>12. CASE Crash
  <2>1. Idle \in [stage : Stage, row : Row] /\ Idle.stage = "idle"
    BY TariffBoundsAssumption DEF Idle, NoRow, Row, Price, Stage
  <2>2. op' \in [Slots -> [stage : Stage, row : Row]] /\ \A p \in Slots : op'[p].stage = "idle"
    BY <1>12, <2>1 DEF Crash
  <2>3. "consumer" \in Slots
    BY DEF Slots
  <2>4. TypeOK'
    <3>1. pos' \in 0 .. Len(log') /\ committed' \in 0 .. pos' /\ crashes' \in 0 .. MaxCrashes
      BY <1>0, <1>12, TariffBoundsAssumption DEF Crash, Rejoin, TypeOK
    <3>2. up' \in BOOLEAN /\ disturbed' \in BOOLEAN
      BY <1>0, <1>12, Zenon DEF Crash, TypeOK
    <3> QED BY <1>0, <1>12, <2>2, <2>3, <3>1, <3>2 DEF Crash, Rejoin, TypeOK, Busy
  <2> QED BY <1>0, <1>12, <2>2, <2>4
          DEF Crash, IInv, StoredInv, PricesShownWereStored, DownInv, CalmInv, AllIdle, Busy
<1>13. CASE Restart
  <2>1. AllIdle /\ AllIdle' /\ UNCHANGED op
    BY <1>0, <1>13 DEF Restart, DownInv, AllIdle, Busy
  <2>2. disturbed' \in BOOLEAN /\ up' \in BOOLEAN
    BY <1>13, Zenon DEF Restart
  <2>3. CASE \E r \in Latest(tariffs) : cache' = r.price /\ lastPrice' = r.price
    <3> PICK r \in Latest(tariffs) : cache' = r.price /\ lastPrice' = r.price
      BY <2>3
    <3>1. r \in tariffs /\ CacheIsCurrent'
      BY <1>13 DEF Latest, CacheIsCurrent, Restart
    <3>2. TypeOK'
      BY <1>0, <1>13, <2>2, <3>1 DEF Restart, TypeOK, Row, Busy
    <3>3. StoredInv'
      BY <1>0, <1>13, <3>1 DEF Restart, StoredInv, PricesShownWereStored
    <3> QED BY <1>13, <2>1, <3>1, <3>2, <3>3 DEF IInv, DownInv, CalmInv, AllIdle, Busy
  <2>4. CASE UNCHANGED <<cache, lastPrice>> /\ disturbed' = (cache # NoPrice)
    <3>1. TypeOK'
      BY <1>0, <1>13, <2>2, <2>4 DEF Restart, TypeOK, Busy
    <3>2. StoredInv'
      BY <1>0, <1>13, <2>4 DEF Restart, StoredInv, PricesShownWereStored
    <3>3. ~disturbed' => cache' = NoPrice
      BY <2>4, Zenon
    <3> QED BY <1>13, <2>1, <3>1, <3>2, <3>3 DEF IInv, DownInv, CalmInv, CacheIsCurrent,
       AllIdle, Busy
  <2> QED BY <1>13, <2>3, <2>4 DEF Restart, PreloadTariffs, SetLastPrice
<1>14. CASE Shutdown
  <2>1. pos' = committed' /\ committed' \in 0 .. Len(log') /\ crashes' \in 0 .. MaxCrashes
    BY <1>0, <1>14, TariffBoundsAssumption DEF Shutdown, Rejoin, TypeOK
  <2>2. up' \in BOOLEAN /\ disturbed' \in BOOLEAN
    BY <1>0, <1>14, Zenon DEF Shutdown, TypeOK
  <2>3. AllIdle /\ "consumer" \in Slots /\ UNCHANGED op
    BY <1>14 DEF Shutdown, Slots
  <2>4. TypeOK'
    BY <1>0, <1>14, <2>1, <2>2, <2>3 DEF Shutdown, TypeOK, AllIdle, Busy
  <2>5. StoredInv' /\ DownInv' /\ CalmInv'
    BY <1>0, <1>14, <2>3
       DEF Shutdown, StoredInv, PricesShownWereStored, DownInv, CalmInv, AllIdle, Busy
  <2> QED BY <2>4, <2>5 DEF IInv
<1> QED BY <1>1, <1>2, <1>3, <1>4, <1>5, <1>7, <1>8, <1>9, <1>10, <1>11, <1>12, <1>13,
   <1>14 DEF Next

-----------------------------------------------------------------------------
(* The inductive invariant holds in every reachable state. *)
THEOREM TariffInvariant == Spec => []IInv
BY InitIInv, NextIInv, PTL DEF Spec

(* The variables keep their types. *)
THEOREM TariffTypes == Spec => []TypeOK
<1>1. IInv => TypeOK
  BY DEF IInv
<1> QED BY <1>1, TariffInvariant, PTL

(* A price in the cache or on tariff_updates has been in the table. *)
THEOREM PricesStoredFirst == Spec => []PricesShownWereStored
<1>1. IInv => PricesShownWereStored
  BY DEF IInv, StoredInv
<1> QED BY <1>1, TariffInvariant, PTL

(* An undisturbed cache agrees with the table between handlers. *)
THEOREM CacheFollowsTable == Spec => []CacheIsCurrentUnlessDisturbed
<1>1. IInv => CacheIsCurrentUnlessDisturbed
  BY DEF IInv, CalmInv, CacheIsCurrentUnlessDisturbed
<1> QED BY <1>1, TariffInvariant, PTL
-----------------------------------------------------------------------------
(* Nothing in the table or on its way there is stamped later than now. *)
PastInv ==
  /\ \A i \in 1 .. Len(log) : log[i].at <= now
  /\ \A r \in tariffs : r.from <= now
  /\ \A s \in Slots : op[s].row.from <= now

(* Where a call is tells what its slot of the service is doing.  A call     *)
(* that is alone has the service to itself, so its row stays a latest one   *)
(* once it is stored, and nothing but a handler that started later could    *)
(* have removed it from there.                                              *)
ServingInv(p) ==
  call[p].place = "serving" =>
    /\ call[p].ask # "none"
    /\ call[p].ask = "override" => /\ op[p].stage \in {"insert", "cache", "publish"}
                                   /\ op[p].row.price = call[p].row.price
    /\ call[p].ask = "remove"   => op[p].stage \in {"delete", "latest", "cache", "publish"}
    /\ call[p].ask = "current"  => op[p].stage \in {"read", "refill"}

AloneInv(p) ==
  call[p].alone =>
    /\ call[p].ask = "override" /\ call[p].place \in {"serving", "none"}
    /\ \A s \in Slots : Busy(s) => s = p
    /\ op[p].stage = "insert" => \A r \in tariffs : r.from <= op[p].row.from
    /\ op[p].stage \in {"cache", "publish"} => op[p].row \in Latest(tariffs)

SuccessInv(p) ==
  /\ call[p].answer = "success" => call[p].place = "none"
  /\ call[p].place = "none" /\ call[p].ask # "none" => call[p].answer = "success"
  /\ call[p].ask = "override" => call[p].row.price \in OverridePrices
  /\ call[p].ask = "override" /\ call[p].answer = "success" =>
       /\ call[p].row.price \in stored
       /\ call[p].alone => /\ \E r \in Latest(tariffs) : r.price = call[p].row.price
                           /\ ~disturbed => CacheIsCurrent

CallInv == \A p \in Requests : ServingInv(p) /\ AloneInv(p) /\ SuccessInv(p)

(* While a view is read the service runs undisturbed, nobody writes, and    *)
(* what has been read agrees with the table.                                *)
BoardInv ==
  IF board.open
  THEN /\ up /\ ~disturbed /\ CacheIsCurrent
       /\ \A s \in Slots : op[s].stage \in {"idle", "read", "refill"}
       /\ board.price # NoPrice => \E r \in Latest(tariffs) : r.price = board.price
       /\ board.by # "unread" =>
            IF board.by = "automatic" THEN tariffs = {}
            ELSE \E r \in Latest(tariffs) : r.by = board.by
  ELSE board.price = NoPrice /\ board.by = "unread"

GInv == PastInv /\ CallInv /\ BoardInv

GIInv == IInv /\ GatewayTypeOK /\ GInv

CallType == [ask : Asks, row : Row, place : Places, answer : Answers, alone : BOOLEAN]

-----------------------------------------------------------------------------
(* What has been stored stays in the history. *)
LEMMA StoredGrows == [Next]_vars => stored \subseteq stored'
<1> SUFFICES ASSUME [Next]_vars PROVE stored \subseteq stored'
  OBVIOUS
<1>1. ASSUME NEW p \in Slots, Await(p) PROVE stored \subseteq stored'
  BY <1>1 DEF Await, InsertDone, InsertFails, Inserted, CacheSet, CacheSetFails,
     PublishReturns, DeleteDone, DeleteFails, LatestRead, LatestReadFails
<1> QED BY <1>1 DEF Next, vars, Tick, Emit, Commit, Consume, Override, Remove, Get,
           Expire, Crash, Shutdown, Restart

(* A handler that goes on was in progress, and the other slots are left     *)
(* alone; one that starts was not.                                          *)
LEMMA AwaitOp ==
  ASSUME IInv, NEW p \in Slots, Await(p)
  PROVE  /\ op[p].stage # "idle" /\ Started = {} /\ up' = up
         /\ \A s \in Slots : s # p => op'[s] = op[s]
<1>1. op[p].stage # "idle" /\ up' = up
  BY DEF Await, InsertDone, InsertFails, CacheSet, CacheSetFails,
     PublishReturns, DeleteDone, DeleteFails, LatestRead, LatestReadFails
<1>2. ASSUME NEW x, op' = [op EXCEPT ![p] = x]
      PROVE  \A s \in Slots : s # p => op'[s] = op[s]
  BY <1>2 DEF IInv, TypeOK
<1>3. \A s \in Slots : s # p => op'[s] = op[s]
  <2>1. CASE InsertDone(p) \/ InsertFails(p) \/ CacheSet(p) \/ CacheSetFails(p) \/ PublishReturns(p)
    BY <1>2, <2>1 DEF InsertDone, InsertFails, CacheSet, CacheSetFails, PublishReturns,
       Finish, Continue
  <2>2. CASE DeleteDone(p) \/ DeleteFails(p) \/ LatestReadFails(p)
    BY <1>2, <2>2 DEF DeleteDone, DeleteFails, LatestReadFails, Finish, Continue
  <2>3. CASE LatestRead(p)
    BY <1>2, <2>3 DEF LatestRead, Finish, Continue
  <2> QED BY <2>1, <2>2, <2>3 DEF Await
<1> QED BY <1>1, <1>3 DEF Started, Busy

LEMMA StartOp ==
  ASSUME IInv, NEW p \in Slots, NEW stage, NEW row, Start(p, stage, row), stage # "idle"
  PROVE  /\ op[p].stage = "idle" /\ op'[p] = [stage |-> stage, row |-> row]
         /\ \A s \in Slots : s # p => op'[s] = op[s]
         /\ Started = {p}
<1>1. /\ op[p].stage = "idle" /\ op'[p] = [stage |-> stage, row |-> row]
      /\ \A s \in Slots : s # p => op'[s] = op[s]
  BY DEF Start, Busy, IInv, TypeOK
<1> QED BY <1>1 DEF Started, Busy

LEMMA StartCalm ==
  ASSUME NEW p, NEW stage, NEW row, Start(p, stage, row)
  PROVE  up /\ (~disturbed' => ~disturbed /\ AllIdle)
BY Zenon DEF Start

(* In the service's other steps nothing starts. *)
LEMMA QuietOp ==
  ASSUME IInv, op' = op \/ Crash
  PROVE  Started = {} /\ Writers = {}
<1>1. \A s \in Slots : op'[s] = op[s] \/ op'[s].stage = "idle"
  BY DEF Crash, Idle
<1> QED BY <1>1 DEF Started, Writers, Busy

LEMMA LogEntry ==
  ASSUME log \in Seq([load : Loads, at : 0 .. MaxTime]), NEW i \in 1 .. Len(log)
  PROVE  log[i].at \in 0 .. MaxTime
<1> DEFINE S == [load : Loads, at : 0 .. MaxTime]
<1>1. log \in Seq(S)
  OBVIOUS
<1> HIDE DEF S
<1>2. log[i] \in S
  BY <1>1
<1> QED BY <1>2 DEF S

(* What is stored or on its way there is never stamped later than now. *)
LEMMA PastStep == IInv /\ PastInv /\ [Next]_vars => PastInv'
<1> SUFFICES ASSUME IInv, PastInv, [Next]_vars PROVE PastInv'
  OBVIOUS
<1>0. /\ now \in 0 .. MaxTime /\ MaxTime \in Nat /\ tariffs \subseteq Row
      /\ log \in Seq([load : Loads, at : 0 .. MaxTime]) /\ pos \in 0 .. Len(log)
      /\ op \in [Slots -> [stage : Stage, row : Row]] /\ Idle.row.from = 0
  BY TariffBoundsAssumption DEF IInv, TypeOK, Idle, NoRow
<1>1. CASE UNCHANGED <<now, log, tariffs, op>>
  BY <1>1 DEF PastInv
<1>2. CASE Tick
  <2>1. \A s \in Slots : op[s].row.from \in 0 .. MaxTime
    BY <1>0 DEF Row
  <2>2. \A r \in tariffs : r.from \in 0 .. MaxTime
    BY <1>0 DEF Row
  <2>3. \A i \in 1 .. Len(log) : log[i].at \in 0 .. MaxTime
    BY <1>0, LogEntry
  <2> QED BY <1>0, <1>2, <2>1, <2>2, <2>3 DEF Tick, PastInv
<1>3. ASSUME NEW load \in Loads, Emit(load) PROVE PastInv'
  <2> DEFINE m == [load |-> load, at |-> now]
  <2>1. Len(log') = Len(log) + 1 /\ log'[Len(log) + 1] = m
        /\ \A i \in 1 .. Len(log) : log'[i] = log[i]
    BY <1>0, <1>3 DEF Emit
  <2> QED BY <1>0, <1>3, <2>1 DEF Emit, PastInv
<1>4. ASSUME NEW p \in Slots, NEW row, NEW stage, op' = [op EXCEPT ![p] = [stage |-> stage, row |-> row]],
             row.from <= now, UNCHANGED <<now, log, tariffs>>
      PROVE  PastInv'
  BY <1>0, <1>4 DEF PastInv
<1>5. CASE Consume
  <2>1. pos + 1 \in 1 .. Len(log)
    BY <1>0, <1>5 DEF Consume
  <2> DEFINE row == [id |-> nextId, price |-> PriceFor(log[pos + 1].load),
                     from |-> log[pos + 1].at, by |-> "AUTO"]
  <2>2. UNCHANGED <<now, log, tariffs>> /\ (UNCHANGED op \/ Start("consumer", "insert", row))
    BY <1>5 DEF Consume
  <2>3. row.from <= now /\ "consumer" \in Slots
    BY <2>1 DEF PastInv, Slots
  <2> HIDE DEF row
  <2> QED BY <1>1, <1>4, <2>2, <2>3 DEF Start
<1>6. ASSUME NEW p \in Requests,
             \/ \E price \in OverridePrices : Override(p, price)
             \/ \E row \in tariffs : Remove(p, row)
             \/ Get(p)
      PROVE  PastInv'
  <2>1. NoRow.from <= now /\ now <= now
    BY <1>0 DEF NoRow
  <2>2. p \in Slots
    BY DEF Slots
  <2>3. CASE Get(p)
    BY <1>4, <2>1, <2>2, <2>3 DEF Get, Start
  <2>4. ASSUME NEW row \in tariffs, Remove(p, row) PROVE PastInv'
    BY <1>4, <2>2, <2>4 DEF Remove, Start, PastInv
  <2>5. ASSUME NEW price \in OverridePrices, Override(p, price) PROVE PastInv'
    <3> DEFINE row == [id |-> nextId, price |-> price, from |-> now, by |-> "MANUAL"]
    <3>1. Start(p, "insert", row) /\ UNCHANGED <<now, log, tariffs>> /\ row.from <= now
      BY <2>1, <2>5 DEF Override
    <3> HIDE DEF row
    <3> QED BY <1>4, <2>2, <3>1 DEF Start
  <2> QED BY <1>6, <2>3, <2>4, <2>5
<1>7. ASSUME NEW p \in Slots, Await(p) PROVE PastInv'
  <2>1. op[p].row.from <= now /\ Idle.row.from <= now /\ UNCHANGED <<now, log>>
    BY <1>0, <1>7 DEF PastInv, Await, InsertDone, InsertFails, CacheSet, CacheSetFails,
       PublishReturns, DeleteDone, DeleteFails, LatestRead, LatestReadFails
  <2>2. tariffs' \subseteq tariffs \cup {op[p].row}
    BY <1>7 DEF Await, InsertDone, InsertFails, Inserted, CacheSet, CacheSetFails,
       PublishReturns, DeleteDone, DeleteFails, LatestRead, LatestReadFails
  <2>3. ASSUME NEW row, row.from <= now, NEW stage,
               op' = [op EXCEPT ![p] = [stage |-> stage, row |-> row]] PROVE PastInv'
    BY <1>0, <2>1, <2>2, <2>3 DEF PastInv
  <2>4. ASSUME Finish(p) PROVE PastInv'
    BY <2>1, <2>3, <2>4 DEF Finish, Idle
  <2>5. ASSUME NEW stage, NEW row, Continue(p, stage, row), row.from <= now PROVE PastInv'
    BY <2>3, <2>5 DEF Continue
  <2>6. CASE LatestRead(p)
    <3>1. \A r \in Latest(tariffs) : r.from <= now
      BY DEF Latest, PastInv
    <3> QED BY <2>4, <2>5, <2>6, <3>1 DEF LatestRead
  <2> QED BY <1>7, <2>1, <2>4, <2>5, <2>6 DEF Await, InsertDone, InsertFails, CacheSet,
       CacheSetFails, PublishReturns, DeleteDone, DeleteFails, LatestReadFails
<1>8. CASE Crash
  BY <1>0, <1>8 DEF Crash, PastInv
<1> QED BY <1>1, <1>2, <1>3, <1>5, <1>6, <1>7, <1>8
        DEF Next, vars, Commit, Expire, Shutdown, Restart

(* While prices are only read, and nothing disturbs the cache, it stays     *)
(* current and the table stays as it is.                                    *)
LEMMA ReadingStep ==
  ASSUME IInv, [Next]_vars, up, ~disturbed, CacheIsCurrent, up', ~disturbed', Writers = {},
         \A s \in Slots : op[s].stage \in {"idle", "read", "refill"}
  PROVE  /\ tariffs' = tariffs /\ CacheIsCurrent'
         /\ \A s \in Slots : op'[s].stage \in {"idle", "read", "refill"}
<1>0. op \in [Slots -> [stage : Stage, row : Row]] /\ Idle.stage = "idle"
  BY DEF IInv, TypeOK, Idle
<1>1. CASE UNCHANGED <<tariffs, cache, op>>
  BY <1>1 DEF CacheIsCurrent
<1>2. ASSUME NEW p \in Slots, NEW row, NEW stage \in {"insert", "delete"}, Start(p, stage, row)
      PROVE  FALSE
  <2>1. Started = {p} /\ op'[p] = [stage |-> stage, row |-> row]
    BY <1>2, StartOp
  <2> QED BY <2>1 DEF Writers
<1>3. CASE Consume
  BY <1>1, <1>2, <1>3 DEF Consume, Slots
<1>4. ASSUME NEW p \in Requests, Get(p)
      PROVE  /\ tariffs' = tariffs /\ CacheIsCurrent'
             /\ \A s \in Slots : op'[s].stage \in {"idle", "read", "refill"}
  <2>1. Start(p, "read", NoRow) /\ UNCHANGED <<tariffs, cache>> /\ p \in Slots
    BY <1>4 DEF Get, Slots
  <2>2. op'[p] = [stage |-> "read", row |-> NoRow] /\ \A s \in Slots : s # p => op'[s] = op[s]
    BY <2>1, StartOp
  <2> QED BY <2>1, <2>2 DEF CacheIsCurrent
<1>5. ASSUME NEW p \in Requests,
             \/ \E price \in OverridePrices : Override(p, price)
             \/ \E row \in tariffs : Remove(p, row)
      PROVE  FALSE
  BY <1>2, <1>5 DEF Override, Remove, Slots
<1>6. ASSUME NEW p \in Slots, Await(p)
      PROVE  /\ tariffs' = tariffs /\ CacheIsCurrent'
             /\ \A s \in Slots : op'[s].stage \in {"idle", "read", "refill"}
  <2>1. op[p].stage \in {"read", "refill"}
    BY <1>6, AwaitOp
  <2>2. CASE CacheSet(p)
    <3>1. op[p].row \in Latest(tariffs)
      BY <2>1, <2>2 DEF CacheSet, IInv, CalmInv
    <3> QED BY <1>0, <2>1, <2>2, <3>1 DEF CacheSet, Finish, CacheIsCurrent
  <2>3. CASE LatestRead(p)
    BY <1>0, <2>1, <2>3 DEF LatestRead, Finish, Continue, CacheIsCurrent
  <2>4. CASE CacheSetFails(p) \/ LatestReadFails(p)
    BY <2>4 DEF CacheSetFails, LatestReadFails
  <2> QED BY <1>6, <2>1, <2>2, <2>3, <2>4 DEF Await, InsertDone, InsertFails, PublishReturns,
          DeleteDone, DeleteFails
<1>7. CASE Expire
  BY <1>7 DEF Expire, CacheIsCurrent
<1>8. CASE Crash \/ Shutdown \/ Restart
  BY <1>8 DEF Crash, Shutdown, Restart
<1> QED BY <1>1, <1>3, <1>4, <1>5, <1>6, <1>7, <1>8 DEF Next, vars, Tick, Emit, Commit

(* While r has the service to itself and does not move, and nothing starts, *)
(* the table stays as it is; without r, so does the cache, but for the key  *)
(* that expires and the price that is preloaded.                            *)
LEMMA StillStep ==
  ASSUME IInv, [Next]_vars, NEW r \in Slots, \A s \in Slots : Busy(s) => s = r,
         op'[r] = op[r] \/ ~Busy(r), Started = {}
  PROVE  /\ tariffs' = tariffs
         /\ AllIdle /\ Latest(tariffs) # {} /\ (~disturbed => CacheIsCurrent)
              => (~disturbed' => CacheIsCurrent')
<1>1. CASE UNCHANGED <<tariffs, cache, disturbed>>
  BY <1>1, Zenon DEF CacheIsCurrent
<1>2. ASSUME NEW p \in Slots, NEW row, NEW stage \in {"insert", "delete", "read"}, Start(p, stage, row)
      PROVE  FALSE
  BY <1>2, StartOp
<1>3. CASE Consume
  <2>1. UNCHANGED <<tariffs, cache, disturbed>>
    BY <1>2, <1>3 DEF Consume, Slots
  <2> QED BY <1>1, <2>1
<1>4. ASSUME NEW p \in Requests,
             \/ \E price \in OverridePrices : Override(p, price)
             \/ \E row \in tariffs : Remove(p, row)
             \/ Get(p)
      PROVE  FALSE
  BY <1>2, <1>4 DEF Override, Remove, Get, Slots
<1>5. ASSUME NEW p \in Slots, Await(p)
      PROVE  tariffs' = tariffs /\ ~AllIdle
  <2>1. p = r /\ Busy(r) /\ op'[p] = op[p]
    BY <1>5, AwaitOp DEF Busy
  <2>2. op \in [Slots -> [stage : Stage, row : Row]] /\ Idle.stage = "idle"
    BY DEF IInv, TypeOK, Idle
  <2> QED BY <1>5, <2>1, <2>2 DEF Await, InsertDone, InsertFails, CacheSet, CacheSetFails,
       PublishReturns, DeleteDone, DeleteFails, LatestRead, LatestReadFails, Finish, Continue,
       Busy, AllIdle
<1>6. CASE Expire
  BY <1>6 DEF Expire, CacheIsCurrent
<1>7. CASE Restart
  BY <1>7 DEF Restart, PreloadTariffs, CacheIsCurrent, Latest
<1> QED BY <1>1, <1>3, <1>4, <1>5, <1>6, <1>7 DEF Next, vars, Tick, Emit, Commit, Crash, Shutdown

-----------------------------------------------------------------------------
(* All that is known of one call. *)
CallOK(r) ==
  /\ call[r] \in CallType
  /\ Busy(r) <=> call[r].place = "serving"
  /\ ServingInv(r) /\ AloneInv(r) /\ SuccessInv(r)

LEMMA CallsOK ==
  ASSUME GIInv
  PROVE  call \in [Requests -> CallType] /\ \A r \in Requests : CallOK(r)
BY DEF GIInv, GInv, GatewayTypeOK, CallInv, CallOK, CallType

LEMMA NoCallType == NoCall \in CallType
<1>1. NoRow \in Row
  BY TariffBoundsAssumption DEF NoRow, Row, Price
<1> QED BY <1>1 DEF NoCall, CallType, Asks, Places, Answers

(* A call that is over. *)
LEMMA OverOK ==
  ASSUME NEW r, call'[r] = NoCall, op'[r].stage = "idle"
  PROVE  CallOK(r)'
<1>1. /\ NoCall.ask = "none" /\ NoCall.place = "none" /\ NoCall.answer = "none" /\ NoCall.alone = FALSE
  BY DEF NoCall
<1> QED BY <1>1, NoCallType DEF CallOK, CallType, Busy, Row, ServingInv, AloneInv,
   SuccessInv, Asks, Places, Answers

(* What a step does to the calls it is not about: at most they are followed *)
(* no further.                                                              *)
LEMMA BystanderOK ==
  ASSUME GIInv, [Next]_vars, NEW r \in Requests,
         op'[r] = op[r] \/ (op[r].stage = "idle" /\ op'[r].stage = "idle"),
         \/ call'[r] = call[r] /\ Started = {}
         \/ call'[r] = NoCall /\ call[r].answer = "success"
         \/ call'[r] = [call[r] EXCEPT !.alone = FALSE]
  PROVE  CallOK(r)'
<1> DEFINE c == call[r]
<1>1. CallOK(r) /\ IInv /\ c \in CallType /\ r \in Slots
  BY CallsOK DEF GIInv, CallOK, Slots
<1>2. op'[r].stage = op[r].stage /\ (op[r].stage # "idle" => op'[r].row = op[r].row)
  BY DEF Busy
<1>3. stored \subseteq stored'
  BY StoredGrows
<1>4. CASE call'[r] = NoCall /\ c.answer = "success"
  BY <1>1, <1>2, <1>4, OverOK DEF CallOK, SuccessInv, Busy
<1>5. CASE call'[r] = [c EXCEPT !.alone = FALSE]
  <2>1. call'[r] \in CallType
    BY <1>1, <1>5 DEF CallType
  <2>2. /\ call'[r].ask = c.ask /\ call'[r].row = c.row /\ call'[r].place = c.place
        /\ call'[r].answer = c.answer /\ call'[r].alone = FALSE
    BY <1>1, <1>5 DEF CallType
  <2> HIDE DEF c
  <2>3. ServingInv(r)'
    BY <1>1, <1>2, <2>2 DEF CallOK, ServingInv, Busy, c
  <2>4. AloneInv(r)' /\ SuccessInv(r)'
    BY <1>1, <1>3, <2>2 DEF CallOK, AloneInv, SuccessInv, c
  <2> QED BY <1>1, <1>2, <2>1, <2>2, <2>3, <2>4 DEF CallOK, Busy, c
<1>6. CASE call'[r] = c /\ Started = {}
  <2>1. CASE ~c.alone
    <3>1. ServingInv(r)'
      BY <1>1, <1>2, <1>6 DEF CallOK, ServingInv, Busy
    <3>2. AloneInv(r)' /\ SuccessInv(r)'
      BY <1>1, <1>3, <1>6, <2>1 DEF CallOK, AloneInv, SuccessInv
    <3> QED BY <1>1, <1>2, <1>6, <3>1, <3>2 DEF CallOK, Busy
  <2>2. CASE c.alone
    <3>1. \A s \in Slots : Busy(s) => s = r
      BY <1>1, <2>2 DEF CallOK, AloneInv
    <3>2. op'[r] = op[r] \/ ~Busy(r)
      BY DEF Busy
    <3>3. /\ tariffs' = tariffs
          /\ AllIdle /\ Latest(tariffs) # {} /\ (~disturbed => CacheIsCurrent)
               => (~disturbed' => CacheIsCurrent')
      BY <1>1, <1>6, <3>1, <3>2, StillStep
    <3>4. \A s \in Slots : Busy(s)' => s = r
      BY <1>6, <3>1 DEF Started, Busy
    <3>5. ServingInv(r)'
      BY <1>1, <1>2, <1>6 DEF CallOK, ServingInv, Busy
    <3>6. AloneInv(r)'
      BY <1>1, <1>2, <1>6, <3>3, <3>4 DEF CallOK, AloneInv, Latest
    <3>7. SuccessInv(r)'
      <4>1. CASE c.answer = "success"
        <5>1. AllIdle
          BY <1>1, <3>1, <4>1 DEF CallOK, SuccessInv, AllIdle
        <5>2. \E q \in Latest(tariffs) : q.price = c.row.price
          BY <1>1, <2>2, <4>1 DEF CallOK, SuccessInv, AloneInv
        <5>3. ~disturbed => CacheIsCurrent
          BY <1>1, <2>2, <4>1, Zenon DEF CallOK, SuccessInv, AloneInv
        <5>4. ~disturbed' => CacheIsCurrent'
          BY <3>3, <5>1, <5>2, <5>3
        <5>5. c.row.price \in OverridePrices /\ c.row.price \in stored /\ c.place = "none" /\ c.ask = "override"
          BY <1>1, <2>2, <4>1 DEF CallOK, SuccessInv, AloneInv
        <5>6. Latest(tariffs') = Latest(tariffs)
          BY <3>3
        <5> HIDE DEF c
        <5> QED BY <1>3, <1>6, <4>1, <5>2, <5>4, <5>5, <5>6 DEF SuccessInv, Latest
      <4>2. CASE c.answer # "success"
        BY <1>1, <1>6, <4>2 DEF CallOK, SuccessInv
      <4> QED BY <4>1, <4>2
    <3> QED BY <1>1, <1>2, <1>6, <3>5, <3>6, <3>7 DEF CallOK, Busy
  <2> QED BY <2>1, <2>2
<1> QED BY <1>4, <1>5, <1>6

(* What Calls makes of a call the step is not about. *)
LEMMA CallsShape ==
  ASSUME NEW newCall, Calls(newCall), NEW r \in Requests
  PROVE  /\ Started \subseteq {r} => call'[r] = newCall[r]
         /\ \/ call'[r] = newCall[r] /\ Started \subseteq {r}
            \/ call'[r] = NoCall /\ newCall[r].answer = "success"
            \/ call'[r] = [newCall[r] EXCEPT !.alone = FALSE]
BY Zenon DEF Calls

(* Every step of the gateway and the service is, to the service, one of its *)
(* own steps or none.                                                       *)
LEMMA ServiceStep == GIInv /\ [GatewayNext]_allVars => [Next]_vars
<1> SUFFICES ASSUME GIInv, GatewayNext PROVE [Next]_vars
  BY DEF allVars
<1> USE DEF Next
<1>1. CASE Service \/ ServiceCrash
  <2>1. "consumer" \in Slots
    BY DEF Slots
  <2> QED BY <1>1, <2>1 DEF Service, ServiceCrash
<1>2. CASE Look \/ GetCurrentTariff \/ GetTariffHistory \/ Skip
  BY <1>2 DEF Look, GetCurrentTariff, GetTariffHistory, Skip
<1>3. ASSUME NEW p \in Requests,
             \/ \E price \in OverridePrices : CreateTariffOverride(p, price)
             \/ \E row \in tariffs : RemoveTariffOverride(p, row)
             \/ TimeOut(p) \/ Refused(p)
      PROVE  UNCHANGED vars
  <2>1. ASSUME NEW ask, NEW row, Send(p, ask, row) PROVE UNCHANGED vars
    BY <2>1, Zenon DEF Send
  <2>2. ASSUME TimeOut(p) \/ Refused(p) PROVE UNCHANGED vars
    BY <2>2, Zenon DEF TimeOut, Refused
  <2>3. ASSUME NEW price, CreateTariffOverride(p, price) PROVE UNCHANGED vars
    <3> DEFINE row == [NoRow EXCEPT !.price = price]
    <3>1. Send(p, "override", row)
      BY <2>3 DEF CreateTariffOverride
    <3> HIDE DEF row
    <3> QED BY <2>1, <3>1
  <2>4. ASSUME NEW row, RemoveTariffOverride(p, row) PROVE UNCHANGED vars
    BY <2>1, <2>4, Zenon DEF RemoveTariffOverride
  <2> QED BY <1>3, <2>2, <2>3, <2>4
<1>4. ASSUME NEW p \in Requests, TakeOverride(p) PROVE [Next]_vars
  <2>1. call[p].row.price \in OverridePrices
    BY <1>4, CallsOK DEF TakeOverride, CallOK, SuccessInv
  <2> QED BY <1>4, <2>1 DEF TakeOverride
<1>5. ASSUME NEW p \in Requests, TakeRemoval(p) PROVE [Next]_vars
  BY <1>5 DEF TakeRemoval
<1>6. ASSUME NEW p \in Requests, GetUncached(p) PROVE [Next]_vars
  BY <1>6 DEF GetUncached
<1>7. ASSUME NEW p \in Requests, Serve(p) \/ ServeCurrent(p) PROVE [Next]_vars
  <2>1. Await(p) /\ p \in Slots
    BY <1>7 DEF Serve, ServeCurrent, Fails, Await, Slots
  <2> QED BY <2>1
<1> QED BY <1>1, <1>2, <1>3, <1>4, <1>5, <1>6, <1>7 DEF GatewayNext

(* The calls of the gateway while the service does something else. *)
LEMMA ServiceCalls ==
  ASSUME GIInv, Service \/ ServiceCrash
  PROVE  call' \in [Requests -> CallType] /\ \A r \in Requests : CallOK(r)'
<1>0. IInv /\ [Next]_vars
  BY ServiceStep DEF GIInv, GatewayNext
<1>1. CASE ServiceCrash
  <2> DEFINE new == [p \in Requests |-> IF call[p].place = "serving" THEN NoCall ELSE call[p]]
  <2>1. Calls(new) /\ Crash /\ Started = {}
    BY <1>0, <1>1, QuietOp DEF ServiceCrash
  <2>2. \A r \in Slots : op'[r] = Idle /\ op'[r].stage = "idle"
    BY <2>1 DEF Crash, Idle
  <2>3. ASSUME NEW r \in Requests PROVE call'[r] \in CallType /\ CallOK(r)'
    <3>1. call'[r] = new[r] /\ r \in Slots
      BY <2>1 DEF Calls, Slots
    <3>2. CASE call[r].place = "serving"
      BY <2>2, <3>1, <3>2, OverOK, NoCallType
    <3>3. CASE call[r].place # "serving"
      <4>1. op[r].stage = "idle" /\ call'[r] = call[r]
        BY <3>1, <3>3, CallsOK DEF CallOK, Busy
      <4> QED BY <1>0, <2>1, <2>2, <3>1, <4>1, BystanderOK DEF CallOK
    <3> QED BY <3>2, <3>3
  <2>4. call' = [r \in Requests |-> call'[r]]
    BY <2>1 DEF Calls
  <2> QED BY <2>3, <2>4
<1>2. CASE Service
  <2>1. Calls(call)
    BY <1>2 DEF Service
  <2>2. ASSUME NEW r \in Requests
        PROVE  op'[r] = op[r] \/ (op[r].stage = "idle" /\ op'[r].stage = "idle")
    <3>1. CASE op' = op
      BY <3>1
    <3>2. CASE Consume
      <4>1. op \in [Slots -> [stage : Stage, row : Row]] /\ r # "consumer"
        BY <1>0, TariffBoundsAssumption DEF IInv, TypeOK
      <4>2. CASE \E row : Start("consumer", "insert", row)
        BY <4>1, <4>2 DEF Start, Slots
      <4> QED BY <3>1, <3>2, <4>2, Zenon DEF Consume
    <3>3. CASE Await("consumer")
      <4>1. "consumer" \in Slots /\ r \in Slots /\ r # "consumer"
        BY TariffBoundsAssumption DEF Slots
      <4> QED BY <1>0, <3>3, <4>1, AwaitOp
    <3> QED BY <1>2, <3>1, <3>2, <3>3 DEF Service, Tick, Commit, Expire, Shutdown, Restart, Emit
  <2>3. ASSUME NEW r \in Requests PROVE call'[r] \in CallType /\ CallOK(r)'
    <3>1. \/ call'[r] = call[r] /\ Started \subseteq {r}
          \/ call'[r] = NoCall /\ call[r].answer = "success"
          \/ call'[r] = [call[r] EXCEPT !.alone = FALSE]
      BY <2>1, CallsShape
    <3>2. r \notin Started
      BY <2>2 DEF Started, Busy
    <3> QED BY <1>0, <2>2, <3>1, <3>2, BystanderOK DEF CallOK
  <2>4. call' = [r \in Requests |-> call'[r]]
    BY <2>1 DEF Calls
  <2> QED BY <2>3, <2>4
<1> QED BY <1>1, <1>2

(* A step of the gateway about one call: the others stay as they are, and   *)
(* so does the service.                                                     *)
LEMMA GatewayStepOK ==
  ASSUME GIInv, UNCHANGED vars, NEW p \in Requests, NEW c,
         call' = [call EXCEPT ![p] = c], CallOK(p)'
  PROVE  call' \in [Requests -> CallType] /\ \A r \in Requests : CallOK(r)'
<1>1. op' = op /\ Started = {} /\ IInv
  BY QuietOp DEF vars, GIInv
<1>2. ASSUME NEW r \in Requests, r # p PROVE CallOK(r)'
  <2>1. call'[r] = call[r]
    BY <1>2, CallsOK
  <2> QED BY <1>1, <2>1, BystanderOK
<1>3. call' = [r \in Requests |-> call'[r]]
  BY CallsOK
<1> QED BY <1>2, <1>3 DEF CallOK

(* A call is sent. *)
LEMMA SendOK ==
  ASSUME GIInv, NEW p \in Requests,
         NEW ask \in {"override", "remove"}, NEW row \in Row, Send(p, ask, row),
         ask = "override" => row.price \in OverridePrices
  PROVE  call' \in [Requests -> CallType] /\ \A r \in Requests : CallOK(r)'
<1> DEFINE c == [NoCall EXCEPT !.ask = ask, !.row = row, !.place = "sent"]
<1>1. UNCHANGED vars /\ call' = [call EXCEPT ![p] = c] /\ call[p].place = "none"
  BY Zenon DEF Send
<1>2. /\ c \in CallType /\ c.ask = ask /\ c.row = row /\ c.place = "sent"
      /\ c.answer = "none" /\ c.alone = FALSE
  BY NoCallType DEF CallType, NoCall, Asks, Places, Answers
<1> HIDE DEF c
<1>3. call'[p] = c /\ op' = op /\ ~Busy(p)
  BY <1>1, CallsOK DEF CallOK, vars
<1>4. CallOK(p)'
  BY <1>2, <1>3 DEF CallOK, ServingInv, AloneInv, SuccessInv, Busy
<1> QED BY <1>1, <1>4, GatewayStepOK

(* The limit of five seconds. *)
LEMMA TimeOutOK ==
  ASSUME GIInv, NEW p \in Requests, TimeOut(p)
  PROVE  call' \in [Requests -> CallType] /\ \A r \in Requests : CallOK(r)'
<1> DEFINE c == [call[p] EXCEPT !.answer = "error"]
<1>0. CallOK(p) /\ call[p] \in CallType
  BY CallsOK DEF CallOK
<1>1. UNCHANGED vars /\ call' = [call EXCEPT ![p] = c] /\ Waiting(p)
  BY Zenon DEF TimeOut
<1>2. /\ c \in CallType /\ c.ask = call[p].ask /\ c.row = call[p].row /\ c.place = call[p].place
      /\ c.answer = "error" /\ c.alone = call[p].alone
  BY <1>0 DEF CallType, Answers
<1> HIDE DEF c
<1>3. call'[p] = c /\ op' = op /\ tariffs' = tariffs /\ c.place # "none"
  BY <1>0, <1>1, <1>2, CallsOK DEF CallOK, SuccessInv, Waiting, vars
<1>4. CallOK(p)'
  BY <1>0, <1>2, <1>3 DEF CallOK, ServingInv, AloneInv, SuccessInv, Busy, Latest
<1> QED BY <1>1, <1>4, GatewayStepOK

(* A call the service does not take. *)
LEMMA RefusedOK ==
  ASSUME GIInv, NEW p \in Requests, UNCHANGED vars, call' = Over(p), call[p].place = "sent"
  PROVE  call' \in [Requests -> CallType] /\ \A r \in Requests : CallOK(r)'
<1>1. call' = [call EXCEPT ![p] = NoCall] /\ call'[p] = NoCall /\ op'[p].stage = "idle"
  BY CallsOK DEF Over, CallOK, Busy, vars
<1> QED BY <1>1, OverOK, GatewayStepOK

-----------------------------------------------------------------------------
(* A step of the service for one call: the others are at most followed no   *)
(* further.                                                                 *)
LEMMA ServeStepOK ==
  ASSUME GIInv, [Next]_vars, NEW p \in Requests, NEW newCall, Calls(newCall), Started \subseteq {p},
         \A r \in Requests : r # p => op'[r] = op[r] /\ newCall[r] = call[r],
         call'[p] = newCall[p] => CallOK(p)'
  PROVE  call' \in [Requests -> CallType] /\ \A r \in Requests : CallOK(r)'
<1>1. CallOK(p)'
  BY CallsShape
<1>2. ASSUME NEW r \in Requests, r # p PROVE CallOK(r)'
  <2>1. \/ call'[r] = call[r] /\ Started \subseteq {r}
        \/ call'[r] = NoCall /\ call[r].answer = "success"
        \/ call'[r] = [call[r] EXCEPT !.alone = FALSE]
    BY <1>2, CallsShape
  <2>2. op'[r] = op[r] /\ (Started \subseteq {r} => Started = {})
    BY <1>2
  <2> QED BY <2>1, <2>2, BystanderOK
<1>3. call' = [r \in Requests |-> call'[r]]
  BY DEF Calls
<1> QED BY <1>1, <1>2, <1>3 DEF CallOK

(* The service takes an override. *)
LEMMA TakeOverrideOK ==
  ASSUME GIInv, NEW p \in Requests, TakeOverride(p)
  PROVE  call' \in [Requests -> CallType] /\ \A r \in Requests : CallOK(r)'
<1>0. CallOK(p) /\ call[p] \in CallType /\ IInv /\ [Next]_vars /\ call[p].place = "sent"
      /\ call[p].ask = "override" /\ p \in Slots
  BY CallsOK, ServiceStep DEF CallOK, GIInv, GatewayNext, TakeOverride, Slots
<1> DEFINE price == call[p].row.price
           row == [id |-> nextId, price |-> price, from |-> now, by |-> "MANUAL"]
           c   == [call[p] EXCEPT !.place = "serving", !.alone = AllIdle]
           new == [call EXCEPT ![p] = c]
<1>1. CASE Override(p, price) /\ Calls(new)
  <2>1. Start(p, "insert", row) /\ tariffs' = tariffs /\ row.price = price /\ row.from = now
    BY <1>1 DEF Override
  <2>2. /\ c \in CallType /\ c.ask = "override" /\ c.row = call[p].row /\ c.place = "serving"
        /\ c.answer = call[p].answer /\ c.answer # "success" /\ c.alone = AllIdle
    BY <1>0 DEF CallType, Places, CallOK, SuccessInv, AllIdle
  <2>3. new[p] = c /\ \A r \in Requests : r # p => new[r] = call[r]
    BY CallsOK
  <2> HIDE DEF c, new, row, price
  <2>4. /\ op'[p] = [stage |-> "insert", row |-> row] /\ Started = {p}
        /\ \A s \in Slots : s # p => op'[s] = op[s]
    BY <1>0, <2>1, StartOp
  <2>5. ASSUME call'[p] = c PROVE CallOK(p)'
    <3>1. ServingInv(p)'
      BY <2>1, <2>2, <2>4, <2>5 DEF ServingInv, price
    <3>2. AloneInv(p)'
      <4>1. \A r \in tariffs : r.from <= now
        BY DEF GIInv, GInv, PastInv
      <4>2. AllIdle => \A s \in Slots : Busy(s)' => s = p
        BY <2>4 DEF AllIdle, Busy
      <4> QED BY <2>1, <2>2, <2>4, <2>5, <4>1, <4>2 DEF AloneInv
    <3>3. SuccessInv(p)'
      BY <1>0, <2>2, <2>5 DEF SuccessInv, CallOK
    <3> QED BY <2>2, <2>4, <2>5, <3>1, <3>2, <3>3 DEF CallOK, Busy
  <2> QED BY <1>0, <1>1, <2>3, <2>4, <2>5, ServeStepOK DEF Slots
<1>2. CASE call' = Over(p) /\ UNCHANGED vars
  BY <1>0, <1>2, RefusedOK
<1> QED BY <1>1, <1>2, Zenon DEF TakeOverride

(* The service takes a removal. *)
LEMMA TakeRemovalOK ==
  ASSUME GIInv, NEW p \in Requests, TakeRemoval(p)
  PROVE  call' \in [Requests -> CallType] /\ \A r \in Requests : CallOK(r)'
<1>0. CallOK(p) /\ call[p] \in CallType /\ IInv /\ [Next]_vars /\ call[p].place = "sent"
      /\ call[p].ask = "remove" /\ p \in Slots
  BY CallsOK, ServiceStep DEF CallOK, GIInv, GatewayNext, TakeRemoval, Slots
<1> DEFINE row == call[p].row
           c   == [call[p] EXCEPT !.place = "serving"]
           new == [call EXCEPT ![p] = c]
<1>1. CASE Remove(p, row) /\ Calls(new)
  <2>1. Start(p, "delete", row)
    BY <1>1 DEF Remove
  <2>2. /\ c \in CallType /\ c.ask = "remove" /\ c.place = "serving"
        /\ c.answer # "success" /\ c.alone = FALSE
    BY <1>0 DEF CallType, Places, CallOK, SuccessInv, AloneInv
  <2>3. new[p] = c /\ \A r \in Requests : r # p => new[r] = call[r]
    BY CallsOK
  <2> HIDE DEF c, new, row
  <2>4. /\ op'[p] = [stage |-> "delete", row |-> row] /\ Started = {p}
        /\ \A s \in Slots : s # p => op'[s] = op[s]
    BY <1>0, <2>1, StartOp
  <2>5. ASSUME call'[p] = c PROVE CallOK(p)'
    BY <2>2, <2>4, <2>5 DEF CallOK, ServingInv, AloneInv, SuccessInv, Busy
  <2> QED BY <1>0, <1>1, <2>3, <2>4, <2>5, ServeStepOK DEF Slots
<1>2. CASE call' = Over(p) /\ UNCHANGED vars
  BY <1>0, <1>2, RefusedOK
<1> QED BY <1>1, <1>2, Zenon DEF TakeRemoval

(* The service takes a request for the price that it has to read. *)
LEMMA GetUncachedOK ==
  ASSUME GIInv, NEW p \in Requests, GetUncached(p)
  PROVE  call' \in [Requests -> CallType] /\ \A r \in Requests : CallOK(r)'
<1>0. IInv /\ [Next]_vars /\ p \in Slots
  BY ServiceStep DEF GIInv, GatewayNext, Slots
<1> DEFINE c   == [NoCall EXCEPT !.ask = "current", !.place = "serving"]
           new == [call EXCEPT ![p] = c]
<1>1. Start(p, "read", NoRow) /\ Calls(new)
  BY Zenon DEF GetUncached, Get
<1>2. c \in CallType /\ c.ask = "current" /\ c.place = "serving" /\ c.answer = "none" /\ c.alone = FALSE
  BY NoCallType DEF CallType, NoCall, Asks, Places
<1>3. new[p] = c /\ \A r \in Requests : r # p => new[r] = call[r]
  BY CallsOK
<1> HIDE DEF c, new
<1>4. /\ op'[p] = [stage |-> "read", row |-> NoRow] /\ Started = {p}
      /\ \A s \in Slots : s # p => op'[s] = op[s]
  BY <1>0, <1>1, StartOp
<1>5. ASSUME call'[p] = c PROVE CallOK(p)'
  BY <1>2, <1>4, <1>5 DEF CallOK, ServingInv, AloneInv, SuccessInv, Busy
<1> QED BY <1>0, <1>1, <1>3, <1>4, <1>5, ServeStepOK DEF Slots

(* How a call that the service answers ends. *)
LEMMA AnswerShape ==
  ASSUME GIInv, NEW p \in Requests
  PROVE  /\ Over(p)[p] = NoCall
         /\ Succeeded(p)[p] = IF Waiting(p) THEN [call[p] EXCEPT !.place = "none", !.answer = "success"]
                              ELSE NoCall
         /\ \A r \in Requests : r # p => Over(p)[r] = call[r] /\ Succeeded(p)[r] = call[r]
BY CallsOK DEF Over, Succeeded

(* The call of an override or a removal. *)
LEMMA ServeOK ==
  ASSUME GIInv, NEW p \in Requests, Serve(p)
  PROVE  call' \in [Requests -> CallType] /\ \A r \in Requests : CallOK(r)'
<1>0. /\ CallOK(p) /\ call[p] \in CallType /\ IInv /\ [Next]_vars /\ p \in Slots
      /\ call[p].place = "serving" /\ call[p].ask \in {"override", "remove"} /\ Await(p)
      /\ Idle.stage = "idle" /\ op \in [Slots -> [stage : Stage, row : Row]]
  BY CallsOK, ServiceStep DEF CallOK, GIInv, GatewayNext, Serve, Slots, Fails, Await, Idle,
     CallType, Asks, ServingInv, IInv, TypeOK
<1>1. Started = {} /\ \A s \in Slots : s # p => op'[s] = op[s]
  BY <1>0, AwaitOp
<1>2. ASSUME NEW new, Calls(new), \A r \in Requests : r # p => new[r] = call[r],
             call'[p] = new[p] => CallOK(p)'
      PROVE  call' \in [Requests -> CallType] /\ \A r \in Requests : CallOK(r)'
  BY <1>0, <1>1, <1>2, ServeStepOK DEF Slots
<1>3. call[p].alone => \A s \in Slots : Busy(s)' => s = p
  BY <1>0, <1>1 DEF CallOK, AloneInv, Busy
<1>4. ASSUME op'[p].stage = "idle", call'[p] = NoCall PROVE CallOK(p)'
  BY <1>4, OverOK
<1>5. ASSUME call'[p] = call[p], NEW stage, op'[p] = [stage |-> stage, row |-> op'[p].row],
             stage \in {"cache", "publish"} \/ (stage = "latest" /\ call[p].ask = "remove"),
             call[p].ask = "override" =>
               /\ op'[p].row.price = call[p].row.price
               /\ call[p].alone => op'[p].row \in Latest(tariffs')
      PROVE  CallOK(p)'
  <2>1. op'[p].stage = stage /\ stage # "idle" /\ stage # "insert"
    BY <1>5
  <2>2. ServingInv(p)'
    BY <1>0, <1>5, <2>1 DEF ServingInv
  <2>3. AloneInv(p)'
    BY <1>0, <1>3, <1>5, <2>1 DEF AloneInv, CallOK, Latest
  <2>4. SuccessInv(p)'
    BY <1>0, <1>5 DEF SuccessInv, CallOK
  <2> QED BY <1>0, <1>5, <2>1, <2>2, <2>3, <2>4 DEF CallOK, Busy
<1>6. CASE PublishReturns(p) /\ Calls(Succeeded(p))
  <2> DEFINE c == [call[p] EXCEPT !.place = "none", !.answer = "success"]
  <2>1. /\ op'[p] = Idle /\ op[p].stage = "publish"
        /\ UNCHANGED <<tariffs, cache, stored, disturbed, up>>
    BY <1>0, <1>6, Zenon DEF PublishReturns, Finish
  <2>2. /\ c \in CallType /\ c.ask = call[p].ask /\ c.row = call[p].row /\ c.place = "none"
        /\ c.answer = "success" /\ c.alone = call[p].alone
    BY <1>0 DEF CallType, Places, Answers
  <2> HIDE DEF c
  <2>3. ASSUME call'[p] = c PROVE CallOK(p)'
    <3>1. call[p].ask = "override" => call[p].row.price \in stored /\ call[p].row.price \in OverridePrices
      BY <1>0, <2>1 DEF CallOK, ServingInv, SuccessInv, IInv, StoredInv
    <3>2. up
      BY <1>0, <2>1, Zenon DEF IInv, DownInv, AllIdle, Busy
    <3>3. ~disturbed => CacheIsCurrent
      BY <1>0, <2>1, <3>2, Zenon DEF IInv, CalmInv
    <3>4. call[p].alone => op[p].row \in Latest(tariffs) /\ op[p].row.price = call[p].row.price
      BY <1>0, <2>1 DEF CallOK, AloneInv, ServingInv
    <3>5. ~disturbed' => CacheIsCurrent'
      BY <2>1, <3>3, Zenon DEF CacheIsCurrent
    <3>6. Latest(tariffs)' = Latest(tariffs)
      BY <2>1
    <3>7. SuccessInv(p)'
      BY <2>1, <2>2, <2>3, <3>1, <3>4, <3>5, <3>6 DEF SuccessInv
    <3>8. AloneInv(p)'
      BY <1>0, <1>3, <2>1, <2>2, <2>3 DEF CallOK, AloneInv
    <3> QED BY <1>0, <2>1, <2>2, <2>3, <3>7, <3>8 DEF CallOK, ServingInv, Busy
  <2>4. call'[p] = Succeeded(p)[p] => call'[p] = c \/ call'[p] = NoCall
    BY AnswerShape DEF c
  <2> QED BY <1>0, <1>2, <1>4, <1>6, <2>1, <2>3, <2>4, AnswerShape
<1>7. CASE Fails(p) /\ Calls(Over(p))
  <2>1. op'[p] = Idle
    BY <1>0, <1>7 DEF Fails, InsertFails, CacheSetFails, DeleteFails, LatestReadFails, Finish
  <2> QED BY <1>0, <1>2, <1>4, <1>7, <2>1, AnswerShape
<1>8. CASE InsertDone(p) /\ Calls(call)
  <2>1. /\ op'[p] = [stage |-> "cache", row |-> op[p].row] /\ op[p].stage = "insert"
        /\ tariffs' = tariffs \cup {op[p].row}
    BY <1>0, <1>8 DEF InsertDone, Inserted, Continue
  <2>2. op[p].row.from <= op[p].row.from
    BY <1>0, TariffBoundsAssumption DEF Row
  <2>3. call[p].ask = "override" =>
          /\ op[p].row.price = call[p].row.price
          /\ call[p].alone => op[p].row \in Latest(tariffs')
    BY <1>0, <2>1, <2>2 DEF CallOK, ServingInv, AloneInv, Latest
  <2> QED BY <1>2, <1>5, <1>8, <2>1, <2>3
<1>9. CASE CacheSet(p) /\ Calls(call)
  <2>1. op[p].stage # "refill"
    BY <1>0 DEF CallOK, ServingInv
  <2>2. /\ op'[p] = [stage |-> "publish", row |-> op[p].row] /\ op[p].stage = "cache"
        /\ tariffs' = tariffs
    BY <1>0, <1>9, <2>1 DEF CacheSet, Continue
  <2>3. call[p].ask = "override" =>
          /\ op[p].row.price = call[p].row.price
          /\ call[p].alone => op[p].row \in Latest(tariffs')
    BY <1>0, <2>2 DEF CallOK, ServingInv, AloneInv
  <2> QED BY <1>2, <1>5, <1>9, <2>2, <2>3
<1>10. CASE DeleteDone(p) /\ Calls(IF op'[p].stage = "idle" THEN Over(p) ELSE call)
  <2>1. call[p].ask = "remove"
    BY <1>0, <1>10 DEF CallOK, ServingInv, DeleteDone
  <2>2. op'[p] = Idle \/ op'[p] = [stage |-> "latest", row |-> op[p].row]
    BY <1>0, <1>10 DEF DeleteDone, Continue, Finish
  <2>3. CASE op'[p] = Idle
    BY <1>0, <1>2, <1>4, <1>10, <2>3, AnswerShape
  <2>4. CASE op'[p] = [stage |-> "latest", row |-> op[p].row]
    <3>1. op'[p].stage = "latest" /\ op'[p].row = op[p].row
      BY <2>4
    <3>2. Calls(call)
      BY <1>10, <3>1
    <3> QED BY <1>2, <1>5, <2>1, <2>4, <3>1, <3>2
  <2> QED BY <2>2, <2>3, <2>4
<1>11. CASE LatestRead(p) /\ Calls(IF op'[p].stage = "idle" THEN Succeeded(p) ELSE call)
  <2>1. call[p].ask = "remove" /\ ~call[p].alone
    BY <1>0, <1>11 DEF CallOK, ServingInv, AloneInv, LatestRead
  <2>2. op[p].stage = "latest"
    BY <1>0, <1>11, <2>1 DEF CallOK, ServingInv, LatestRead
  <2>3. op'[p] = Idle \/ \E r \in Latest(tariffs) : op'[p] = [stage |-> "cache", row |-> r]
    BY <1>0, <1>11, <2>2 DEF LatestRead, Continue, Finish
  <2>4. CASE op'[p] = Idle
    <3> DEFINE c == [call[p] EXCEPT !.place = "none", !.answer = "success"]
    <3>1. /\ c \in CallType /\ c.ask = "remove" /\ c.place = "none"
          /\ c.answer = "success" /\ ~c.alone
      BY <1>0, <2>1 DEF CallType, Places, Answers
    <3> HIDE DEF c
    <3>2. ASSUME call'[p] = c PROVE CallOK(p)'
      BY <1>0, <2>4, <3>1, <3>2 DEF CallOK, ServingInv, AloneInv, SuccessInv, Busy
    <3>3. call'[p] = Succeeded(p)[p] => call'[p] = c \/ call'[p] = NoCall
      BY AnswerShape DEF c
    <3> QED BY <1>0, <1>2, <1>4, <1>11, <2>4, <3>2, <3>3, AnswerShape
  <2>5. ASSUME NEW q \in Latest(tariffs), op'[p] = [stage |-> "cache", row |-> q]
        PROVE  call' \in [Requests -> CallType] /\ \A r \in Requests : CallOK(r)'
    <3>1. op'[p].stage = "cache" /\ op'[p].row = q
      BY <2>5
    <3>2. Calls(call)
      BY <1>11, <3>1
    <3> QED BY <1>2, <1>5, <2>1, <2>5, <3>1, <3>2
  <2> QED BY <2>3, <2>4, <2>5
<1> QED BY <1>6, <1>7, <1>8, <1>9, <1>10, <1>11, Zenon DEF Serve

(* The call of a request for the price. *)
LEMMA ServeCurrentOK ==
  ASSUME GIInv, NEW p \in Requests, ServeCurrent(p)
  PROVE  call' \in [Requests -> CallType] /\ \A r \in Requests : CallOK(r)'
<1>0. /\ CallOK(p) /\ IInv /\ [Next]_vars /\ p \in Slots /\ Await(p)
      /\ call[p].place = "serving" /\ call[p].ask = "current" /\ ~call[p].alone
      /\ op[p].stage \in {"read", "refill"}
      /\ Idle.stage = "idle" /\ op \in [Slots -> [stage : Stage, row : Row]]
  BY CallsOK, ServiceStep DEF CallOK, GIInv, GatewayNext, ServeCurrent, Slots, Fails, Await, Idle,
     ServingInv, AloneInv, IInv, TypeOK
<1>1. Started = {} /\ \A s \in Slots : s # p => op'[s] = op[s]
  BY <1>0, AwaitOp
<1>2. ASSUME NEW new, Calls(new), \A r \in Requests : r # p => new[r] = call[r],
             call'[p] = new[p] => CallOK(p)'
      PROVE  call' \in [Requests -> CallType] /\ \A r \in Requests : CallOK(r)'
  BY <1>0, <1>1, <1>2, ServeStepOK DEF Slots
<1>3. CASE op'[p] = Idle /\ Calls(Over(p))
  BY <1>0, <1>2, <1>3, OverOK, AnswerShape
<1>4. ASSUME NEW q, op'[p] = [stage |-> "refill", row |-> q], Calls(call)
      PROVE  call' \in [Requests -> CallType] /\ \A r \in Requests : CallOK(r)'
  <2>1. op'[p].stage = "refill"
    BY <1>4
  <2>2. call'[p] = call[p] => CallOK(p)'
    BY <1>0, <2>1 DEF CallOK, ServingInv, AloneInv, SuccessInv, Busy
  <2> QED BY <1>2, <1>4, <2>2
<1>5. CASE CacheSet(p) /\ Calls(Over(p))
  BY <1>0, <1>3, <1>5 DEF CacheSet, Finish
<1>6. CASE Fails(p) /\ Calls(Over(p))
  <2>1. op'[p] = Idle
    BY <1>0, <1>6 DEF Fails, InsertFails, CacheSetFails, DeleteFails, LatestReadFails, Finish
  <2> QED BY <1>3, <1>6, <2>1
<1>7. CASE LatestRead(p) /\ Calls(IF op'[p].stage = "idle" THEN Over(p) ELSE call)
  <2>1. op'[p] = Idle \/ \E r \in Latest(tariffs) : op'[p] = [stage |-> "refill", row |-> r]
    BY <1>0, <1>7 DEF LatestRead, Continue, Finish
  <2>2. CASE op'[p] = Idle
    BY <1>0, <1>3, <1>7, <2>2
  <2>3. ASSUME NEW q \in Latest(tariffs), op'[p] = [stage |-> "refill", row |-> q]
        PROVE  call' \in [Requests -> CallType] /\ \A r \in Requests : CallOK(r)'
    <3>1. op'[p].stage = "refill"
      BY <2>3
    <3> QED BY <1>4, <1>7, <2>3, <3>1
  <2> QED BY <2>1, <2>2, <2>3
<1> QED BY <1>5, <1>6, <1>7, Zenon DEF ServeCurrent

-----------------------------------------------------------------------------
BoardOK == board \in [open : BOOLEAN, price : Price \cup {NoPrice}, by : Labels] /\ BoardInv

LEMMA NoBoardOK == ASSUME board' = NoBoard PROVE BoardOK'
<1>1. board' \in [open : BOOLEAN, price : Price \cup {NoPrice}, by : Labels]
  BY DEF NoBoard, Labels
<1>2. board'.open = FALSE /\ board'.price = NoPrice /\ board'.by = "unread"
  BY DEF NoBoard
<1> QED BY <1>1, <1>2 DEF BoardOK, BoardInv

(* A view goes on while the service only reads; it may have learnt the      *)
(* price of a latest row.                                                   *)
LEMMA ViewOK ==
  ASSUME GIInv, [Next]_vars, NEW newBoard, View(newBoard),
         \/ newBoard = board
         \/ /\ board.open
            /\ \E r \in Latest(tariffs) : newBoard = [board EXCEPT !.price = r.price]
  PROVE  BoardOK'
<1>0. BoardOK /\ IInv /\ tariffs \subseteq Row
  BY DEF GIInv, GInv, GatewayTypeOK, BoardOK, IInv, TypeOK
<1>1. CASE board' = NoBoard
  BY <1>1, NoBoardOK
<1>2. CASE board' = newBoard /\ Writers = {} /\ up' /\ ~disturbed'
  <2>1. \/ board' = board
        \/ /\ board.open
           /\ \E r \in Latest(tariffs) : board' = [board EXCEPT !.price = r.price]
    BY <1>2
  <2>2. board' \in [open : BOOLEAN, price : Price \cup {NoPrice}, by : Labels]
    BY <1>0, <2>1 DEF BoardOK, Latest, Row
  <2>3. CASE ~board.open
    <3>1. board' = board
      BY <2>1, <2>3
    <3> QED BY <1>0, <2>2, <2>3, <3>1 DEF BoardOK, BoardInv
  <2>4. CASE board.open
    <3>1. up /\ ~disturbed /\ CacheIsCurrent
      BY <1>0, <2>4, Zenon DEF BoardOK, BoardInv
    <3>2. \A s \in Slots : op[s].stage \in {"idle", "read", "refill"}
      BY <1>0, <2>4, Zenon DEF BoardOK, BoardInv
    <3>3. /\ tariffs' = tariffs /\ CacheIsCurrent'
          /\ \A s \in Slots : op'[s].stage \in {"idle", "read", "refill"}
      BY <1>0, <1>2, <3>1, <3>2, ReadingStep
    <3>4. Latest(tariffs)' = Latest(tariffs)
      BY <3>3
    <3>5. board'.by = board.by /\ board'.open
      BY <1>0, <2>1, <2>4 DEF BoardOK
    <3>6. board'.price # NoPrice => \E r \in Latest(tariffs) : r.price = board'.price
      BY <1>0, <2>1, <2>4 DEF BoardOK, BoardInv
    <3>7. board'.by # "unread" => IF board'.by = "automatic" THEN tariffs = {}
                                  ELSE \E r \in Latest(tariffs) : r.by = board'.by
      BY <1>0, <2>4, <3>5 DEF BoardOK, BoardInv
    <3>8. board'.by # "unread" => IF board'.by = "automatic" THEN tariffs' = {}
                                  ELSE \E r \in Latest(tariffs)' : r.by = board'.by
      BY <3>3, <3>4, <3>7
    <3>9. board'.price # NoPrice => \E r \in Latest(tariffs)' : r.price = board'.price
      BY <3>4, <3>6
    <3> QED BY <1>2, <2>2, <3>3, <3>5, <3>8, <3>9, Zenon DEF BoardOK, BoardInv
  <2> QED BY <2>3, <2>4
<1> QED BY <1>1, <1>2, Zenon DEF View

(* What the gateway does to its view. *)
LEMMA LookOK ==
  ASSUME GIInv, UNCHANGED vars, UNCHANGED board \/ Look \/ GetCurrentTariff \/ GetTariffHistory \/ Skip
  PROVE  BoardOK'
<1>0. BoardOK /\ IInv /\ tariffs \subseteq Row
  BY DEF GIInv, GInv, GatewayTypeOK, BoardOK, IInv, TypeOK
<1>1. /\ tariffs' = tariffs /\ op' = op /\ (up' <=> up) /\ (disturbed' <=> disturbed)
      /\ (CacheIsCurrent' <=> CacheIsCurrent)
  BY DEF vars, CacheIsCurrent, Latest
<1>2. CASE UNCHANGED board
  BY <1>0, <1>1, <1>2 DEF BoardOK, BoardInv, Latest
<1>3. CASE Look
  <2> DEFINE b == [NoBoard EXCEPT !.open = TRUE]
  <2>1. board' = b /\ up /\ AllIdle /\ ~disturbed
    BY <1>3, Zenon DEF Look
  <2>2. b.open = TRUE /\ b.price = NoPrice /\ b.by = "unread"
        /\ b \in [open : BOOLEAN, price : Price \cup {NoPrice}, by : Labels]
    BY DEF NoBoard, Labels
  <2> HIDE DEF b
  <2>3. CacheIsCurrent
    BY <1>0, <2>1, Zenon DEF IInv, CalmInv
  <2>4. \A s \in Slots : op'[s].stage \in {"idle", "read", "refill"}
    BY <1>1, <2>1 DEF AllIdle, Busy
  <2> QED BY <1>1, <2>1, <2>2, <2>3, <2>4 DEF BoardOK, BoardInv
<1>4. CASE GetCurrentTariff
  <2>1. /\ board.open /\ board' = [board EXCEPT !.price = cache]
        /\ \E r \in Latest(tariffs) : r.price = cache
    BY <1>0, <1>4 DEF GetCurrentTariff, Reading, BoardOK, BoardInv, CacheIsCurrent
  <2>2. /\ board'.open = TRUE /\ board'.price = cache /\ board'.by = board.by
        /\ board' \in [open : BOOLEAN, price : Price \cup {NoPrice}, by : Labels]
    BY <1>0, <2>1 DEF BoardOK, Latest, Row
  <2> QED BY <1>0, <1>1, <2>1, <2>2 DEF BoardOK, BoardInv, Latest
<1>5. CASE GetTariffHistory
  <2>1. PICK by \in IF tariffs = {} THEN {"automatic"} ELSE {r.by : r \in Latest(tariffs)} :
          board' = [board EXCEPT !.by = by]
    BY <1>5 DEF GetTariffHistory
  <2>2. by \in Labels /\ board.open = TRUE
        /\ IF by = "automatic" THEN tariffs = {} ELSE \E r \in Latest(tariffs) : r.by = by
    BY <1>0, <1>5, <2>1 DEF Latest, Row, Labels, GetTariffHistory, Reading, BoardOK
  <2>3. /\ board'.open = TRUE /\ board'.price = board.price /\ board'.by = by
        /\ board' \in [open : BOOLEAN, price : Price \cup {NoPrice}, by : Labels]
    BY <1>0, <2>1, <2>2 DEF BoardOK
  <2> QED BY <1>0, <1>1, <2>2, <2>3 DEF BoardOK, BoardInv, Latest
<1>6. CASE Skip
  BY <1>6, NoBoardOK DEF Skip
<1> QED BY <1>2, <1>3, <1>4, <1>5, <1>6

-----------------------------------------------------------------------------
LEMMA InitGIInv == GatewayInit => GIInv
<1> SUFFICES ASSUME GatewayInit PROVE GIInv
  OBVIOUS
<1>1. IInv /\ Init /\ board = NoBoard /\ \A p \in Requests : call[p] = NoCall
  BY InitIInv DEF GatewayInit
<1>2. \A s \in Slots : op[s] = Idle
  BY <1>1 DEF Init
<1>3. /\ Idle.stage = "idle" /\ Idle.row.from = 0 /\ NoCall.ask = "none" /\ NoCall.place = "none"
      /\ NoCall.answer = "none" /\ NoCall.alone = FALSE
  BY DEF Idle, NoRow, NoCall
<1>4. PastInv
  BY <1>1, <1>2, <1>3 DEF PastInv, Init
<1>5. /\ board.open = FALSE /\ board.price = NoPrice /\ board.by = "unread"
      /\ board \in [open : BOOLEAN, price : Price \cup {NoPrice}, by : Labels]
  BY <1>1 DEF NoBoard, Labels
<1>6. GatewayTypeOK
  <2>1. call \in [Requests -> CallType]
    BY NoCallType DEF GatewayInit
  <2> QED BY <1>1, <1>2, <1>3, <1>5, <2>1 DEF GatewayTypeOK, CallType, Busy, Slots
<1>7. CallInv
  BY <1>1, <1>3 DEF CallInv, ServingInv, AloneInv, SuccessInv
<1>8. BoardInv
  BY <1>5 DEF BoardInv
<1> QED BY <1>1, <1>4, <1>6, <1>7, <1>8 DEF GIInv, GInv

(* Every step of the gateway and the service keeps what is known of both. *)
LEMMA NextGIInv == GIInv /\ [GatewayNext]_allVars => GIInv'
<1> SUFFICES ASSUME GIInv, [GatewayNext]_allVars PROVE GIInv'
  OBVIOUS
<1>1. [Next]_vars /\ IInv /\ PastInv
  BY ServiceStep DEF GIInv, GInv
<1>2. IInv' /\ PastInv'
  BY <1>1, NextIInv, PastStep
<1>3. call' \in [Requests -> CallType] /\ \A r \in Requests : CallOK(r)'
  <2>1. CASE UNCHANGED allVars
    BY <2>1, CallsOK, BystanderOK, <1>1, QuietOp DEF allVars, gvars, vars
  <2>2. ASSUME Look \/ GetCurrentTariff \/ GetTariffHistory \/ Skip
        PROVE  UNCHANGED vars /\ call' = call
    BY <2>2, Zenon DEF Look, GetCurrentTariff, GetTariffHistory, Skip
  <2>3. CASE Look \/ GetCurrentTariff \/ GetTariffHistory \/ Skip
    BY <2>2, <2>3, CallsOK, BystanderOK, <1>1, QuietOp DEF vars
  <2>4. ASSUME NEW p \in Requests, NEW price \in OverridePrices, CreateTariffOverride(p, price)
        PROVE  call' \in [Requests -> CallType] /\ \A r \in Requests : CallOK(r)'
    <3> DEFINE row == [NoRow EXCEPT !.price = price]
    <3>1. row \in Row /\ row.price = price
      BY PricesAssumption, TariffBoundsAssumption DEF NoRow, Row, Price
    <3>2. Send(p, "override", row)
      BY <2>4 DEF CreateTariffOverride
    <3> HIDE DEF row
    <3> QED BY <3>1, <3>2, SendOK
  <2>5. ASSUME NEW p \in Requests, NEW row \in tariffs, RemoveTariffOverride(p, row)
        PROVE  call' \in [Requests -> CallType] /\ \A r \in Requests : CallOK(r)'
    BY <2>5, <1>1, SendOK DEF RemoveTariffOverride, IInv, TypeOK
  <2>6. ASSUME NEW p \in Requests, Refused(p)
        PROVE  call' \in [Requests -> CallType] /\ \A r \in Requests : CallOK(r)'
    <3>1. UNCHANGED vars /\ call' = Over(p) /\ call[p].place = "sent"
      BY <2>6, Zenon DEF Refused
    <3> QED BY <3>1, RefusedOK
  <2> QED BY <2>1, <2>3, <2>4, <2>5, <2>6, ServiceCalls, TimeOutOK, TakeOverrideOK, TakeRemovalOK,
             GetUncachedOK, ServeOK, ServeCurrentOK DEF GatewayNext
<1>4. BoardOK'
  <2>1. ASSUME View(board) PROVE BoardOK'
    BY <1>1, <2>1, ViewOK
  <2>2. ASSUME UNCHANGED <<vars, board>> PROVE BoardOK'
    BY <2>2, LookOK
  <2>3. CASE UNCHANGED allVars
    BY <2>2, <2>3 DEF allVars, gvars
  <2>4. CASE Service \/ ServiceCrash
    BY <2>1, <2>4 DEF Service, ServiceCrash
  <2>5. CASE Look \/ GetCurrentTariff \/ GetTariffHistory \/ Skip
    <3>1. UNCHANGED vars
      BY <2>5, Zenon DEF Look, GetCurrentTariff, GetTariffHistory, Skip
    <3> QED BY <2>5, <3>1, LookOK
  <2>6. ASSUME NEW p \in Requests,
               \/ \E price \in OverridePrices : CreateTariffOverride(p, price)
               \/ \E row \in tariffs : RemoveTariffOverride(p, row)
               \/ TimeOut(p) \/ Refused(p)
        PROVE  UNCHANGED <<vars, board>>
    <3>1. ASSUME NEW ask, NEW row, Send(p, ask, row) PROVE UNCHANGED <<vars, board>>
      BY <3>1, Zenon DEF Send
    <3>2. ASSUME TimeOut(p) \/ Refused(p) PROVE UNCHANGED <<vars, board>>
      BY <3>2, Zenon DEF TimeOut, Refused
    <3>3. ASSUME NEW price, CreateTariffOverride(p, price) PROVE UNCHANGED <<vars, board>>
      <4> DEFINE row == [NoRow EXCEPT !.price = price]
      <4>1. Send(p, "override", row)
        BY <3>3 DEF CreateTariffOverride
      <4> HIDE DEF row
      <4> QED BY <3>1, <4>1
    <3>4. ASSUME NEW row, RemoveTariffOverride(p, row) PROVE UNCHANGED <<vars, board>>
      BY <3>1, <3>4, Zenon DEF RemoveTariffOverride
    <3> QED BY <2>6, <3>2, <3>3, <3>4
  <2>7. ASSUME NEW p \in Requests, TakeOverride(p) \/ TakeRemoval(p) \/ GetUncached(p) \/ Serve(p)
        PROVE  View(board) \/ UNCHANGED <<vars, board>>
    BY <2>7, Zenon DEF TakeOverride, TakeRemoval, GetUncached, Serve
  <2>8. ASSUME NEW p \in Requests, ServeCurrent(p) PROVE BoardOK'
    <3>1. CASE View(board)
      BY <2>1, <3>1
    <3>2. CASE CacheSet(p) /\ View([board EXCEPT !.price = op[p].row.price]) /\ board.open
      <4>1. up /\ ~disturbed /\ p \in Slots
        BY <3>2, Zenon DEF GIInv, GInv, BoardInv, Slots
      <4>2. op[p].row \in Latest(tariffs)
        BY <1>1, <3>2, <4>1 DEF CacheSet, IInv, CalmInv
      <4> QED BY <1>1, <3>2, <4>2, ViewOK
    <3> QED BY <2>8, <3>1, <3>2, Zenon DEF ServeCurrent, Reading
  <2> QED BY <2>1, <2>2, <2>3, <2>4, <2>5, <2>6, <2>7, <2>8 DEF GatewayNext
<1> QED BY <1>2, <1>3, <1>4 DEF GIInv, GInv, GatewayTypeOK, CallInv, CallOK, BoardOK, CallType

(* The inductive invariant of the composition. *)
THEOREM GatewayInvariant == GatewaySpec => []GIInv
BY InitGIInv, NextGIInv, PTL DEF GatewaySpec

(* The service behind the gateway does what TariffService specifies: what   *)
(* is proved of Spec holds of the composition.                              *)
THEOREM GatewayRefinesService == GatewaySpec => Spec
<1>1. GatewayInit => Init
  BY DEF GatewayInit
<1> QED BY <1>1, ServiceStep, GatewayInvariant, PTL DEF GatewaySpec, Spec

(* The variables of the gateway keep their types, and a call is in the      *)
(* service exactly while its slot there is busy.                            *)
THEOREM GatewayTypes == GatewaySpec => []GatewayTypeOK
<1>1. GIInv => GatewayTypeOK
  BY DEF GIInv
<1> QED BY <1>1, GatewayInvariant, PTL

(* An operator who is told that an override was applied was told the truth. *)
THEOREM SuccessIsTrue == GatewaySpec => []AppliedOverrideIsInForce
<1>1. GIInv => AppliedOverrideIsInForce
  BY DEF GIInv, GInv, CallInv, SuccessInv, AppliedOverrideIsInForce
<1> QED BY <1>1, GatewayInvariant, PTL

(* A view pairs the price and the label of latest rows. *)
THEOREM ViewsAreConsistent == GatewaySpec => []ViewPairsLatestRows
<1>1. GIInv => ViewPairsLatestRows
  <2> SUFFICES ASSUME GIInv, Shown PROVE ViewPairsLatestRows
    BY DEF ViewPairsLatestRows
  <2>1. BoardInv /\ board.price # NoPrice /\ board.by # "unread"
    BY DEF GIInv, GInv, Shown
  <2>2. board.open /\ \E r \in Latest(tariffs) : r.price = board.price
    BY <2>1 DEF BoardInv
  <2>3. \E r \in Latest(tariffs) : r.by = board.by
    BY <2>1, <2>2 DEF BoardInv, Latest
  <2> QED BY <2>2, <2>3 DEF ViewPairsLatestRows
<1> QED BY <1>1, GatewayInvariant, PTL

=============================================================================
