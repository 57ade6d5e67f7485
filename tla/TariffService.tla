--------------------------- MODULE TariffService ---------------------------
(***************************************************************************)
(* The tariff service (apps/tariff) for one region; regions share nothing  *)
(* but the process.  A price lives in three places: the tariffs table of   *)
(* PostgreSQL, the price cache in Redis, and TariffCalculatorService's     *)
(* lastPrice.  The Kafka consumer, which handles one regional aggregate at *)
(* a time, and the operator's HTTP requests each write the table, then the *)
(* cache, then the tariff_updates topic, with an await at each and no      *)
(* transaction around them.                                                *)
(*                                                                         *)
(* Prices are in hundredths of a rupee, loads in percent.  A definition    *)
(* Mut_X is a mutated form of the definition it precedes.                  *)
(***************************************************************************)
EXTENDS Integers, FiniteSets, Sequences

CONSTANTS
  Loads,           \* the load_percentage of a regional aggregate
  OverridePrices,  \* the prices operators ask for
  BasePrice,       \* config.basePrice
  MinChange,       \* config.thresholds.minChangeThreshold
  Requests,        \* HTTP requests that may be in progress together
  NoPrice,         \* an absent cache key
  MayFail,         \* whether queries, commands and publications may fail
  MaxTime,         \* bound: the last instant of the clock
  TopicSize,       \* bound: regional aggregates in the topic
  MaxRequests,     \* bound: HTTP requests ever made
  MaxCrashes       \* bound: crashes and shutdowns

ASSUME LoadsAssumption == Loads \subseteq Nat
ASSUME PricesAssumption ==
  /\ BasePrice \in Nat \ {0} /\ MinChange \in Nat
  /\ OverridePrices \subseteq Nat
  /\ NoPrice \notin Nat
ASSUME TariffBoundsAssumption ==
  /\ MayFail \in BOOLEAN
  /\ MaxTime \in Nat /\ TopicSize \in Nat /\ MaxRequests \in Nat /\ MaxCrashes \in Nat
  /\ "consumer" \notin Requests

VARIABLES
  now,        \* the wall clock
  log,        \* aggregates_1m_regional, this region's messages
  pos,        \* messages 1..pos have been handled
  committed,  \* messages 1..committed are committed to the broker
  lastPrice,  \* lastPriceByRegion, NoPrice when the map has no entry
  tariffs,    \* the rows of the tariffs table
  cache,      \* the price in Redis, NoPrice when there is none
  announced,  \* the last price on the tariff_updates topic
  op,         \* what the consumer and each request are doing
  up,         \* the process is running
  nextId,     \* uuidv4
  requests,   \* HTTP requests made so far
  crashes,    \* crashes and shutdowns so far
  stored,     \* history: the prices the table has ever held
  disturbed   \* history: see CacheIsCurrentUnlessDisturbed

vars == <<now, log, pos, committed, lastPrice, tariffs, cache, announced, op, up,
          nextId, requests, crashes, stored, disturbed>>

-----------------------------------------------------------------------------
Max2(a, b) == IF a < b THEN b ELSE a
Dist(a, b) == Max2(a - b, b - a)

(* getPriceMultiplier, in percent. *)
Multiplier(load) ==
  CASE load > 90 -> 125
    [] load \in 76 .. 90 -> 110
    [] load \in 51 .. 75 -> 100
    [] load \in 26 .. 50 -> 90
    [] OTHER -> 80

(* parseFloat((basePrice * multiplier).toFixed(2)) *)
PriceFor(load) == (BasePrice * Multiplier(load) + 50) \div 100

(* validateRequest *)
Acceptable(price) == price >= 50 /\ price <= 2000

Price == Nat
Row   == [id : Nat, price : Price, from : 0 .. MaxTime, by : {"AUTO", "MANUAL"}]
NoRow == [id |-> 0, price |-> 0, from |-> 0, by |-> "AUTO"]

(* `ORDER BY effective_from DESC LIMIT 1': the database may return any row   *)
(* of the latest instant.                                                   *)
Latest(rows) == {r \in rows : \A q \in rows : q.from <= r.from}

Slots == Requests \cup {"consumer"}
Stage == {"idle", "insert", "cache", "publish", "delete", "latest", "read", "refill"}
Idle  == [stage |-> "idle", row |-> NoRow]

Busy(p)  == op[p].stage # "idle"
AllIdle  == \A p \in Slots : ~Busy(p)

Init ==
  /\ now = 0 /\ log = <<>> /\ pos = 0 /\ committed = 0
  /\ lastPrice = NoPrice
  /\ tariffs = {} /\ cache = NoPrice /\ announced = NoPrice
  /\ op = [p \in Slots |-> Idle]
  /\ up = TRUE
  /\ nextId = 1 /\ requests = 0 /\ crashes = 0
  /\ stored = {} /\ disturbed = FALSE

-----------------------------------------------------------------------------
Tick ==
  /\ now < MaxTime
  /\ now' = now + 1
  /\ UNCHANGED <<log, pos, committed, lastPrice, tariffs, cache, announced, op, up,
                 nextId, requests, crashes, stored, disturbed>>

(* The stream processor publishes a regional aggregate, stamped with the    *)
(* time of the flush; the consumer may get it later.                        *)
Emit(load) ==
  /\ Len(log) < TopicSize
  /\ log' = Append(log, [load |-> load, at |-> now])
  /\ UNCHANGED <<now, pos, committed, lastPrice, tariffs, cache, announced, op, up,
                 nextId, requests, crashes, stored, disturbed>>

Mut_CommitInProgress ==
  /\ up
  /\ committed < Len(log) /\ committed' = committed + 1
  /\ UNCHANGED <<now, log, pos, lastPrice, tariffs, cache, announced, op, up,
                 nextId, requests, crashes, stored, disturbed>>

(* kafkajs commits any prefix of what eachMessage has finished with. *)
Commit ==
  /\ up
  /\ \E c \in committed + 1 .. pos : committed' = c
  /\ UNCHANGED <<now, log, pos, lastPrice, tariffs, cache, announced, op, up,
                 nextId, requests, crashes, stored, disturbed>>

-----------------------------------------------------------------------------
(* p starts a sequence of awaits. *)
Start(p, stage, row) ==
  /\ up
  /\ ~Busy(p)
  /\ op' = [op EXCEPT ![p] = [stage |-> stage, row |-> row]]
  /\ disturbed' = (disturbed \/ ~AllIdle)

(* The handler of p ends, normally or in its catch block; eachMessage's     *)
(* offset is resolved either way.                                           *)
Finish(p) ==
  /\ op' = [op EXCEPT ![p] = Idle]
  /\ pos' = IF p = "consumer" THEN pos + 1 ELSE pos

Continue(p, stage, row) ==
  /\ op' = [op EXCEPT ![p] = [stage |-> stage, row |-> row]]
  /\ UNCHANGED pos

OldPrice == IF lastPrice = NoPrice THEN BasePrice ELSE lastPrice

(* handleMessage and handleAggregate up to the first await: calculateTariff  *)
(* moves lastPrice before anything is stored.                               *)
Consume ==
  /\ up
  /\ ~Busy("consumer")
  /\ pos < Len(log)
  /\ LET price == PriceFor(log[pos + 1].load)
     IN \/ /\ Dist(price, OldPrice) < MinChange
           /\ pos' = pos + 1
           /\ UNCHANGED <<lastPrice, op, nextId, disturbed>>
        \/ /\ Dist(price, OldPrice) >= MinChange
           /\ lastPrice' = price
           /\ Start("consumer", "insert", [id |-> nextId, price |-> price,
                                           from |-> log[pos + 1].at, by |-> "AUTO"])
           /\ nextId' = nextId + 1
           /\ UNCHANGED pos
  /\ UNCHANGED <<now, log, committed, tariffs, cache, announced, up, requests,
                 crashes, stored>>

NewRequest == requests < MaxRequests /\ requests' = requests + 1

(* handleOverride up to the insert. *)
Override(p, price) ==
  /\ NewRequest
  /\ Acceptable(price)
  /\ Start(p, "insert", [id |-> nextId, price |-> price, from |-> now, by |-> "MANUAL"])
  /\ nextId' = nextId + 1
  /\ UNCHANGED <<now, log, pos, committed, lastPrice, tariffs, cache, announced, up,
                 crashes, stored>>

(* removeOverride up to the delete: any row of the table will do. *)
Remove(p, row) ==
  /\ NewRequest
  /\ Start(p, "delete", row)
  /\ UNCHANGED <<now, log, pos, committed, lastPrice, tariffs, cache, announced, up,
                 nextId, crashes, stored>>

(* getCurrentTariff when the cache has no price. *)
Get(p) ==
  /\ NewRequest
  /\ cache = NoPrice
  /\ Start(p, "read", NoRow)
  /\ UNCHANGED <<now, log, pos, committed, lastPrice, tariffs, cache, announced, up,
                 nextId, crashes, stored>>

-----------------------------------------------------------------------------
(* insertTariff.  A row that is not the latest makes the cache, which is    *)
(* set next, differ from what getCurrentTariff would read.                  *)
Inserted(row) ==
  /\ tariffs' = tariffs \cup {row}
  /\ stored' = stored \cup {row.price}

InsertDone(p) ==
  /\ op[p].stage = "insert"
  /\ Inserted(op[p].row)
  /\ Continue(p, "cache", op[p].row)
  /\ disturbed' = (disturbed \/ \E q \in tariffs : q.from > op[p].row.from)
  /\ UNCHANGED <<now, log, committed, lastPrice, cache, announced, up, nextId,
                 requests, crashes>>

Mut_InsertFailureIgnored(p) ==
  /\ op[p].stage = "insert"
  /\ Inserted(op[p].row) \/ UNCHANGED <<tariffs, stored>>
  /\ Continue(p, "cache", op[p].row)
  /\ disturbed' = TRUE
  /\ UNCHANGED <<now, log, committed, lastPrice, cache, announced, up, nextId,
                 requests, crashes>>

(* The insert throws, with or without having taken effect; the catch block  *)
(* of the handler logs it.                                                  *)
InsertFails(p) ==
  /\ MayFail
  /\ op[p].stage = "insert"
  /\ Inserted(op[p].row) \/ UNCHANGED <<tariffs, stored>>
  /\ Finish(p)
  /\ disturbed' = TRUE
  /\ UNCHANGED <<now, log, committed, lastPrice, cache, announced, up, nextId,
                 requests, crashes>>

(* setTariff, and the end of a read-through or the publication next. *)
CacheSet(p) ==
  /\ op[p].stage \in {"cache", "refill"}
  /\ cache' = op[p].row.price
  /\ IF op[p].stage = "cache" THEN Continue(p, "publish", op[p].row) ELSE Finish(p)
  /\ UNCHANGED <<now, log, committed, lastPrice, tariffs, announced, up, nextId,
                 requests, crashes, stored, disturbed>>

CacheSetFails(p) ==
  /\ MayFail
  /\ op[p].stage \in {"cache", "refill"}
  /\ cache' \in {cache, op[p].row.price}
  /\ Finish(p)
  /\ disturbed' = TRUE
  /\ UNCHANGED <<now, log, committed, lastPrice, tariffs, announced, up, nextId,
                 requests, crashes, stored>>

(* publishTariffUpdate returns false when it fails, and nobody looks.       *)
PublishTariffUpdate(row) == announced' \in {announced, row.price}

PublishReturns(p) ==
  /\ op[p].stage = "publish"
  /\ PublishTariffUpdate(op[p].row)
  /\ Finish(p)
  /\ UNCHANGED <<now, log, committed, lastPrice, tariffs, cache, up, nextId,
                 requests, crashes, stored, disturbed>>

(* deleteTariff: another request may have deleted the row meanwhile, and    *)
(* then there is nothing more to do.                                        *)
DeleteDone(p) ==
  /\ op[p].stage = "delete"
  /\ tariffs' = tariffs \ {op[p].row}
  /\ \/ op[p].row \in tariffs /\ Continue(p, "latest", op[p].row)
     \/ op[p].row \notin tariffs /\ Finish(p)
  /\ UNCHANGED <<now, log, committed, lastPrice, cache, announced, up, nextId,
                 requests, crashes, stored, disturbed>>

DeleteFails(p) ==
  /\ MayFail
  /\ op[p].stage = "delete"
  /\ tariffs' \in {tariffs, tariffs \ {op[p].row}}
  /\ Finish(p)
  /\ disturbed' = TRUE
  /\ UNCHANGED <<now, log, committed, lastPrice, cache, announced, up, nextId,
                 requests, crashes, stored>>

(* getCurrentTariff of the database.  With no row left removeOverride       *)
(* leaves the cache as it is and publishes nothing; a get has nothing to    *)
(* cache.                                                                   *)
LatestRead(p) ==
  /\ op[p].stage \in {"latest", "read"}
  /\ LET next == IF op[p].stage = "latest" THEN "cache" ELSE "refill"
     IN \/ /\ \E r \in Latest(tariffs) : Continue(p, next, r)
           /\ UNCHANGED disturbed
        \/ /\ tariffs = {}
           /\ Finish(p)
           /\ disturbed' = (disturbed \/ op[p].stage = "latest")
  /\ UNCHANGED <<now, log, committed, lastPrice, tariffs, cache, announced, up,
                 nextId, requests, crashes, stored>>

LatestReadFails(p) ==
  /\ MayFail
  /\ op[p].stage \in {"latest", "read"}
  /\ Finish(p)
  /\ disturbed' = TRUE
  /\ UNCHANGED <<now, log, committed, lastPrice, tariffs, cache, announced, up,
                 nextId, requests, crashes, stored>>

-----------------------------------------------------------------------------
Mut_KeyNeverExpires == FALSE /\ UNCHANGED vars

(* The key's time to live is over. *)
Expire ==
  /\ cache # NoPrice
  /\ cache' = NoPrice
  /\ disturbed' = (disturbed /\ ~AllIdle)
  /\ UNCHANGED <<now, log, pos, committed, lastPrice, tariffs, announced, op, up,
                 nextId, requests, crashes, stored>>

(* The consumer's group starts again after the last committed message. *)
Rejoin == pos' = committed'

Crash ==
  /\ up
  /\ crashes < MaxCrashes
  /\ crashes' = crashes + 1
  /\ up' = FALSE
  /\ op' = [p \in Slots |-> Idle]
  /\ UNCHANGED committed
  /\ Rejoin
  /\ lastPrice' = NoPrice
  /\ UNCHANGED <<now, log, tariffs, cache, announced, nextId, requests, stored,
                 disturbed>>

(* shutdown: the server is closed when its requests have ended, the consumer *)
(* disconnects when its handler has, and what it has handled may be         *)
(* committed then.                                                          *)
Shutdown ==
  /\ up
  /\ AllIdle
  /\ crashes < MaxCrashes
  /\ crashes' = crashes + 1
  /\ up' = FALSE
  /\ \E c \in committed .. pos : committed' = c
  /\ Rejoin
  /\ lastPrice' = NoPrice
  /\ UNCHANGED <<now, log, tariffs, cache, announced, op, nextId, requests, stored,
                 disturbed>>

Mut_RestartWithoutPreload ==
  /\ ~up
  /\ up' = TRUE
  /\ \E r \in Latest(tariffs) : lastPrice' = r.price
  /\ disturbed' = FALSE
  /\ UNCHANGED <<now, log, pos, committed, tariffs, cache, announced, op, nextId,
                 requests, crashes, stored>>

PreloadTariffs(price) == cache' = price
SetLastPrice(price)   == lastPrice' = price

(* initialize: getAllCurrentTariffs, preloadTariffs, setLastPrice.  With an *)
(* empty table nothing is preloaded and an old price stays in the cache.    *)
Restart ==
  /\ ~up
  /\ up' = TRUE
  /\ \/ /\ \E r \in Latest(tariffs) : PreloadTariffs(r.price) /\ SetLastPrice(r.price)
        /\ disturbed' = FALSE
     \/ /\ tariffs = {}
        /\ disturbed' = (cache # NoPrice)
        /\ UNCHANGED <<cache, lastPrice>>
  /\ UNCHANGED <<now, log, pos, committed, tariffs, announced, op, nextId,
                 requests, crashes, stored>>

-----------------------------------------------------------------------------
Await(p) ==
  \/ InsertDone(p) \/ InsertFails(p) \/ CacheSet(p) \/ CacheSetFails(p)
  \/ PublishReturns(p) \/ DeleteDone(p) \/ DeleteFails(p)
  \/ LatestRead(p) \/ LatestReadFails(p)

Next ==
  \/ Tick \/ Commit \/ Consume \/ Expire \/ Crash \/ Shutdown \/ Restart
  \/ \E load \in Loads : Emit(load)
  \/ \E p \in Requests :
       \/ \E price \in OverridePrices : Override(p, price)
       \/ \E row \in tariffs : Remove(p, row)
       \/ Get(p)
  \/ \E p \in Slots : Await(p)

Spec == Init /\ [][Next]_vars

(* Every query, command and publication ends, the consumer goes on, keys    *)
(* expire, and the container is started again.                              *)
Fairness ==
  /\ WF_vars(Consume) /\ WF_vars(Expire) /\ WF_vars(Restart)
  /\ \A p \in Slots : WF_vars(Await(p))

FairSpec == Spec /\ Fairness

-----------------------------------------------------------------------------
TypeOK ==
  /\ now \in 0 .. MaxTime
  /\ log \in Seq([load : Loads, at : 0 .. MaxTime])
  /\ pos \in 0 .. Len(log)
  /\ committed \in 0 .. pos
  /\ lastPrice \in Price \cup {NoPrice}
  /\ tariffs \subseteq Row
  /\ cache \in Price \cup {NoPrice}
  /\ announced \in Price \cup {NoPrice}
  /\ op \in [Slots -> [stage : Stage, row : Row]]
  /\ op["consumer"].stage \in {"idle", "insert", "cache", "publish"}
  /\ Busy("consumer") => pos < Len(log)
  /\ up \in BOOLEAN
  /\ nextId \in Nat /\ requests \in 0 .. MaxRequests /\ crashes \in 0 .. MaxCrashes
  /\ stored \subseteq Price
  /\ disturbed \in BOOLEAN

(* The table comes first.  Whatever fails in between, a price in the cache, *)
(* which is what the gateway shows, or on tariff_updates, which is what     *)
(* users are told, has been in the table.                                   *)
PricesShownWereStored == {cache, announced} \subseteq stored \cup {NoPrice}

(* The cache follows the table.  When no handler is in progress the cached  *)
(* price is the one getCurrentTariff would read, or absent, unless          *)
(* something has disturbed it since the key last expired or the process     *)
(* last started: two handlers overlapped, a query or command failed, a row  *)
(* was stored with an older instant than the latest one, or the last row    *)
(* was removed.                                                             *)
CacheIsCurrent == cache = NoPrice \/ \E r \in Latest(tariffs) : r.price = cache

CacheIsCurrentUnlessDisturbed == up /\ AllIdle /\ ~disturbed => CacheIsCurrent

(* Whatever happened, the time to live repairs the cache for good once      *)
(* there are no more writes.                                                *)
CacheSettles == <>[]CacheIsCurrent

=============================================================================
