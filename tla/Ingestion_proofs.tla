-------------------------- MODULE Ingestion_proofs --------------------------
(* Proofs about Ingestion, for all sets of senders and readings.            *)
EXTENDS Ingestion, TLAPS, FiniteSetTheorems

(* The requests that are about to publish a reading. *)
Holders(requests, r) == {q \in requests : r \in q.unique}

(* How often a reading's marker has been set. *)
Lives(r) == expired[r] + (IF r \in marked THEN 1 ELSE 0)

(* Each life of a reading's marker puts the reading in one place: in a      *)
(* request's hands or in the topic.                                         *)
OnePlace ==
  /\ IsFiniteSet(inflight)
  /\ \A r \in Readings : published[r] + Cardinality(Holders(inflight, r)) <= Lives(r)

(* What is marked is accounted for, and so is what a request will answer    *)
(* for when it has published.                                               *)
MarkedIsAccounted ==
  /\ \A r \in marked : Accounted(r)
  /\ \A q \in inflight : q.stage = "publish" => \A r \in Load[q.sender] : Accounted(r)

IInv == TypeOK /\ OnePlace /\ MarkedIsAccounted /\ SuccessIsAccounted

-----------------------------------------------------------------------------
(* A sender that tries again has an attempt left. *)
LEMMA RetryType ==
  ASSUME TypeOK, NEW s \in Senders
  PROVE  /\ Retry(s) \in {"ready", "failed"}
         /\ Retry(s) = "ready" => attempt[s] < Attempts
BY DEF Retry, TypeOK

(* The type of the senders is kept by an answer. *)
LEMMA AnswerType ==
  ASSUME TypeOK, NEW q \in inflight, NEW ok \in BOOLEAN, Answer(q, ok), UNCHANGED attempt
  PROVE  /\ state' \in [Senders -> {"ready", "waiting", "succeeded", "failed"}]
         /\ \A s \in Senders : state'[s] = "ready" => attempt'[s] < Attempts
         /\ inflight' = inflight \ {q}
         /\ \A s \in Senders : state'[s] = "succeeded" =>
              state[s] = "succeeded" \/ (ok /\ s = q.sender)
<1>1. q.sender \in Senders
  BY DEF TypeOK, Request
<1>2. /\ Retry(q.sender) \in {"ready", "failed"}
      /\ Retry(q.sender) = "ready" => attempt[q.sender] < Attempts
  BY <1>1, RetryType
<1>. QED
  BY <1>1, <1>2 DEF Answer, TypeOK

-----------------------------------------------------------------------------
(* Some of finitely many requests hold a reading. *)
LEMMA HoldersCounted ==
  ASSUME NEW requests, IsFiniteSet(requests), NEW r
  PROVE  /\ IsFiniteSet(Holders(requests, r))
         /\ Cardinality(Holders(requests, r)) \in Nat
<1>1. Holders(requests, r) \in SUBSET requests
  BY DEF Holders
<1>2. IsFiniteSet(Holders(requests, r))
  BY <1>1, FS_Subset
<1>. QED
  BY <1>2, FS_CardinalityType

(* No request, no holder. *)
LEMMA NoHolders ==
  ASSUME NEW r
  PROVE  Cardinality(Holders({}, r)) = 0
<1>1. Holders({}, r) = {}
  BY DEF Holders
<1>. QED
  BY <1>1, FS_EmptySet

(* A request that comes is one holder more at most, of its readings only. *)
LEMMA HolderComes ==
  ASSUME NEW requests, IsFiniteSet(requests), NEW p, NEW r
  PROVE  /\ IsFiniteSet(requests \cup {p})
         /\ r \notin p.unique => Holders(requests \cup {p}, r) = Holders(requests, r)
         /\ Cardinality(Holders(requests \cup {p}, r))
              <= Cardinality(Holders(requests, r)) + 1
<1>1. IsFiniteSet(requests \cup {p})
  BY FS_AddElement
<1>2. r \notin p.unique => Holders(requests \cup {p}, r) = Holders(requests, r)
  BY DEF Holders
<1>3. Cardinality(Holders(requests, r)) \in Nat /\ IsFiniteSet(Holders(requests, r))
  BY HoldersCounted
<1>4. CASE r \in p.unique
  <2>1. Holders(requests \cup {p}, r) = Holders(requests, r) \cup {p}
    BY <1>4 DEF Holders
  <2>2. Cardinality(Holders(requests, r) \cup {p}) =
          IF p \in Holders(requests, r) THEN Cardinality(Holders(requests, r))
                                        ELSE Cardinality(Holders(requests, r)) + 1
    BY <1>3, FS_AddElement
  <2>3. Cardinality(Holders(requests, r) \cup {p}) <= Cardinality(Holders(requests, r)) + 1
    BY <1>3, <2>2
  <2>. QED
    BY <1>1, <1>4, <2>1, <2>3
<1>5. CASE r \notin p.unique
  <2>1. Cardinality(Holders(requests, r)) <= Cardinality(Holders(requests, r)) + 1
    BY <1>3
  <2>. QED
    BY <1>1, <1>2, <1>5, <2>1
<1>. QED
  BY <1>4, <1>5

(* A request that goes takes its readings with it, and nothing else. *)
LEMMA HolderGoes ==
  ASSUME NEW requests, IsFiniteSet(requests), NEW q \in requests, NEW r
  PROVE  /\ IsFiniteSet(requests \ {q})
         /\ r \notin q.unique => Holders(requests \ {q}, r) = Holders(requests, r)
         /\ r \in q.unique => Cardinality(Holders(requests \ {q}, r)) =
                              Cardinality(Holders(requests, r)) - 1
<1>1. IsFiniteSet(requests \ {q})
  BY FS_RemoveElement
<1>2. r \notin q.unique => Holders(requests \ {q}, r) = Holders(requests, r)
  BY DEF Holders
<1>3. ASSUME r \in q.unique
      PROVE  Cardinality(Holders(requests \ {q}, r)) = Cardinality(Holders(requests, r)) - 1
  <2>1. /\ Holders(requests \ {q}, r) = Holders(requests, r) \ {q}
        /\ q \in Holders(requests, r)
    BY <1>3 DEF Holders
  <2>2. IsFiniteSet(Holders(requests, r))
    BY HoldersCounted
  <2>. QED
    BY <2>1, <2>2, FS_RemoveElement
<1>. QED
  BY <1>1, <1>2, <1>3

(* The lives of a marker are counted. *)
LEMMA LivesCounted ==
  ASSUME TypeOK, NEW r \in Readings
  PROVE  Lives(r) \in Nat
BY DEF Lives, TypeOK

(* A step that leaves readings with the requests that hold them, publishes  *)
(* nothing and ends no marker keeps each reading in one place.              *)
LEMMA PlaceKept ==
  ASSUME TypeOK, OnePlace, IsFiniteSet(inflight'), marked \subseteq marked',
         \A r \in Readings : Holders(inflight', r) = Holders(inflight, r),
         UNCHANGED <<published, expired>>
  PROVE  OnePlace'
<1>. SUFFICES ASSUME NEW r \in Readings
              PROVE  published[r] + Cardinality(Holders(inflight, r)) <= Lives(r)'
  BY DEF OnePlace
<1>1. /\ published[r] + Cardinality(Holders(inflight, r)) <= Lives(r)
      /\ published[r] \in Nat
      /\ Cardinality(Holders(inflight, r)) \in Nat
      /\ Lives(r) \in Nat
  BY HoldersCounted, LivesCounted DEF OnePlace, TypeOK
<1>2. Lives(r)' \in Nat /\ Lives(r) <= Lives(r)'
  BY DEF Lives, TypeOK
<1>. QED
  BY <1>1, <1>2

(* The initial states satisfy the invariant. *)
LEMMA InitInvariant == Init => IInv
<1>. SUFFICES ASSUME Init PROVE IInv
  OBVIOUS
<1>1. TypeOK
  BY LoadAssumption, IngestionBoundsAssumption DEF Init, TypeOK
<1>2. OnePlace
  BY NoHolders, FS_EmptySet DEF Init, OnePlace, Lives
<1>3. MarkedIsAccounted /\ SuccessIsAccounted
  BY DEF Init, MarkedIsAccounted, SuccessIsAccounted
<1>. QED
  BY <1>1, <1>2, <1>3 DEF IInv

(* Adding readings to the topic. *)
LEMMA AddType ==
  ASSUME TypeOK, NEW readings, Add(readings)
  PROVE  /\ published' \in [Readings -> Nat]
         /\ \A r \in Readings : r \in readings => published'[r] = published[r] + 1
         /\ \A r \in Readings : r \notin readings => published'[r] = published[r]
BY DEF Add, TypeOK

(* Type correctness is kept by every step. *)
LEMMA StepType ==
  ASSUME TypeOK, [Next]_vars
  PROVE  TypeOK'
<1>. USE LoadAssumption, IngestionBoundsAssumption DEF senders, history
<1>1. ASSUME NEW s \in Senders, Post(s) PROVE TypeOK'
  <2>1. attempt[s] \in 0 .. Attempts - 1
    BY <1>1 DEF Post, TypeOK
  <2>2. attempt' \in [Senders -> 0 .. Attempts] /\ attempt'[s] \in 1 .. Attempts
    BY <1>1, <2>1 DEF Post, TypeOK
  <2>3. inflight' \subseteq Request
    BY <1>1, <2>2 DEF Post, TypeOK, Request
  <2>. QED
    BY <1>1, <2>1, <2>2, <2>3 DEF Post, TypeOK
<1>2. ASSUME NEW s \in Senders, Timeout(s) PROVE TypeOK'
  BY <1>2, RetryType DEF Timeout, TypeOK
<1>3. ASSUME NEW q \in inflight, CheckAndMark(q) PROVE TypeOK'
  <2>1. q \in Request /\ q.sender \in Senders /\ Load[q.sender] \subseteq Readings
    BY DEF TypeOK, Request
  <2>2. marked' \subseteq Readings
    BY <1>3, <2>1 DEF CheckAndMark, TypeOK
  <2>3. CASE Load[q.sender] \ marked # {}
    <3>. DEFINE p == [q EXCEPT !.stage = "publish", !.unique = Load[q.sender] \ marked]
    <3>1. p \in Request
      BY <2>1 DEF Request
    <3>2. inflight' = (inflight \ {q}) \cup {p} /\ UNCHANGED state
      BY <1>3, <2>3 DEF CheckAndMark
    <3>3. p.stage # "check"
      BY <2>1 DEF Request
    <3>. HIDE DEF p
    <3>4. inflight' \subseteq Request
      BY <3>1, <3>2 DEF TypeOK
    <3>5. \A z \in inflight' : z.stage = "check" => z.unique = {}
      BY <3>2, <3>3 DEF TypeOK
    <3>6. UNCHANGED <<attempt, state, published, faults, expiries, lost, expired>>
      BY <1>3, <3>2 DEF CheckAndMark
    <3>. QED
      BY <2>2, <3>4, <3>5, <3>6 DEF TypeOK
  <2>4. CASE Load[q.sender] \ marked = {}
    <3>1. Answer(q, TRUE) /\ UNCHANGED attempt
      BY <1>3, <2>4 DEF CheckAndMark
    <3>. QED
      BY <1>3, <2>2, <3>1, AnswerType DEF CheckAndMark, TypeOK
  <2>. QED
    BY <2>3, <2>4
<1>4. ASSUME NEW q \in inflight, CheckFails(q) PROVE TypeOK'
  <2>1. q.sender \in Senders /\ Load[q.sender] \subseteq Readings
    BY DEF TypeOK, Request
  <2>2. Answer(q, FALSE) /\ UNCHANGED attempt
    BY <1>4 DEF CheckFails
  <2>3. faults' \in 0 .. MaxFaults
    BY <1>4 DEF CheckFails, Fault, TypeOK
  <2>4. marked' \subseteq Readings /\ lost' \subseteq Readings
    BY <1>4, <2>1 DEF CheckFails, TypeOK
  <2>. QED
    BY <1>4, <2>2, <2>3, <2>4, AnswerType DEF CheckFails, TypeOK
<1>5. ASSUME NEW q \in inflight, Publish(q) PROVE TypeOK'
  <2>1. Answer(q, TRUE) /\ UNCHANGED attempt
    BY <1>5 DEF Publish
  <2>. QED
    BY <1>5, <2>1, AnswerType, AddType DEF Publish, TypeOK
<1>6. ASSUME NEW q \in inflight, PublishFails(q) PROVE TypeOK'
  <2>1. Answer(q, q.sender \notin Singles) /\ UNCHANGED attempt
    BY <1>6 DEF PublishFails
  <2>2. q.unique \subseteq Readings
    BY DEF TypeOK, Request
  <2>3. PICK done \in SUBSET q.unique : Add(done) /\ lost' = lost \cup (q.unique \ done)
    BY <1>6 DEF PublishFails
  <2>4. published' \in [Readings -> Nat]
    BY <2>3, AddType
  <2>5. faults' \in 0 .. MaxFaults
    BY <1>6 DEF PublishFails, Fault, TypeOK
  <2>6. lost' \subseteq Readings
    BY <2>2, <2>3 DEF TypeOK
  <2>7. (q.sender \notin Singles) \in BOOLEAN
    OBVIOUS
  <2>8. /\ state' \in [Senders -> {"ready", "waiting", "succeeded", "failed"}]
        /\ \A s \in Senders : state'[s] = "ready" => attempt'[s] < Attempts
        /\ inflight' = inflight \ {q}
    BY <2>1, <2>7, AnswerType
  <2>. QED
    BY <1>6, <2>4, <2>5, <2>6, <2>8 DEF PublishFails, TypeOK
<1>7. ASSUME NEW r \in Readings, Expire(r) PROVE TypeOK'
  BY <1>7 DEF Expire, TypeOK
<1>8. ASSUME Crash PROVE TypeOK'
  <2>1. \A s \in Senders : Retry(s) \in {"ready", "failed"}
                           /\ (Retry(s) = "ready" => attempt[s] < Attempts)
    BY RetryType
  <2>. QED
    BY <1>8, <2>1 DEF Crash, Fault, TypeOK
<1>9. CASE UNCHANGED vars
  BY <1>9 DEF vars, TypeOK
<1>. QED
  BY <1>1, <1>2, <1>3, <1>4, <1>5, <1>6, <1>7, <1>8, <1>9 DEF Next, Work

-----------------------------------------------------------------------------
(* A step that accounts for what was accounted for, and marks, starts to    *)
(* publish or acknowledges only what is accounted for, keeps the two        *)
(* invariants about accounts.                                               *)
LEMMA AccountsKept ==
  ASSUME TypeOK, MarkedIsAccounted, SuccessIsAccounted,
         \A r \in Readings : Accounted(r) => Accounted(r)',
         \A r \in marked' : r \in marked \/ Accounted(r)',
         \A q \in inflight' : q.stage = "publish" =>
            q \in inflight \/ \A r \in Load[q.sender] : Accounted(r)',
         \A s \in Senders : state'[s] = "succeeded" =>
            state[s] = "succeeded" \/ \A r \in Load[s] : Accounted(r)'
  PROVE  MarkedIsAccounted' /\ SuccessIsAccounted'
<1>. USE LoadAssumption
<1>1. marked \subseteq Readings /\ \A q \in inflight : Load[q.sender] \subseteq Readings
  BY DEF TypeOK, Request
<1>2. MarkedIsAccounted'
  BY <1>1 DEF MarkedIsAccounted
<1>3. SuccessIsAccounted'
  BY DEF SuccessIsAccounted
<1>. QED
  BY <1>2, <1>3

(* A request that has published some of its readings and lost the others.   *)
LEMMA PublishedSome ==
  ASSUME TypeOK, OnePlace, NEW q \in inflight, NEW done \in SUBSET q.unique, Add(done),
         inflight' = inflight \ {q}, UNCHANGED <<marked, expired>>,
         lost' = lost \cup (q.unique \ done)
  PROVE  OnePlace' /\ \A r \in Readings : Accounted(r) => Accounted(r)'
<1>1. \A r \in Readings : /\ r \in done => published'[r] = published[r] + 1
                          /\ r \notin done => published'[r] = published[r]
                          /\ published[r] \in Nat
  BY AddType DEF TypeOK
<1>2. \A r \in Readings : Accounted(r) => Accounted(r)'
  <2>. SUFFICES ASSUME NEW r \in Readings, Accounted(r)
                PROVE  Accounted(r)'
    OBVIOUS
  <2>1. CASE r \in q.unique
    <3>1. CASE r \in done
      <4>1. published[r] \in Nat /\ published'[r] = published[r] + 1
        BY <1>1, <3>1
      <4>2. published'[r] > 0
        BY <4>1
      <4>. QED
        BY <4>2 DEF Accounted
    <3>2. CASE r \notin done
      <4>1. r \in lost'
        BY <2>1, <3>2
      <4>. QED
        BY <4>1 DEF Accounted
    <3>. QED
      BY <3>1, <3>2
  <2>2. CASE r \notin q.unique
    <3>1. Pending(r) => Pending(r)'
      BY <2>2 DEF Pending
    <3>. QED
      BY <1>1, <2>2, <3>1 DEF Accounted
  <2>. QED
    BY <2>1, <2>2
<1>3. OnePlace'
  <2>1. IsFiniteSet(inflight) /\ IsFiniteSet(inflight')
    BY FS_RemoveElement DEF OnePlace
  <2>. SUFFICES ASSUME NEW r \in Readings
                PROVE  published'[r] + Cardinality(Holders(inflight', r)) <= Lives(r)
    BY <2>1 DEF OnePlace, Lives
  <2>2. /\ published[r] + Cardinality(Holders(inflight, r)) <= Lives(r)
        /\ Cardinality(Holders(inflight, r)) \in Nat
        /\ Lives(r) \in Nat
    BY <2>1, HoldersCounted, LivesCounted DEF OnePlace
  <2>3. CASE r \in q.unique
    <3>1. Cardinality(Holders(inflight', r)) = Cardinality(Holders(inflight, r)) - 1
      BY <2>1, <2>3, HolderGoes
    <3>2. published[r] \in Nat /\ published'[r] \in {published[r], published[r] + 1}
      BY <1>1
    <3>. QED
      BY <2>2, <3>1, <3>2
  <2>4. CASE r \notin q.unique
    <3>1. Holders(inflight', r) = Holders(inflight, r)
      BY <2>1, <2>4, HolderGoes
    <3>2. published'[r] = published[r]
      BY <1>1, <2>4
    <3>. QED
      BY <2>2, <3>1, <3>2
  <2>. QED
    BY <2>3, <2>4
<1>. QED
  BY <1>2, <1>3

(* Every step keeps the invariants. *)
LEMMA StepInvariant ==
  ASSUME IInv, [Next]_vars
  PROVE  OnePlace' /\ MarkedIsAccounted' /\ SuccessIsAccounted'
<1>. USE LoadAssumption DEF senders, history
<1>0. TypeOK /\ OnePlace /\ MarkedIsAccounted /\ SuccessIsAccounted
  BY DEF IInv
<1>1. ASSUME NEW s \in Senders, Post(s)
      PROVE  OnePlace' /\ MarkedIsAccounted' /\ SuccessIsAccounted'
  <2>. DEFINE n == [sender |-> s, attempt |-> attempt'[s], stage |-> "check", unique |-> {}]
  <2>1. inflight' = inflight \cup {n} /\ UNCHANGED <<marked, published, history>>
    BY <1>1 DEF Post
  <2>2. n.unique = {} /\ n.stage = "check"
    OBVIOUS
  <2>. HIDE DEF n
  <2>3. \A r \in Readings : Pending(r)' <=> Pending(r)
    BY <2>1, <2>2 DEF Pending
  <2>4. \A r \in Readings : Accounted(r)' <=> Accounted(r)
    BY <2>1, <2>3 DEF Accounted
  <2>5. OnePlace'
    <3>1. IsFiniteSet(inflight')
      BY <1>0, <2>1, FS_AddElement DEF OnePlace
    <3>2. \A r \in Readings : Holders(inflight', r) = Holders(inflight, r)
      BY <2>1, <2>2 DEF Holders
    <3>. QED
      BY <1>0, <2>1, <3>1, <3>2, PlaceKept
  <2>6. \A t \in Senders : state'[t] = "succeeded" => state[t] = "succeeded"
    BY <1>0, <1>1 DEF Post, TypeOK
  <2>. QED
    BY <1>0, <2>1, <2>2, <2>4, <2>5, <2>6, AccountsKept
<1>2. ASSUME NEW s \in Senders, Timeout(s)
      PROVE  OnePlace' /\ MarkedIsAccounted' /\ SuccessIsAccounted'
  <2>1. \A t \in Senders : state'[t] = "succeeded" => state[t] = "succeeded"
    BY <1>0, <1>2, RetryType DEF Timeout, TypeOK
  <2>2. UNCHANGED <<inflight, marked, published, history>>
    BY <1>2 DEF Timeout
  <2>3. OnePlace'
    BY <1>0, <2>2 DEF OnePlace, Lives
  <2>4. \A r \in Readings : Accounted(r)' <=> Accounted(r)
    BY <2>2 DEF Accounted, Pending
  <2>. QED
    BY <1>0, <2>1, <2>2, <2>3, <2>4, AccountsKept
<1>3. ASSUME NEW q \in inflight, CheckAndMark(q)
      PROVE  OnePlace' /\ MarkedIsAccounted' /\ SuccessIsAccounted'
  <2>. DEFINE unique == Load[q.sender] \ marked
              p == [q EXCEPT !.stage = "publish", !.unique = unique]
  <2>0. q \in Request /\ q.sender \in Senders /\ Load[q.sender] \subseteq Readings
    BY <1>0 DEF TypeOK, Request
  <2>1. marked' = marked \cup Load[q.sender] /\ UNCHANGED <<published, history>>
    BY <1>3 DEF CheckAndMark
  <2>2. CASE unique # {}
    <3>1. inflight' = (inflight \ {q}) \cup {p} /\ UNCHANGED state
      BY <1>3, <2>2 DEF CheckAndMark
    <3>2. p.unique = unique /\ p.sender = q.sender
      BY <2>0 DEF Request
    <3>3. \A r \in unique : r \in Readings /\ r \in Load[q.sender] /\ r \notin marked
      BY <2>0
    <3>. HIDE DEF p, unique
    <3>4. \A r \in Readings : Pending(r)' => Pending(r) \/ r \in unique
      BY <3>1, <3>2 DEF Pending
    <3>5. \A r \in unique : Pending(r)'
      BY <3>1, <3>2 DEF Pending
    <3>6. OnePlace'
      <4>. DEFINE others == inflight \ {q}
      <4>1. IsFiniteSet(inflight) /\ IsFiniteSet(others) /\ IsFiniteSet(inflight')
        BY <1>0, <3>1, FS_AddElement, FS_RemoveElement DEF OnePlace
      <4>2. q.unique = {}
        BY <1>0, <1>3 DEF CheckAndMark, TypeOK
      <4>. HIDE DEF others
      <4>3. inflight' = others \cup {p}
        BY <3>1 DEF others
      <4>. SUFFICES ASSUME NEW r \in Readings
                    PROVE  published[r] + Cardinality(Holders(inflight', r)) <= Lives(r)'
        BY <2>1, <4>1 DEF OnePlace
      <4>4. Holders(others, r) = Holders(inflight, r)
        BY <4>2 DEF Holders, others
      <4>5. /\ published[r] + Cardinality(Holders(inflight, r)) <= Lives(r)
            /\ published[r] \in Nat
            /\ Cardinality(Holders(inflight, r)) \in Nat
            /\ Cardinality(Holders(inflight', r)) \in Nat
            /\ Lives(r) \in Nat
        BY <1>0, <4>1, HoldersCounted, LivesCounted DEF OnePlace, TypeOK
      <4>6. CASE r \in unique
        <5>1. Lives(r)' = Lives(r) + 1
          BY <1>0, <2>1, <3>3, <4>6 DEF Lives, TypeOK
        <5>2. Cardinality(Holders(inflight', r)) <= Cardinality(Holders(inflight, r)) + 1
          BY <4>1, <4>3, <4>4, HolderComes
        <5>. QED
          BY <4>5, <5>1, <5>2
      <4>7. CASE r \notin unique
        <5>1. Lives(r)' \in Nat /\ Lives(r) <= Lives(r)'
          BY <1>0, <2>1 DEF Lives, TypeOK
        <5>2. Holders(inflight', r) = Holders(inflight, r)
          BY <3>2, <4>1, <4>3, <4>4, <4>7, HolderComes
        <5>. QED
          BY <4>5, <5>1, <5>2
      <4>. QED
        BY <4>6, <4>7
    <3>7. \A r \in Readings : Accounted(r) => Accounted(r)'
      <4>. SUFFICES ASSUME NEW r \in Readings, Accounted(r)
                    PROVE  Accounted(r)'
        OBVIOUS
      <4>1. CASE Pending(r)
        <5>1. PICK a \in inflight : r \in a.unique
          BY <4>1 DEF Pending
        <5>2. CASE a # q
          BY <3>1, <5>1, <5>2 DEF Accounted, Pending
        <5>3. CASE a = q
          BY <1>0, <1>3, <5>1, <5>3 DEF CheckAndMark, TypeOK
        <5>. QED
          BY <5>2, <5>3
      <4>. QED
        BY <2>1, <4>1 DEF Accounted
    <3>8. \A r \in Load[q.sender] : Accounted(r)'
      <4>. SUFFICES ASSUME NEW r \in Load[q.sender]
                    PROVE  Accounted(r)'
        OBVIOUS
      <4>1. CASE r \in marked
        BY <1>0, <2>0, <3>7, <4>1 DEF MarkedIsAccounted
      <4>2. CASE r \notin marked
        BY <3>5, <4>2 DEF unique, Accounted
      <4>. QED
        BY <4>1, <4>2
    <3>. QED
      BY <1>0, <2>1, <3>1, <3>2, <3>6, <3>7, <3>8, AccountsKept
  <2>3. CASE unique = {}
    <3>1. Answer(q, TRUE) /\ UNCHANGED attempt
      BY <1>3, <2>3 DEF CheckAndMark
    <3>2. inflight' = inflight \ {q} /\ marked' = marked
      BY <2>1, <2>3, <3>1 DEF Answer
    <3>3. q.unique = {}
      BY <1>0, <1>3 DEF CheckAndMark, TypeOK
    <3>4. \A r \in Readings : Pending(r)' <=> Pending(r)
      BY <3>2, <3>3 DEF Pending
    <3>5. \A r \in Readings : Accounted(r)' <=> Accounted(r)
      BY <2>1, <3>4 DEF Accounted
    <3>6. OnePlace'
      <4>1. IsFiniteSet(inflight')
        BY <1>0, <3>2, FS_RemoveElement DEF OnePlace
      <4>2. \A r \in Readings : Holders(inflight', r) = Holders(inflight, r)
        BY <3>2, <3>3 DEF Holders
      <4>. QED
        BY <1>0, <2>1, <3>2, <4>1, <4>2, PlaceKept
    <3>7. \A r \in Load[q.sender] : Accounted(r)'
      BY <1>0, <2>0, <2>3, <3>5 DEF MarkedIsAccounted
    <3>8. \A s \in Senders : state'[s] = "succeeded" =>
             state[s] = "succeeded" \/ s = q.sender
      BY <1>0, <3>1, AnswerType
    <3>. QED
      BY <1>0, <3>2, <3>5, <3>6, <3>7, <3>8, AccountsKept
  <2>. QED
    BY <2>2, <2>3
<1>4. ASSUME NEW q \in inflight, CheckFails(q)
      PROVE  OnePlace' /\ MarkedIsAccounted' /\ SuccessIsAccounted'
  <2>1. PICK done \in SUBSET (Load[q.sender] \ marked) :
          marked' = marked \cup done /\ lost' = lost \cup done
    BY <1>4 DEF CheckFails
  <2>2. Answer(q, FALSE) /\ UNCHANGED <<attempt, published, expired>>
    BY <1>4 DEF CheckFails
  <2>3. inflight' = inflight \ {q}
    BY <2>2 DEF Answer
  <2>4. q.unique = {}
    BY <1>0, <1>4 DEF CheckFails, TypeOK
  <2>5. \A r \in Readings : Pending(r)' <=> Pending(r)
    BY <2>3, <2>4 DEF Pending
  <2>6. \A r \in Readings : Accounted(r) => Accounted(r)'
    BY <2>1, <2>2, <2>5 DEF Accounted
  <2>7. \A r \in done : Accounted(r)'
    BY <2>1 DEF Accounted
  <2>8. OnePlace'
    <3>1. IsFiniteSet(inflight')
      BY <1>0, <2>3, FS_RemoveElement DEF OnePlace
    <3>2. \A r \in Readings : Holders(inflight', r) = Holders(inflight, r)
      BY <2>3, <2>4 DEF Holders
    <3>. QED
      BY <1>0, <2>1, <2>2, <3>1, <3>2, PlaceKept
  <2>9. \A s \in Senders : state'[s] = "succeeded" => state[s] = "succeeded"
    BY <1>0, <2>2, AnswerType
  <2>. QED
    BY <1>0, <2>1, <2>3, <2>6, <2>7, <2>8, <2>9, AccountsKept
<1>5. ASSUME NEW q \in inflight, Publish(q)
      PROVE  OnePlace' /\ MarkedIsAccounted' /\ SuccessIsAccounted'
  <2>1. Answer(q, TRUE) /\ Add(q.unique) /\ UNCHANGED <<attempt, marked, history>>
    BY <1>5 DEF Publish
  <2>2. q.stage = "publish" /\ q.sender \in Senders /\ Load[q.sender] \subseteq Readings
    BY <1>0, <1>5 DEF Publish, TypeOK, Request
  <2>3. /\ \A s \in Senders : state'[s] = "succeeded" =>
              state[s] = "succeeded" \/ s = q.sender
        /\ inflight' = inflight \ {q}
    BY <1>0, <2>1, AnswerType
  <2>4. OnePlace' /\ \A r \in Readings : Accounted(r) => Accounted(r)'
    BY <1>0, <2>1, <2>3, PublishedSome, lost' = lost \cup (q.unique \ q.unique)
  <2>5. \A r \in Load[q.sender] : Accounted(r)'
    BY <1>0, <2>2, <2>4 DEF MarkedIsAccounted
  <2>. QED
    BY <1>0, <2>1, <2>3, <2>4, <2>5, AccountsKept
<1>6. ASSUME NEW q \in inflight, PublishFails(q)
      PROVE  OnePlace' /\ MarkedIsAccounted' /\ SuccessIsAccounted'
  <2>1. Answer(q, q.sender \notin Singles) /\ UNCHANGED <<attempt, marked, expired>>
    BY <1>6 DEF PublishFails
  <2>2. PICK done \in SUBSET q.unique : Add(done) /\ lost' = lost \cup (q.unique \ done)
    BY <1>6 DEF PublishFails
  <2>3. q.stage = "publish" /\ q.sender \in Senders /\ Load[q.sender] \subseteq Readings
    BY <1>0, <1>6 DEF PublishFails, TypeOK, Request
  <2>4. (q.sender \notin Singles) \in BOOLEAN
    OBVIOUS
  <2>5. /\ \A s \in Senders : state'[s] = "succeeded" =>
              state[s] = "succeeded" \/ s = q.sender
        /\ inflight' = inflight \ {q}
    BY <1>0, <2>1, <2>4, AnswerType
  <2>6. OnePlace' /\ \A r \in Readings : Accounted(r) => Accounted(r)'
    BY <1>0, <2>1, <2>2, <2>5, PublishedSome
  <2>7. \A r \in Load[q.sender] : Accounted(r)'
    BY <1>0, <2>3, <2>6 DEF MarkedIsAccounted
  <2>. QED
    BY <1>0, <2>1, <2>5, <2>6, <2>7, AccountsKept
<1>7. ASSUME NEW r \in Readings, Expire(r)
      PROVE  OnePlace' /\ MarkedIsAccounted' /\ SuccessIsAccounted'
  <2>0. r \in marked
    BY <1>7 DEF Expire
  <2>1. /\ marked' = marked \ {r} /\ expired' = [expired EXCEPT ![r] = @ + 1]
        /\ UNCHANGED <<senders, inflight, published, lost>>
    BY <1>7 DEF Expire
  <2>2. \A t \in Readings : (Pending(t)' <=> Pending(t)) /\ (Accounted(t)' <=> Accounted(t))
    BY <2>1 DEF Pending, Accounted
  <2>3. OnePlace'
    <3>1. \A t \in Readings : Lives(t)' = Lives(t)
      BY <1>0, <2>0, <2>1 DEF Lives, TypeOK
    <3>. QED
      BY <1>0, <2>1, <3>1 DEF OnePlace
  <2>. QED
    BY <1>0, <2>1, <2>2, <2>3, AccountsKept
<1>8. ASSUME Crash
      PROVE  OnePlace' /\ MarkedIsAccounted' /\ SuccessIsAccounted'
  <2>1. /\ inflight' = {} /\ lost' = lost \cup {r \in Readings : Pending(r)}
        /\ UNCHANGED <<attempt, marked, published, expired>>
        /\ state' = [s \in Senders |-> IF state[s] = "waiting" THEN Retry(s) ELSE state[s]]
    BY <1>8 DEF Crash
  <2>2. \A r \in Readings : ~Pending(r)'
    BY <2>1 DEF Pending
  <2>3. \A r \in Readings : Accounted(r) => Accounted(r)'
    BY <2>1 DEF Accounted
  <2>4. OnePlace'
    <3>1. IsFiniteSet(inflight')
      BY <2>1, FS_EmptySet
    <3>. SUFFICES ASSUME NEW r \in Readings
                  PROVE  published[r] + Cardinality(Holders({}, r)) <= Lives(r)
      BY <2>1, <3>1 DEF OnePlace, Lives
    <3>2. /\ published[r] + Cardinality(Holders(inflight, r)) <= Lives(r)
          /\ published[r] \in Nat
          /\ Cardinality(Holders(inflight, r)) \in Nat
          /\ Lives(r) \in Nat
      BY <1>0, HoldersCounted, LivesCounted DEF OnePlace, TypeOK
    <3>. QED
      BY <3>2, NoHolders
  <2>5. \A s \in Senders : state'[s] = "succeeded" => state[s] = "succeeded"
    BY <1>0, <2>1, RetryType
  <2>. QED
    BY <1>0, <2>1, <2>3, <2>4, <2>5, AccountsKept
<1>9. CASE UNCHANGED vars
  <2>1. UNCHANGED <<attempt, state, inflight, marked, published, lost, expired>>
    BY <1>9 DEF vars
  <2>2. OnePlace'
    BY <1>0, <2>1 DEF OnePlace, Lives
  <2>. QED
    BY <1>0, <2>1, <2>2 DEF MarkedIsAccounted, SuccessIsAccounted, Accounted, Pending
<1>. QED
  BY <1>1, <1>2, <1>3, <1>4, <1>5, <1>6, <1>7, <1>8, <1>9 DEF Next, Work

-----------------------------------------------------------------------------
(* The inductive invariant: a life of a reading's marker puts it in at most *)
(* one place, and what is marked is accounted for.                          *)
THEOREM IngestionInvariant == Spec => []IInv
<1>1. IInv /\ [Next]_vars => IInv'
  BY StepType, StepInvariant DEF IInv
<1>. QED
  BY InitInvariant, <1>1, PTL DEF Spec

(* Type correctness of the ingestion service and its senders. *)
THEOREM IngestionTypes == Spec => []TypeOK
BY IngestionInvariant, PTL DEF IInv

(* raw_readings has a reading at most once for each life of its marker,     *)
(* however the requests and retries overlap and whenever markers expire.    *)
THEOREM PublishedOnce == Spec => []OncePerMarker
<1>1. IInv => OncePerMarker
  <2>. SUFFICES ASSUME IInv, NEW r \in Readings
                PROVE  published[r] <= Lives(r)
    BY DEF OncePerMarker, Lives
  <2>1. /\ published[r] + Cardinality(Holders(inflight, r)) <= Lives(r)
        /\ published[r] \in Nat
        /\ Cardinality(Holders(inflight, r)) \in Nat
        /\ Lives(r) \in Nat
    BY HoldersCounted, LivesCounted DEF IInv, OnePlace, TypeOK
  <2>. QED
    BY <2>1
<1>. QED
  BY IngestionInvariant, <1>1, PTL

(* A reading reported as accepted is in the topic, on its way, or was hit   *)
(* by a fault.                                                              *)
THEOREM SuccessAccounted == Spec => []SuccessIsAccounted
BY IngestionInvariant, PTL DEF IInv
=============================================================================
