-------------------------- MODULE FaultSubProofs --------------------------
(***************************************************************************)
(* Theorems about the fault subscription tap, for any NPUs, rules,         *)
(* collectors, subscriptions and bounds; and, at the end, about Dispatcher *)
(* for every buffer size, any set of events and any number of deliveries   *)
(* and retries: its ring implements PollLog, and its goroutines count      *)
(* their pushes right.                                                     *)
(***************************************************************************)
EXTENDS FaultSub, Dispatcher, FiniteSetTheorems, SequenceTheorems, TLAPS

-----------------------------------------------------------------------------
\* What one Detect call returns.

\* A batch: the readings of some NPUs.
IsBatch(devs) == \E S \in SUBSET Npus : devs \in [S -> Readings]

\* The rules are finitely many.
LEMMA RulesFinite == IsFiniteSet(EnabledRules)
  <1>1. IsFiniteSet(1..7)
    <2>1. 1 \in Int /\ 7 \in Int
      BY SMT
    <2>2. QED
      BY <2>1, FS_Interval
  <1>2. RuleOrder \in Surjection(1..7, DetectedType)
    BY SMT DEF Surjection, DetectedType, RuleOrder
  <1>3. IsFiniteSet(DetectedType)
    BY <1>1, <1>2, FS_Surjection
  <1>4. QED
    BY <1>3, FS_Subset, DetectorAssumption

\* The image of a set of (npu, type) pairs is finite.
LEMMA PairImageFinite ==
    ASSUME NEW R \in SUBSET (Npus \X EnabledRules), NEW f, DOMAIN f = R
    PROVE  IsFiniteSet({f[x] : x \in R})
  <1>1. IsFiniteSet(R)
    BY RulesFinite, DetectorAssumption, FS_Product, FS_Subset
  <1> DEFINE g == [x \in R |-> f[x]]
             T == {f[x] : x \in R}
  <1>2. g \in Surjection(R, T)
    BY DEF Surjection
  <1>3. QED
    BY <1>1, <1>2, FS_Surjection

\* An arrangement of a finite set is a sequence of exactly its elements.
LEMMA ArrangementIsSequence ==
    ASSUME NEW S, IsFiniteSet(S), NEW s \in Arrangements(S)
    PROVE  /\ s \in Seq(S)
           /\ \A e \in S : \E i \in 1..Len(s) : s[i] = e
  <1>1. Cardinality(S) \in Nat
    BY FS_CardinalityType
  <1>2. s \in [1..Cardinality(S) -> S]
    BY DEF Arrangements, Surjection
  <1>3. s \in Seq(S) /\ Len(s) = Cardinality(S)
    BY <1>1, <1>2, SMT
  <1>4. QED
    BY <1>3 DEF Arrangements, Surjection

\* The two kinds of events are finite sets of events.
LEMMA DetectedEvents ==
    ASSUME NEW devs, IsBatch(devs), NEW at \in Nat,
           NEW p \in [Npus -> SUBSET EnabledRules]
    PROVE  /\ Fires(devs, p, at) \subseteq Event
           /\ Recoveries(devs, p, at) \subseteq Event
           /\ IsFiniteSet(Fires(devs, p, at))
           /\ IsFiniteSet(Recoveries(devs, p, at))
  <1>1. PICK S \in SUBSET Npus : devs \in [S -> Readings]
    BY DEF IsBatch
  <1>2. EnabledRules \subseteq FaultType
    BY DetectorAssumption DEF FaultType
  <1> DEFINE F == NewlyActive(devs, p)
             f == [nt \in F |->
                    FaultEvent(nt, RuleSeverity(nt[2], devs[nt[1]]), FALSE, at)]
             R == NoLongerActive(devs, p)
             r == [nt \in R |-> FaultEvent(nt, "warning", TRUE, at)]
  <1>3. F \in SUBSET (Npus \X EnabledRules) /\ R \in SUBSET (Npus \X EnabledRules)
    BY <1>1 DEF NewlyActive, NoLongerActive
  <1>4. Fires(devs, p, at) = {f[nt] : nt \in F}
    BY DEF Fires
  <1>5. Recoveries(devs, p, at) = {r[nt] : nt \in R}
    BY DEF Recoveries
  <1>6. IsFiniteSet({f[nt] : nt \in F}) /\ IsFiniteSet({r[nt] : nt \in R})
    BY <1>3, PairImageFinite
  <1>7. \A nt \in F : f[nt] \in Event
    BY <1>2, <1>3, SMT DEF Event, FaultEvent, RuleSeverity, Severity
  <1>8. \A nt \in R : r[nt] \in Event
    BY <1>2, <1>3, SMT DEF Event, FaultEvent, Severity
  <1>9. QED
    BY <1>4, <1>5, <1>6, <1>7, <1>8

\* An arrangement has each element at one position.
LEMMA ArrangementOnce ==
    ASSUME NEW S, IsFiniteSet(S), NEW s \in Arrangements(S),
           NEW i \in 1..Len(s), NEW j \in 1..Len(s), s[i] = s[j]
    PROVE  i = j
  <1> DEFINE n == Cardinality(S)
  <1>1. n \in Nat
    BY FS_CardinalityType
  <1>2. s \in Surjection(1..n, S)
    BY DEF Arrangements
  <1> HIDE DEF n
  <1>3. IsFiniteSet(1..n) /\ Cardinality(1..n) = n
    <2>1. 1 \in Int /\ n \in Int
      BY <1>1
    <2>2. IsFiniteSet(1..n) /\ Cardinality(1..n) = IF 1 > n THEN 0 ELSE n - 1 + 1
      BY <2>1, FS_Interval
    <2> QED
      BY <1>1, <2>2
  <1>4. s \in Injection(1..n, S)
    BY <1>2, <1>3, FS_SurjSameCardinalityImpliesInj DEF n
  <1>5. Len(s) = n
    <2>1. s \in [1..n -> S]
      BY <1>2 DEF Surjection
    <2> QED
      BY <1>1, <2>1
  <1> QED
    BY <1>4, <1>5 DEF Injection, IsInjective

\* What the events of one Detect call say, given the cycle before it.
LEMMA DetectionKinds ==
    ASSUME NEW devs, NEW at, NEW p \in [Npus -> SUBSET EnabledRules],
           IsBatch(devs),
           NEW e \in Fires(devs, p, at) \cup Recoveries(devs, p, at)
    PROVE  /\ e.at = at /\ e.npu \in Npus /\ e.type \in EnabledRules
           /\ e.recovered \in BOOLEAN
           /\ e.recovered <=> e \in Recoveries(devs, p, at)
           /\ e.recovered <=> e.type \notin Active(devs)[e.npu]
           /\ e.recovered <=> e.type \in p[e.npu]
  <1>1. PICK S \in SUBSET Npus : devs \in [S -> Readings]
    BY DEF IsBatch
  <1>2. ASSUME e \in Fires(devs, p, at)
        PROVE  /\ e.at = at /\ e.npu \in Npus /\ e.type \in EnabledRules
               /\ e.recovered = FALSE
               /\ e.type \in Active(devs)[e.npu] /\ e.type \notin p[e.npu]
    <2>1. PICK nt \in NewlyActive(devs, p) :
             e = FaultEvent(nt, RuleSeverity(nt[2], devs[nt[1]]), FALSE, at)
      BY <1>2 DEF Fires
    <2>2. e.at = at /\ e.npu = nt[1] /\ e.type = nt[2] /\ e.recovered = FALSE
      BY <2>1 DEF FaultEvent
    <2> QED
      BY <1>1, <2>2 DEF NewlyActive
  <1>3. ASSUME e \in Recoveries(devs, p, at)
        PROVE  /\ e.at = at /\ e.npu \in Npus /\ e.type \in EnabledRules
               /\ e.recovered = TRUE
               /\ e.type \notin Active(devs)[e.npu] /\ e.type \in p[e.npu]
    <2>1. PICK nt \in NoLongerActive(devs, p) : e = FaultEvent(nt, "warning", TRUE, at)
      BY <1>3 DEF Recoveries
    <2>2. e.at = at /\ e.npu = nt[1] /\ e.type = nt[2] /\ e.recovered = TRUE
      BY <2>1 DEF FaultEvent
    <2> QED
      BY <1>1, <2>2 DEF NoLongerActive
  <1> QED
    BY <1>2, <1>3

\* A fault has one event in it.
LEMMA DetectionOfKey ==
    ASSUME NEW devs, NEW at, NEW p,
           NEW R, R \in {Fires(devs, p, at), Recoveries(devs, p, at)},
           NEW d \in R, NEW e \in R, KeyOf(d) = KeyOf(e)
    PROVE  d = e
  <1>1. CASE R = Fires(devs, p, at)
    <2>1. PICK nt \in NewlyActive(devs, p) :
             d = FaultEvent(nt, RuleSeverity(nt[2], devs[nt[1]]), FALSE, at)
      BY <1>1 DEF Fires
    <2>2. PICK mt \in NewlyActive(devs, p) :
             e = FaultEvent(mt, RuleSeverity(mt[2], devs[mt[1]]), FALSE, at)
      BY <1>1 DEF Fires
    <2>3. nt[1] = mt[1] /\ nt[2] = mt[2]
      BY <2>1, <2>2 DEF FaultEvent, KeyOf
    <2> QED
      BY <2>1, <2>2, <2>3 DEF FaultEvent
  <1>2. CASE R = Recoveries(devs, p, at)
    <2>1. PICK nt \in NoLongerActive(devs, p) : d = FaultEvent(nt, "warning", TRUE, at)
      BY <1>2 DEF Recoveries
    <2>2. PICK mt \in NoLongerActive(devs, p) : e = FaultEvent(mt, "warning", TRUE, at)
      BY <1>2 DEF Recoveries
    <2>3. nt[1] = mt[1] /\ nt[2] = mt[2]
      BY <2>1, <2>2 DEF FaultEvent, KeyOf
    <2> QED
      BY <2>1, <2>2, <2>3 DEF FaultEvent
  <1> QED
    BY <1>1, <1>2

\* The sequence Detect returns.
LEMMA DetectionSequence ==
    ASSUME NEW devs, IsBatch(devs), NEW at \in Nat,
           NEW p \in [Npus -> SUBSET EnabledRules],
           NEW evs \in Detections(devs, p, at)
    PROVE  /\ evs \in Seq(Event)
           /\ \A i \in 1..Len(evs) :
                 evs[i] \in Fires(devs, p, at) \cup Recoveries(devs, p, at)
           /\ \A i, j \in 1..Len(evs) : KeyOf(evs[i]) = KeyOf(evs[j]) => i = j
           /\ \A e \in Fires(devs, p, at) \cup Recoveries(devs, p, at) :
                 \E i \in 1..Len(evs) : evs[i] = e
  <1> DEFINE F == Fires(devs, p, at)
             R == Recoveries(devs, p, at)
  <1>1. PICK f \in FireOrders(F), r \in RecoveryOrders(R) : evs = f \o r
    BY DEF Detections
  <1>2. /\ f \in Arrangements(F) /\ r \in Arrangements(R)
        /\ IsFiniteSet(F) /\ IsFiniteSet(R)
    BY DetectedEvents DEF FireOrders, RecoveryOrders
  <1>3. /\ f \in Seq(F) /\ r \in Seq(R)
        /\ \A e \in F : \E i \in 1..Len(f) : f[i] = e
        /\ \A e \in R : \E i \in 1..Len(r) : r[i] = e
    BY <1>2, ArrangementIsSequence
  <1>4. /\ \A i, j \in 1..Len(f) : f[i] = f[j] => i = j
        /\ \A i, j \in 1..Len(r) : r[i] = r[j] => i = j
    BY <1>2, ArrangementOnce
  <1>5. \A d \in F, e \in R : KeyOf(d) # KeyOf(e)
    <2> SUFFICES ASSUME NEW d \in F, NEW e \in R, KeyOf(d) = KeyOf(e)
                 PROVE  FALSE
      OBVIOUS
    <2>1. d.type \notin p[d.npu] /\ e.type \in p[e.npu]
      <3>1. ~d.recovered
        BY DEF Fires, FaultEvent
      <3>2. e.recovered
        BY DEF Recoveries, FaultEvent
      <3> QED
        BY <3>1, <3>2, DetectionKinds
    <2> QED
      BY <2>1 DEF KeyOf
  <1>6. /\ \A d, e \in F : KeyOf(d) = KeyOf(e) => d = e
        /\ \A d, e \in R : KeyOf(d) = KeyOf(e) => d = e
    BY DetectionOfKey
  <1> HIDE DEF F, R
  <1>7. f \in Seq(F \cup R) /\ r \in Seq(F \cup R)
    BY <1>3, SeqMonotonic
  <1>8. /\ evs \in Seq(F \cup R)
        /\ Len(evs) = Len(f) + Len(r)
        /\ \A i \in 1..(Len(f) + Len(r)) :
              evs[i] = IF i <= Len(f) THEN f[i] ELSE r[i - Len(f)]
    BY <1>1, <1>7, ConcatProperties
  <1>9. Len(f) \in Nat /\ Len(r) \in Nat
    BY <1>3, LenProperties
  <1>10. \A i \in 1..Len(evs) :
            \/ i \in 1..Len(f) /\ evs[i] = f[i] /\ f[i] \in F
            \/ i - Len(f) \in 1..Len(r) /\ evs[i] = r[i - Len(f)] /\ r[i - Len(f)] \in R
    <2> SUFFICES ASSUME NEW i \in 1..Len(evs)
                 PROVE  \/ i \in 1..Len(f) /\ evs[i] = f[i] /\ f[i] \in F
                        \/ i - Len(f) \in 1..Len(r) /\ evs[i] = r[i - Len(f)] /\ r[i - Len(f)] \in R
      OBVIOUS
    <2>1. CASE i <= Len(f)
      <3>1. i \in 1..Len(f) /\ evs[i] = f[i]
        BY <1>8, <1>9, <2>1
      <3> QED
        BY <1>3, <3>1, ElementOfSeq
    <2>2. CASE ~(i <= Len(f))
      <3>1. i - Len(f) \in 1..Len(r) /\ evs[i] = r[i - Len(f)]
        BY <1>8, <1>9, <2>2
      <3> QED
        BY <1>3, <3>1, ElementOfSeq
    <2> QED
      BY <2>1, <2>2
  <1>11. ASSUME NEW i \in 1..Len(evs), NEW j \in 1..Len(evs),
                KeyOf(evs[i]) = KeyOf(evs[j])
         PROVE  i = j
    <2>1. CASE i \in 1..Len(f) /\ evs[i] = f[i] /\ f[i] \in F
      <3>1. j \in 1..Len(f) /\ evs[j] = f[j] /\ f[j] \in F
        BY <1>5, <1>10, <1>11, <2>1
      <3>2. f[i] = f[j]
        BY <1>6, <1>11, <2>1, <3>1
      <3> QED
        BY <1>4, <2>1, <3>1, <3>2
    <2>2. CASE i - Len(f) \in 1..Len(r) /\ evs[i] = r[i - Len(f)] /\ r[i - Len(f)] \in R
      <3>1. j - Len(f) \in 1..Len(r) /\ evs[j] = r[j - Len(f)] /\ r[j - Len(f)] \in R
        BY <1>5, <1>10, <1>11, <2>2
      <3>2. r[i - Len(f)] = r[j - Len(f)]
        BY <1>6, <1>11, <2>2, <3>1
      <3>3. i - Len(f) = j - Len(f)
        BY <1>4, <2>2, <3>1, <3>2
      <3> QED
        BY <1>8, <1>9, <3>3
    <2> QED
      BY <1>10, <2>1, <2>2
  <1>12. ASSUME NEW e \in F \cup R PROVE \E i \in 1..Len(evs) : evs[i] = e
    <2>1. CASE e \in F
      <3>1. PICK i \in 1..Len(f) : f[i] = e
        BY <1>3, <2>1
      <3>2. i \in 1..Len(evs) /\ evs[i] = e
        BY <1>8, <1>9, <3>1
      <3> QED
        BY <3>2
    <2>2. CASE e \in R
      <3>1. PICK i \in 1..Len(r) : r[i] = e
        BY <1>3, <2>2
      <3> DEFINE j == Len(f) + i
      <3>2. j \in 1..Len(evs) /\ ~(j <= Len(f)) /\ j - Len(f) = i
        BY <1>8, <1>9, <3>1
      <3>3. evs[j] = r[j - Len(f)]
        BY <1>8, <3>2
      <3> QED
        BY <3>1, <3>2, <3>3
    <2> QED
      BY <2>1, <2>2
  <1>13. \A i \in 1..Len(evs) : evs[i] \in F \cup R
    BY <1>8, ElementOfSeq
  <1>14. evs \in Seq(Event)
    BY <1>8, SeqMonotonic, DetectedEvents DEF F, R
  <1> QED
    BY <1>11, <1>12, <1>13, <1>14 DEF F, R

\* The events of a sequence and what they are about.
LEMMA EventsTyped ==
    ASSUME NEW q \in Seq(Event)
    PROVE  \A i \in 1..Len(q) : /\ q[i] \in Event /\ q[i].at \in Nat
                                /\ q[i].recovered \in BOOLEAN /\ KeyOf(q[i]) \in Key
  <1>1. \A i \in 1..Len(q) : q[i] \in Event
    BY ElementOfSeq
  <1> QED
    BY <1>1 DEF Event, KeyOf, Key

-----------------------------------------------------------------------------
\* Type correctness.

\* A goroutine has events to dispatch exactly while it is inside the dispatch
\* loop, and an ingest handler has one and never touches the snapshot.
Control ==
    \A p \in Procs :
        /\ pc[p] \in {"idle", "detect", "dead"} <=> queue[p] = <<>>
        /\ p \in IngestHandlers =>
              /\ pc[p] \notin {"detect", "update"}
              /\ Len(queue[p]) <= 1

\* The head and the tail of a non-empty queue.
LEMMA QueueHead ==
    ASSUME TypeOK, NEW p \in Procs, queue[p] # <<>>
    PROVE  /\ Head(queue[p]) \in Event
           /\ Tail(queue[p]) \in Seq(Event)
           /\ Len(queue[p]) \in Nat \ {0}
           /\ Len(Tail(queue[p])) = Len(queue[p]) - 1
           /\ Len(queue[p]) = 1 <=> Tail(queue[p]) = <<>>
  <1>1. queue[p] \in Seq(Event)
    BY DEF TypeOK
  <1>2. /\ Head(queue[p]) \in Event /\ Tail(queue[p]) \in Seq(Event)
        /\ Len(Tail(queue[p])) = Len(queue[p]) - 1
    BY <1>1, HeadTailProperties
  <1>3. Len(queue[p]) \in Nat \ {0}
    BY <1>1, EmptySeq
  <1>4. Len(Tail(queue[p])) = 0 <=> Tail(queue[p]) = <<>>
    BY <1>2, EmptySeq
  <1>5. QED
    BY <1>2, <1>3, <1>4, SMT

LEMMA TypeInit == Init => TypeOK /\ Control
  <1> SUFFICES ASSUME Init PROVE TypeOK /\ Control
    OBVIOUS
  <1>1. recent \in Seq(Event) /\ Len(recent) <= EventBuf
    BY EventBufAssumption, SMT DEF Init
  <1>2. queue \in [Procs -> Seq(Event)]
    BY SMT DEF Init
  <1>3. now \in 1..MaxTime /\ seq \in 0..MaxSubs
    BY FaultSubAssumption, SMT DEF Init
  <1>4. /\ prev \in [Npus -> SUBSET EnabledRules]
        /\ snapshot \in [Npus -> Event \cup {Nil}]
        /\ subs \in [SubIds -> Subscription \cup {Nil}]
        /\ debounce \in [SubIds -> [Key -> 0..MaxTime] \cup {Nil}]
        /\ matched \in [Procs -> SUBSET Subscription]
        /\ written \in BOOLEAN /\ panicked \in BOOLEAN /\ mixed \subseteq Key
    BY DEF Init
  <1>5. stamp \in [Procs -> Nat]
    BY SMT DEF Init
  <1>6. pc \in [Procs -> {"idle", "detect", "update", "record", "match", "fire", "dead"}]
    BY SMT DEF Init
  <1>7. handed \in [1..MaxSubs -> [Key -> NoticeRecord \cup {Nil}]]
    BY DEF Init
  <1>10. balance \in [Key -> Int]
    BY SMT DEF Init
  <1>8. TypeOK
    BY <1>1, <1>2, <1>3, <1>4, <1>5, <1>6, <1>7, <1>10 DEF TypeOK
  <1>9. Control
    BY SMT DEF Init, Control
  <1>11. QED
    BY <1>8, <1>9

LEMMA TypeBeginWrite ==
    ASSUME TypeOK, Control, NEW p \in Writers, BeginWrite(p)
    PROVE  TypeOK' /\ Control'
  BY FaultSubAssumption, SMT DEF TypeOK, Control, BeginWrite, Procs

LEMMA BatchShape ==
    ASSUME NEW p \in Procs, NEW devs \in Batches(p)
    PROVE  IsBatch(devs)
  <1>1. CASE p \in NpuCollectors
    BY <1>1 DEF Batches, IsBatch
  <1>2. CASE p \notin NpuCollectors
    <2>1. devs = <<>> /\ <<>> \in [{} -> Readings]
      BY <1>2, SMT DEF Batches
    <2>2. QED
      BY <2>1 DEF IsBatch
  <1>3. QED
    BY <1>1, <1>2

LEMMA TypeDetect ==
    ASSUME TypeOK, Control, NEW p \in Procs, NEW devs \in Batches(p), Detect(p, devs)
    PROVE  TypeOK' /\ Control'
  <1>1. IsBatch(devs)
    BY BatchShape
  <1>2. p \notin IngestHandlers
    BY DEF Control, Detect
  <1>3. Active(devs) \in [Npus -> SUBSET EnabledRules]
    BY DEF Active
  <1>4. PICK evs \in Detections(devs, prev, stamp[p]) :
           /\ queue' = [queue EXCEPT ![p] = evs]
           /\ pc' = [pc EXCEPT ![p] = IF evs = <<>> THEN "idle" ELSE "update"]
           /\ mixed' = MixedAfter(p, {KeyOf(evs[i]) : i \in DOMAIN evs})
    BY DEF Detect
  <1>5. evs \in Seq(Event)
    BY <1>1, DetectionSequence DEF TypeOK
  <1>9. mixed' \subseteq Key
    <2>1. {KeyOf(evs[i]) : i \in DOMAIN evs} \subseteq Key
      <3>1. DOMAIN evs = 1..Len(evs)
        BY <1>5
      <3> QED
        BY <1>5, <3>1, EventsTyped
    <2> QED
      BY <1>4, <2>1 DEF MixedAfter, TypeOK
  <1>6. TypeOK'
    <2>1. /\ prev' = Active(devs) /\ queue' = [queue EXCEPT ![p] = evs]
          /\ pc' = [pc EXCEPT ![p] = IF evs = <<>> THEN "idle" ELSE "update"]
          /\ stamp' = [stamp EXCEPT ![p] = 0]
          /\ UNCHANGED <<snapshot, written, recent, subs, debounce, seq, now,
                         matched, panicked, handed, balance>>
      BY <1>4 DEF Detect, NextPrev
    <2> QED
      BY <1>3, <1>5, <1>9, <2>1, SMT DEF TypeOK
  <1>7. Control'
    BY <1>2, <1>4, SMT DEF TypeOK, Control
  <1>8. QED
    BY <1>6, <1>7

LEMMA TypeUpdateSnapshot ==
    ASSUME TypeOK, Control, NEW p \in Procs, UpdateSnapshot(p)
    PROVE  TypeOK' /\ Control'
  <1>1. Head(queue[p]) \in Event
    BY QueueHead DEF Control, UpdateSnapshot
  <1>2. Head(queue[p]).npu \in Npus
    BY <1>1 DEF Event
  <1>3. TypeOK'
    BY <1>1, <1>2, SMT DEF TypeOK, UpdateSnapshot, SnapshotAfter
  <1>4. Control'
    BY SMT DEF TypeOK, Control, UpdateSnapshot
  <1>5. QED
    BY <1>3, <1>4

LEMMA TypeIngest ==
    ASSUME TypeOK, Control, NEW p \in IngestHandlers, NEW e \in IngestedEvents,
           Ingest(p, e)
    PROVE  TypeOK' /\ Control'
  <1> DEFINE ev == [type |-> e[1], npu |-> e[2], severity |-> e[3],
                    recovered |-> e[4],
                    at |-> IF e[5] = 0 THEN now ELSE e[5]]
  <1>0. /\ e[1] \in FaultType /\ e[2] \in Npus /\ e[3] \in Severity
        /\ e[4] \in BOOLEAN /\ e[5] \in Nat
    BY FaultSubAssumption
  <1>1. ev \in Event
    BY <1>0, FaultSubAssumption, SMT DEF TypeOK, Event
  <1>2. queue' = [queue EXCEPT ![p] = <<ev>>]
    BY DEF Ingest
  <1> HIDE DEF ev
  <1>3. <<ev>> \in Seq(Event) /\ Len(<<ev>>) = 1 /\ <<ev>> # <<>>
    BY <1>1, SMT
  <1>7. mixed' \subseteq Key
    BY <1>0 DEF Ingest, TypeOK, Key
  <1>4. TypeOK'
    BY <1>2, <1>3, <1>7, SMT DEF TypeOK, Ingest, Procs
  <1>5. Control'
    BY <1>2, <1>3, SMT DEF TypeOK, Control, Ingest, Procs
  <1>6. QED
    BY <1>4, <1>5
\* One more retained event.
LEMMA RetainType ==
    ASSUME NEW s \in Seq(Event), Len(s) <= EventBuf, NEW ev \in Event
    PROVE  Retain(s, ev) \in Seq(Event) /\ Len(Retain(s, ev)) <= EventBuf
  <1>1. CASE EventBuf = 0
    BY <1>1 DEF Retain
  <1>2. CASE EventBuf # 0 /\ Len(s) < EventBuf
    <2>1. Retain(s, ev) = Append(s, ev)
      BY <1>2, Zenon DEF Retain
    <2>2. Append(s, ev) \in Seq(Event) /\ Len(Append(s, ev)) = Len(s) + 1
      BY SMT
    <2>3. QED
      BY <1>2, <2>1, <2>2, LenProperties, EventBufAssumption, SMT
  <1>3. CASE EventBuf # 0 /\ ~(Len(s) < EventBuf)
    <2>1. Retain(s, ev) = Append(Tail(s), ev)
      BY <1>3, Zenon DEF Retain
    <2>2. s # <<>>
      BY <1>3, EventBufAssumption, SMT
    <2>3. Tail(s) \in Seq(Event) /\ Len(Tail(s)) = Len(s) - 1
      BY <2>2, HeadTailProperties
    <2>4. Append(Tail(s), ev) \in Seq(Event) /\ Len(Append(Tail(s), ev)) = Len(s)
      BY <2>3, LenProperties, SMT
    <2>5. QED
      BY <2>1, <2>4
  <1>4. QED
    BY <1>1, <1>2, <1>3

LEMMA TypeRecord ==
    ASSUME TypeOK, Control, NEW p \in Procs, Record(p)
    PROVE  TypeOK' /\ Control'
  <1>1. Head(queue[p]) \in Event
    BY QueueHead DEF Control, Record
  <1>2. recent' \in Seq(Event) /\ Len(recent') <= EventBuf
    BY <1>1, RetainType DEF TypeOK, Record
  <1> DEFINE ev == Head(queue[p])
             k == KeyOf(ev)
  <1>6. balance' \in [Key -> Int]
    <2>1. Count(ev) \in Int
      BY DEF Count
    <2>2. balance' = balance \/ balance' = [balance EXCEPT ![k] = @ + Count(ev)]
      BY DEF Record
    <2> HIDE DEF ev, k
    <2> QED
      BY <2>1, <2>2, SMT DEF TypeOK
  <1>3. TypeOK'
    BY <1>2, <1>6, SMT DEF TypeOK, Record
  <1>4. Control'
    BY SMT DEF TypeOK, Control, Record
  <1>5. QED
    BY <1>3, <1>4

\* The end of one event's loop keeps queue and pc in step.
LEMMA AfterDispatchControl ==
    ASSUME TypeOK, Control, NEW p \in Procs,
           pc[p] \in {"match", "fire"}, AfterDispatch(p)
    PROVE  /\ queue' \in [Procs -> Seq(Event)]
           /\ pc' \in [Procs -> {"idle", "detect", "update", "record", "match",
                                 "fire", "dead"}]
           /\ Control'
  <1>1. queue[p] # <<>>
    BY DEF Control
  <1>2. /\ Tail(queue[p]) \in Seq(Event)
        /\ Len(Tail(queue[p])) = Len(queue[p]) - 1
        /\ Len(queue[p]) \in Nat \ {0}
        /\ Len(queue[p]) = 1 <=> Tail(queue[p]) = <<>>
    BY <1>1, QueueHead
  <1> DEFINE t == Tail(queue[p])
  <1>3. queue' = [queue EXCEPT ![p] = t]
    BY DEF AfterDispatch
  <1>4. pc' = [pc EXCEPT ![p] = IF t = <<>> THEN "idle" ELSE "update"]
    BY <1>2 DEF AfterDispatch
  <1>5. p \in IngestHandlers => t = <<>>
    BY <1>2, SMT DEF Control
  <1>6. t \in Seq(Event) /\ (t = <<>> => Len(t) = 0)
    BY <1>2, SMT
  <1> HIDE DEF t
  <1>7. QED
    BY <1>3, <1>4, <1>5, <1>6, SMT DEF TypeOK, Control

LEMMA TypeMatch ==
    ASSUME TypeOK, Control, NEW p \in Procs, MatchSubscriptions(p)
    PROVE  TypeOK' /\ Control'
  <1> DEFINE ms == {subs[i] : i \in {j \in SubIds :
                        subs[j] # Nil /\ Matches(subs[j].request, Head(queue[p]))}}
  <1>1. ms \subseteq Subscription
    BY DEF TypeOK
  <1>2. /\ matched' = [matched EXCEPT ![p] = ms]
        /\ IF ms = {} THEN AfterDispatch(p)
           ELSE pc' = [pc EXCEPT ![p] = "fire"] /\ UNCHANGED queue
        /\ pc[p] = "match"
    BY DEF MatchSubscriptions
  <1> HIDE DEF ms
  <1>3. /\ queue' \in [Procs -> Seq(Event)]
        /\ pc' \in [Procs -> {"idle", "detect", "update", "record", "match",
                              "fire", "dead"}]
        /\ Control'
    <2>1. CASE ms = {}
      BY <1>2, <2>1, AfterDispatchControl
    <2>2. CASE ms # {}
      <3>1. /\ pc' = [pc EXCEPT ![p] = "fire"] /\ queue' = queue
            /\ pc[p] = "match"
        BY <1>2, <2>2
      <3>2. QED
        BY <3>1, SMT DEF TypeOK, Control
    <2>3. QED
      BY <2>1, <2>2
  <1>4. matched' \in [Procs -> SUBSET Subscription]
    BY <1>1, <1>2 DEF TypeOK
  <1>5. TypeOK'
    BY <1>3, <1>4, SMT DEF TypeOK, MatchSubscriptions
  <1>6. QED
    BY <1>3, <1>5
\* Updating one entry of a table of tables.
LEMMA NestedUpdate ==
    ASSUME NEW A, NEW B, NEW C, NEW f \in [A -> [B -> C]],
           NEW a \in A, NEW b \in B, NEW c \in C
    PROVE  [f EXCEPT ![a][b] = c] \in [A -> [B -> C]]
  OBVIOUS

\* The same where some of the tables are missing, but not the one updated.
LEMMA DebounceUpdate ==
    ASSUME NEW A, NEW B, NEW C, NEW f \in [A -> [B -> C] \cup {Nil}],
           NEW a \in A, NEW b \in B, NEW c \in C, f[a] # Nil
    PROVE  [f EXCEPT ![a][b] = c] \in [A -> [B -> C] \cup {Nil}]
  <1>1. f[a] \in [B -> C]
    OBVIOUS
  <1>2. [f[a] EXCEPT ![b] = c] \in [B -> C]
    BY <1>1
  <1>3. QED
    BY <1>2

LEMMA TypeFireOne ==
    ASSUME TypeOK, Control, NEW p \in Procs, NEW s \in matched[p], FireOne(p, s)
    PROVE  TypeOK' /\ Control'
  <1> DEFINE ev == Head(queue[p])
  <1>1. ev \in Event /\ KeyOf(ev) \in Key
    BY QueueHead DEF Control, FireOne, KeyOf, Key, Event
  <1>2. s \in Subscription
    BY DEF TypeOK
  <1>3. s.id \in SubIds /\ s.born \in 1..MaxSubs
    BY <1>2 DEF Subscription
  <1>4. Visit(p, s)
    BY DEF FireOne
  <1>5. \/ debounce' = debounce
        \/ /\ debounce' = [debounce EXCEPT ![s.id][KeyOf(ev)] = now]
           /\ debounce[s.id] # Nil
    BY DEF FireOne, NilMapWrite
  <1>6. \/ handed' = handed
        \/ handed' = [handed EXCEPT ![s.born][KeyOf(ev)] =
                         HandOff(handed[s.born][KeyOf(ev)], ev)]
    BY DEF FireOne
  <1> HIDE DEF ev
  <1>7. debounce' \in [SubIds -> [Key -> 0..MaxTime] \cup {Nil}]
    <2>1. now \in 0..MaxTime
      BY FaultSubAssumption, SMT DEF TypeOK
    <2>2. debounce \in [SubIds -> [Key -> 0..MaxTime] \cup {Nil}]
      BY DEF TypeOK
    <2> DEFINE k == KeyOf(ev)
    <2>3. k \in Key
      BY <1>1
    <2> HIDE DEF k
    <2>4. debounce[s.id] # Nil =>
             [debounce EXCEPT ![s.id][k] = now]
                \in [SubIds -> [Key -> 0..MaxTime] \cup {Nil}]
      BY <1>3, <2>1, <2>2, <2>3, DebounceUpdate
    <2>5. QED
      BY <1>5, <2>2, <2>4 DEF k
  <1>8. handed' \in [1..MaxSubs -> [Key -> NoticeRecord \cup {Nil}]]
    <2> DEFINE h == handed[s.born][KeyOf(ev)]
    <2>1. h \in NoticeRecord \cup {Nil}
      BY <1>1, <1>3 DEF TypeOK
    <2>2. now \in 0..MaxTime
      BY FaultSubAssumption, SMT DEF TypeOK
    <2>3. HandOff(h, ev) \in NoticeRecord
      BY <1>1, <2>1, <2>2 DEF HandOff, NoticeRecord, Event
    <2>4. handed \in [1..MaxSubs -> [Key -> NoticeRecord \cup {Nil}]]
      BY DEF TypeOK
    <2> DEFINE k == KeyOf(ev)
               n == HandOff(h, ev)
    <2>5. k \in Key /\ n \in NoticeRecord \cup {Nil}
      BY <1>1, <2>3
    <2> HIDE DEF k, n
    <2>6. [handed EXCEPT ![s.born][k] = n]
             \in [1..MaxSubs -> [Key -> NoticeRecord \cup {Nil}]]
      BY <1>3, <2>4, <2>5, NestedUpdate
    <2>7. QED
      BY <1>6, <2>4, <2>6 DEF k, n
  <1>9. /\ queue' \in [Procs -> Seq(Event)]
        /\ pc' \in [Procs -> {"idle", "detect", "update", "record", "match",
                              "fire", "dead"}]
        /\ Control'
    <2>1. CASE matched[p] = {s}
      BY <1>4, <2>1, AfterDispatchControl DEF Visit, FireOne
    <2>2. CASE matched[p] # {s}
      BY <1>4, <2>2 DEF Visit, TypeOK, Control
    <2>3. QED
      BY <2>1, <2>2
  <1>10. matched' \in [Procs -> SUBSET Subscription]
    BY <1>4 DEF Visit, TypeOK
  <1>11. TypeOK'
    BY <1>4, <1>7, <1>8, <1>9, <1>10 DEF TypeOK, Visit, FireOne
  <1>12. QED
    BY <1>9, <1>11

LEMMA TypePanic ==
    ASSUME TypeOK, Control, NEW p \in Procs, NEW s \in matched[p], PanicOnNilMap(p, s)
    PROVE  TypeOK' /\ Control'
  <1>1. <<>> \in Seq(Event) /\ Len(<<>>) = 0
    BY EmptySeq
  <1>2. TypeOK'
    BY <1>1, SMT DEF TypeOK, PanicOnNilMap
  <1>3. Control'
    BY <1>1, SMT DEF TypeOK, Control, PanicOnNilMap
  <1>4. QED
    BY <1>2, <1>3

LEMMA TypeAdd ==
    ASSUME TypeOK, Control, NEW r \in SubRequests, AddSubscription(r)
    PROVE  TypeOK' /\ Control'
  <1> DEFINE i == NewSubId(seq + 1)
             sub == [request |-> r, id |-> i, born |-> seq + 1]
  <1>1. seq + 1 \in 1..MaxSubs /\ seq + 1 \in Nat
    BY FaultSubAssumption, SMT DEF TypeOK, AddSubscription
  <1>2. i \in SubIds
    BY <1>1, FaultSubAssumption, SMT DEF NewSubId, SubIds
  <1>3. sub \in Subscription
    BY <1>1, <1>2 DEF Subscription
  <1>4. subs' = [subs EXCEPT ![i] = sub] /\ debounce' = [debounce EXCEPT ![i] = NeverFired]
    BY DEF AddSubscription
  <1> HIDE DEF i, sub
  <1>5. NeverFired \in [Key -> 0..MaxTime]
    BY FaultSubAssumption, SMT DEF NeverFired
  <1>6. TypeOK'
    <2>1. subs' \in [SubIds -> Subscription \cup {Nil}]
      BY <1>2, <1>3, <1>4, Zenon DEF TypeOK
    <2>2. debounce' \in [SubIds -> [Key -> 0..MaxTime] \cup {Nil}]
      BY <1>2, <1>4, <1>5, Zenon DEF TypeOK
    <2>3. seq' \in 0..MaxSubs
      BY <1>1, SMT DEF AddSubscription
    <2>4. QED
      BY <2>1, <2>2, <2>3 DEF TypeOK, AddSubscription
  <1>7. Control'
    BY DEF Control, AddSubscription
  <1>8. QED
    BY <1>6, <1>7

LEMMA TypeRemove ==
    ASSUME TypeOK, Control, NEW i \in SubIds, RemoveSubscription(i)
    PROVE  TypeOK' /\ Control'
  BY DEF TypeOK, Control, RemoveSubscription

LEMMA TypeTick ==
    ASSUME TypeOK, Control, Tick
    PROVE  TypeOK' /\ Control'
  <1>1. now' \in 1..MaxTime
    BY FaultSubAssumption, SMT DEF TypeOK, Tick
  <1>2. QED
    BY <1>1 DEF TypeOK, Control, Tick

\* One lemma for the whole next-state relation.
LEMMA TypeStep ==
    ASSUME TypeOK, Control, [Next]_vars
    PROVE  TypeOK' /\ Control'
  <1>1. ASSUME NEW p \in Procs, ProcStep(p) PROVE TypeOK' /\ Control'
    BY <1>1, TypeDetect, TypeUpdateSnapshot, TypeRecord, TypeMatch, TypeFireOne,
       TypePanic DEF ProcStep
  <1>2. CASE Next
    BY <1>1, <1>2, TypeBeginWrite, TypeIngest, TypeAdd, TypeRemove, TypeTick DEF Next
  <1>3. CASE UNCHANGED vars
    BY <1>3 DEF vars, TypeOK, Control
  <1>4. QED
    BY <1>2, <1>3

\* Every variable keeps its type, whatever the goroutines and the REST
\* handlers do.
THEOREM TypeCorrect == Spec => [](TypeOK /\ Control)
  BY TypeInit, TypeStep, PTL DEF Spec
-----------------------------------------------------------------------------
\* Debounce windows, whoever dispatches.

\* The subscriptions in the table, and those a dispatch loop still holds.
Known == ({subs[i] : i \in SubIds} \ {Nil}) \cup UNION {matched[p] : p \in Procs}

KnownInv ==
    /\ \A s \in Known : s.id = NewSubId(s.born) /\ s.born <= seq
    /\ \A s, t \in Known : s.born = t.born => s = t
    /\ \A b \in 1..MaxSubs : b > seq => \A k \in Key : handed[b][k] = Nil
    /\ \A b \in 1..MaxSubs, k \in Key : handed[b][k] # Nil => handed[b][k].at <= now
    /\ \A p \in Procs : matched[p] # {} => pc[p] = "fire"

\* The window's map knows of every hand-off, unless the subscription is gone.
WindowInv ==
    \A s \in Known, k \in Key :
        s.request.debounce > 0 /\ handed[s.born][k] # Nil =>
            \/ debounce[s.id] = Nil
            \/ debounce[s.id][k] # 0 /\ handed[s.born][k].at <= debounce[s.id][k]

LEMMA KnownTyped ==
    ASSUME TypeOK, NEW s \in Known
    PROVE  /\ s \in Subscription /\ s.id \in SubIds /\ s.born \in 1..MaxSubs
           /\ s.request \in SubRequests /\ s.request.debounce \in Nat
  <1>1. s \in Subscription
    BY DEF TypeOK, Known
  <1>2. s.id \in SubIds /\ s.born \in 1..MaxSubs /\ s.request \in SubRequests
    BY <1>1 DEF Subscription
  <1>3. s.request.debounce \in Nat
    BY <1>2, FaultSubAssumption DEF SubRequest
  <1> QED
    BY <1>1, <1>2, <1>3

\* As long as no more subscriptions were made than there are ids, none is reused.
LEMMA NoIdTwice ==
    ASSUME MaxSubs <= IdSpace, NEW a \in 1..MaxSubs, NEW b \in 1..MaxSubs,
           NewSubId(a) = NewSubId(b)
    PROVE  a = b
  <1>1. MaxSubs \in Nat /\ IdSpace \in Nat /\ IdSpace > 0
    BY FaultSubAssumption
  <1>2. ASSUME NEW n \in 1..MaxSubs
        PROVE  n % IdSpace = IF n = IdSpace THEN 0 ELSE n
    <2>1. CASE n = IdSpace
      BY <1>1, <2>1
    <2>2. CASE n # IdSpace
      <3>1. n \in Nat /\ n < IdSpace
        BY <1>1, <2>2
      <3> QED
        BY <1>1, <2>2, <3>1
    <2> QED
      BY <2>1, <2>2
  <1>3. /\ NewSubId(a) = IF a = IdSpace THEN 0 ELSE a
        /\ NewSubId(b) = IF b = IdSpace THEN 0 ELSE b
    BY <1>2 DEF NewSubId
  <1>4. a # 0 /\ b # 0
    BY <1>1
  <1> QED
    BY <1>3, <1>4, Zenon

\* A step that makes no subscription: a loop holds only what the table had.
LEMMA KnownShrinks ==
    ASSUME TypeOK, Control, KnownInv, [Next]_vars,
           \A r \in SubRequests : ~AddSubscription(r)
    PROVE  /\ Known' \subseteq Known /\ seq' = seq
           /\ \A p \in Procs : matched'[p] # {} => pc'[p] = "fire"
  <1>1. ASSUME NEW q \in Procs, ProcStep(q)
        PROVE  /\ Known' \subseteq Known /\ seq' = seq
               /\ \A p \in Procs : matched'[p] # {} => pc'[p] = "fire"
    <2>1. ASSUME NEW devs \in Batches(q), Detect(q, devs)
          PROVE  /\ UNCHANGED <<subs, matched, seq>> /\ pc[q] = "detect"
                 /\ \A p \in Procs \ {q} : pc'[p] = pc[p]
      BY <2>1 DEF Detect, TypeOK
    <2>2. CASE UpdateSnapshot(q) \/ Record(q)
      <3>1. /\ UNCHANGED <<subs, matched, seq>> /\ pc[q] \in {"update", "record"}
            /\ \A p \in Procs \ {q} : pc'[p] = pc[p]
        BY <2>2 DEF UpdateSnapshot, Record, TypeOK
      <3> QED
        BY <3>1 DEF KnownInv, Known
    <2>3. CASE MatchSubscriptions(q)
      <3> DEFINE ms == {subs[i] : i \in {j \in SubIds :
                            subs[j] # Nil /\ Matches(subs[j].request, Head(queue[q]))}}
      <3>1. /\ matched' = [matched EXCEPT ![q] = ms] /\ UNCHANGED <<subs, seq>>
            /\ IF ms = {} THEN AfterDispatch(q)
               ELSE pc' = [pc EXCEPT ![q] = "fire"] /\ UNCHANGED queue
        BY <2>3 DEF MatchSubscriptions
      <3>2. ms \subseteq {subs[i] : i \in SubIds} \ {Nil}
        OBVIOUS
      <3> HIDE DEF ms
      <3>3. /\ matched'[q] = ms /\ \A p \in Procs \ {q} : matched'[p] = matched[p] /\ pc'[p] = pc[p]
            /\ ms # {} => pc'[q] = "fire"
        BY <3>1 DEF AfterDispatch, TypeOK
      <3>4. Known' \subseteq Known
        BY <3>1, <3>2, <3>3 DEF Known
      <3> QED
        BY <3>1, <3>3, <3>4 DEF KnownInv
    <2>4. ASSUME NEW s \in matched[q], FireOne(q, s)
          PROVE  /\ Known' \subseteq Known /\ seq' = seq
                 /\ \A p \in Procs : matched'[p] # {} => pc'[p] = "fire"
      <3>1. /\ Visit(q, s) /\ UNCHANGED <<subs, seq>> /\ pc[q] = "fire"
        BY <2>4 DEF FireOne
      <3>2. /\ matched'[q] = matched[q] \ {s}
            /\ \A p \in Procs \ {q} : matched'[p] = matched[p] /\ pc'[p] = pc[p]
            /\ matched[q] # {s} => pc'[q] = pc[q]
        BY <3>1 DEF Visit, AfterDispatch, TypeOK
      <3>3. Known' \subseteq Known
        BY <3>1, <3>2 DEF Known
      <3> QED
        BY <3>1, <3>2, <3>3 DEF KnownInv
    <2>5. ASSUME NEW s \in matched[q], PanicOnNilMap(q, s)
          PROVE  /\ Known' \subseteq Known /\ seq' = seq
                 /\ \A p \in Procs : matched'[p] # {} => pc'[p] = "fire"
      <3>1. /\ UNCHANGED <<subs, seq>> /\ matched'[q] = {}
            /\ \A p \in Procs \ {q} : matched'[p] = matched[p] /\ pc'[p] = pc[p]
        BY <2>5 DEF PanicOnNilMap, TypeOK
      <3>2. Known' \subseteq Known
        BY <3>1 DEF Known
      <3> QED
        BY <3>1, <3>2 DEF KnownInv
    <2>6. ASSUME UNCHANGED <<subs, matched, seq>>, pc[q] = "detect",
                 \A p \in Procs \ {q} : pc'[p] = pc[p]
          PROVE  /\ Known' \subseteq Known /\ seq' = seq
                 /\ \A p \in Procs : matched'[p] # {} => pc'[p] = "fire"
      BY <2>6 DEF KnownInv, Known
    <2> QED
      BY <1>1, <2>1, <2>2, <2>3, <2>4, <2>5, <2>6 DEF ProcStep
  <1>2. ASSUME \/ \E p \in Writers : BeginWrite(p)
               \/ \E p \in IngestHandlers, e \in IngestedEvents : Ingest(p, e)
        PROVE  /\ Known' \subseteq Known /\ seq' = seq
               /\ \A p \in Procs : matched'[p] # {} => pc'[p] = "fire"
    <2>1. UNCHANGED <<subs, matched, seq>>
      BY <1>2 DEF BeginWrite, Ingest
    <2>2. \A p \in Procs : pc[p] # "idle" => pc'[p] = pc[p]
      BY <1>2 DEF BeginWrite, Ingest, TypeOK, Procs
    <2> QED
      BY <2>1, <2>2 DEF KnownInv, Known
  <1>3. ASSUME NEW i \in SubIds, RemoveSubscription(i)
        PROVE  /\ Known' \subseteq Known /\ seq' = seq
               /\ \A p \in Procs : matched'[p] # {} => pc'[p] = "fire"
    <2>1. UNCHANGED <<matched, pc, seq>> /\ subs' = [subs EXCEPT ![i] = Nil]
      BY <1>3 DEF RemoveSubscription
    <2>2. \A j \in SubIds : subs'[j] = Nil \/ subs'[j] = subs[j]
      BY <2>1 DEF TypeOK
    <2>3. Known' \subseteq Known
      BY <2>1, <2>2 DEF Known
    <2> QED
      BY <2>1, <2>3 DEF KnownInv
  <1>4. ASSUME Tick \/ UNCHANGED vars
        PROVE  /\ Known' \subseteq Known /\ seq' = seq
               /\ \A p \in Procs : matched'[p] # {} => pc'[p] = "fire"
    <2>1. UNCHANGED <<subs, matched, pc, seq>>
      BY <1>4 DEF Tick, vars
    <2> QED
      BY <2>1 DEF KnownInv, Known
  <1> QED
    BY <1>1, <1>2, <1>3, <1>4 DEF Next

-----------------------------------------------------------------------------
LEMMA KnownInit == Init => KnownInv /\ WindowInv
  <1> SUFFICES ASSUME Init PROVE KnownInv /\ WindowInv
    OBVIOUS
  <1>1. Known = {}
    BY DEF Init, Known
  <1>2. \A b \in 1..MaxSubs, k \in Key : handed[b][k] = Nil
    BY DEF Init
  <1>3. \A p \in Procs : matched[p] = {}
    BY DEF Init
  <1> QED
    BY <1>1, <1>2, <1>3 DEF KnownInv, WindowInv

\* What an iteration of the loop leaves of the history ...
LEMMA HandedAfterFire ==
    ASSUME TypeOK, Control, NEW q \in Procs, NEW t \in matched[q], FireOne(q, t),
           NEW b \in 1..MaxSubs, NEW k \in Key, handed'[b][k] # handed[b][k]
    PROVE  b = t.born /\ k = KeyOf(Head(queue[q])) /\ handed'[b][k].at = now
  <1> DEFINE ev == Head(queue[q])
             key == KeyOf(ev)
             notice == HandOff(handed[t.born][key], ev)
  <1>1. handed' = [handed EXCEPT ![t.born][key] = notice]
    BY DEF FireOne
  <1>2. notice.at = now
    BY DEF HandOff
  <1>3. handed \in [1..MaxSubs -> [Key -> NoticeRecord \cup {Nil}]]
    BY DEF TypeOK
  <1> HIDE DEF ev, notice
  <1>4. b = t.born
    BY <1>1, <1>3
  <1>5. handed'[b] = [handed[b] EXCEPT ![key] = notice]
    BY <1>1, <1>3, <1>4
  <1>6. k = key /\ handed'[b][k] = notice
    <2>1. handed[b] \in [Key -> NoticeRecord \cup {Nil}]
      BY <1>3
    <2> HIDE DEF key
    <2> QED
      BY <1>5, <2>1
  <1> QED
    BY <1>2, <1>4, <1>6 DEF ev

\* ... and that a window it opens there was not open already.
LEMMA WindowOpened ==
    ASSUME NEW q \in Procs, NEW t \in matched[q], FireOne(q, t), handed' # handed,
           t.request.debounce > 0, NEW k, k = KeyOf(Head(queue[q]))
    PROVE  /\ debounce[t.id] # Nil
           /\ debounce[t.id][k] # 0 => ~(now - debounce[t.id][k] < t.request.debounce)
           /\ debounce' = [debounce EXCEPT ![t.id][k] = now]
  BY DEF FireOne, NilMapWrite, Suppressed

\* What it leaves of the map of the windows.
LEMMA WindowsAfterFire ==
    ASSUME TypeOK, Control, NEW q \in Procs, NEW t \in matched[q], FireOne(q, t),
           NEW i \in SubIds, debounce'[i] # debounce[i]
    PROVE  /\ debounce[i] # Nil
           /\ \A k \in Key : debounce'[i][k] \in {debounce[i][k], now}
  <1> DEFINE key == KeyOf(Head(queue[q]))
  <1>1. debounce' = [debounce EXCEPT ![t.id][key] = now] /\ debounce[t.id] # Nil
    BY DEF FireOne, NilMapWrite
  <1>2. debounce \in [SubIds -> [Key -> 0..MaxTime] \cup {Nil}]
    BY DEF TypeOK
  <1> HIDE DEF key
  <1>3. i = t.id /\ debounce[i] \in [Key -> 0..MaxTime]
    BY <1>1, <1>2
  <1>4. debounce'[i] = [debounce[i] EXCEPT ![key] = now]
    BY <1>1, <1>2, <1>3
  <1> QED
    BY <1>1, <1>3, <1>4

\* An iteration of the loop holds on to a subscription that is known.
LEMMA FireKnows ==
    ASSUME TypeOK, NEW q \in Procs, NEW t \in matched[q], FireOne(q, t)
    PROVE  /\ Known' \subseteq Known /\ now' = now /\ now \in Nat /\ now > 0
           /\ t \in Known
  <1>1. /\ Visit(q, t) /\ UNCHANGED <<subs, seq, now>>
    BY DEF FireOne
  <1>2. /\ matched'[q] = matched[q] \ {t}
        /\ \A p \in Procs \ {q} : matched'[p] = matched[p]
    BY <1>1 DEF Visit, TypeOK
  <1>3. now \in Nat /\ now > 0
    BY FaultSubAssumption DEF TypeOK
  <1> QED
    BY <1>1, <1>2, <1>3 DEF Known

LEMMA WindowFire ==
    ASSUME TypeOK, Control, KnownInv, WindowInv,
           NEW q \in Procs, NEW t \in matched[q], FireOne(q, t)
    PROVE  WindowInv'
  <1>1. /\ Known' \subseteq Known /\ now' = now /\ now \in Nat /\ now > 0
        /\ t \in Known
    BY FireKnows
  <1>2. ASSUME NEW s \in Known', NEW k \in Key,
               s.request.debounce > 0, handed'[s.born][k] # Nil,
               debounce'[s.id] # Nil
        PROVE  debounce'[s.id][k] # 0 /\ handed'[s.born][k].at <= debounce'[s.id][k]
    <2>1. s \in Known /\ s.id \in SubIds /\ s.born \in 1..MaxSubs
      BY <1>1, <1>2, KnownTyped
    <2>2. CASE handed'[s.born][k] = handed[s.born][k]
      <3>1. handed[s.born][k] # Nil /\ handed[s.born][k].at <= now
        BY <1>2, <2>1, <2>2 DEF KnownInv
      <3>2. CASE debounce'[s.id] = debounce[s.id]
        BY <1>2, <2>1, <2>2, <3>1, <3>2 DEF WindowInv
      <3>3. CASE debounce'[s.id] # debounce[s.id]
        <4>1. debounce[s.id] # Nil /\ debounce'[s.id][k] \in {debounce[s.id][k], now}
          BY <2>1, <3>3, WindowsAfterFire
        <4>2. debounce[s.id][k] # 0 /\ handed[s.born][k].at <= debounce[s.id][k]
          BY <1>2, <2>1, <3>1, <4>1 DEF WindowInv
        <4> QED
          BY <1>1, <2>2, <3>1, <4>1, <4>2
      <3> QED
        BY <3>2, <3>3
    <2>3. CASE handed'[s.born][k] # handed[s.born][k]
      <3> DEFINE b == s.born
      <3> HIDE DEF b
      <3>0. b \in 1..MaxSubs /\ handed'[b][k] # handed[b][k]
        BY <2>1, <2>3 DEF b
      <3>1. b = t.born /\ k = KeyOf(Head(queue[q])) /\ handed'[b][k].at = now
        BY <3>0, HandedAfterFire
      <3>2. t.request.debounce > 0 =>
               debounce[t.id] # Nil /\ debounce' = [debounce EXCEPT ![t.id][k] = now]
        BY <3>0, <3>1, WindowOpened
      <3>3. s = t
        BY <1>1, <2>1, <3>1 DEF KnownInv, b
      <3>4. debounce[s.id] # Nil /\ debounce' = [debounce EXCEPT ![s.id][k] = now]
        BY <1>2, <3>2, <3>3
      <3>5. debounce'[s.id][k] = now
        <4>1. debounce \in [SubIds -> [Key -> 0..MaxTime] \cup {Nil}]
          BY DEF TypeOK
        <4>2. debounce[s.id] \in [Key -> 0..MaxTime]
          BY <2>1, <3>4, <4>1
        <4>3. debounce'[s.id] = [debounce[s.id] EXCEPT ![k] = now]
          BY <2>1, <3>4, <4>1
        <4>4. [debounce[s.id] EXCEPT ![k] = now][k] = now
          BY <4>2
        <4> QED
          BY <4>3, <4>4
      <3> QED
        BY <1>1, <3>1, <3>5 DEF b
    <2> QED
      BY <2>2, <2>3
  <1> QED
    BY <1>2 DEF WindowInv

\* A subscription that is made is the youngest.
LEMMA AddKnows ==
    ASSUME TypeOK, NEW r \in SubRequests, AddSubscription(r)
    PROVE  /\ seq \in Nat /\ seq' = seq + 1 /\ seq + 1 \in 1..MaxSubs
           /\ UNCHANGED <<handed, now, matched, pc, prev, queue, recent, stamp>>
           /\ \A s \in Known' : s \in Known \/ (s.born = seq + 1 /\ s.id = NewSubId(seq + 1))
           /\ \A s, t \in Known' :
                 s \notin Known /\ t \notin Known => s = t
  <1> DEFINE i == NewSubId(seq + 1)
             new == [request |-> r, id |-> i, born |-> seq + 1]
  <1>1. /\ seq \in Nat /\ seq' = seq + 1 /\ seq + 1 \in 1..MaxSubs
        /\ UNCHANGED <<handed, now, matched, pc, prev, queue, recent, stamp>>
    BY FaultSubAssumption DEF TypeOK, AddSubscription
  <1>2. /\ subs' = [subs EXCEPT ![i] = new]
        /\ debounce' = [debounce EXCEPT ![i] = NeverFired]
    BY DEF AddSubscription
  <1>3. i \in SubIds
    BY <1>1, FaultSubAssumption DEF NewSubId, SubIds
  <1>4. new.id = NewSubId(new.born) /\ new.born = seq + 1 /\ new.id = i
    OBVIOUS
  <1> HIDE DEF new
  <1>5. Known' \subseteq Known \cup {new}
    <2>1. \A j \in SubIds : subs'[j] = subs[j] \/ subs'[j] = new
      BY <1>2, <1>3 DEF TypeOK
    <2> QED
      BY <1>1, <2>1 DEF Known
  <1>6. \A s \in Known' : s \in Known \/ s = new
    BY <1>5
  <1>7. \A s \in Known' : s \in Known \/ (s.born = seq + 1 /\ s.id = NewSubId(seq + 1))
    BY <1>4, <1>6
  <1>8. \A s, t \in Known' : s \notin Known /\ t \notin Known => s = t
    BY <1>6
  <1> QED
    BY <1>1, <1>7, <1>8

LEMMA KnownAdd ==
    ASSUME TypeOK, KnownInv, NEW r \in SubRequests, AddSubscription(r)
    PROVE  KnownInv'
  <1>1. /\ seq \in Nat /\ seq' = seq + 1
        /\ UNCHANGED <<handed, now, matched, pc>>
    BY AddKnows
  <1>2. \A s \in Known' : s \in Known \/ (s.born = seq + 1 /\ s.id = NewSubId(seq + 1))
    BY AddKnows
  <1>3. \A s, t \in Known' : s \notin Known /\ t \notin Known => s = t
    BY AddKnows
  <1>4. \A s \in Known : s.born <= seq /\ s.born \in 1..MaxSubs
    BY KnownTyped DEF KnownInv
  <1>5. \A s \in Known' : s.id = NewSubId(s.born) /\ s.born <= seq'
    BY <1>1, <1>2, <1>4 DEF KnownInv
  <1>6. \A s, t \in Known' : s.born = t.born => s = t
    BY <1>1, <1>2, <1>3, <1>4 DEF KnownInv
  <1>7. \A b \in 1..MaxSubs : b > seq' => \A k \in Key : handed'[b][k] = Nil
    BY <1>1 DEF KnownInv
  <1>8. \A b \in 1..MaxSubs, k \in Key :
           handed'[b][k] # Nil => handed'[b][k].at <= now'
    BY <1>1 DEF KnownInv
  <1>9. \A p \in Procs : matched'[p] # {} => pc'[p] = "fire"
    BY <1>1 DEF KnownInv
  <1> QED
    BY <1>5, <1>6, <1>7, <1>8, <1>9 DEF KnownInv

\* It opens no window of another, as long as it takes no id that was given.
LEMMA WindowAdd ==
    ASSUME TypeOK, KnownInv, WindowInv, MaxSubs <= IdSpace,
           NEW r \in SubRequests, AddSubscription(r)
    PROVE  WindowInv'
  <1>1. /\ seq \in Nat /\ seq + 1 \in 1..MaxSubs
        /\ UNCHANGED <<handed, now>>
    BY AddKnows
  <1>2. \A s \in Known' : s \in Known \/ s.born = seq + 1
    BY AddKnows
  <1>3. debounce' = [debounce EXCEPT ![NewSubId(seq + 1)] = NeverFired]
    BY DEF AddSubscription
  <1>4. ASSUME NEW s \in Known', NEW k \in Key,
               s.request.debounce > 0, handed'[s.born][k] # Nil
        PROVE  \/ debounce'[s.id] = Nil
               \/ debounce'[s.id][k] # 0 /\ handed'[s.born][k].at <= debounce'[s.id][k]
    <2>1. handed[seq + 1][k] = Nil
      BY <1>1 DEF KnownInv
    <2>2. s \in Known
      BY <1>1, <1>2, <1>4, <2>1
    <2>3. s.id \in SubIds /\ s.born \in 1..MaxSubs /\ s.born <= seq
          /\ s.id = NewSubId(s.born)
      BY <2>2, KnownTyped DEF KnownInv
    <2>4. s.id # NewSubId(seq + 1)
      <3>1. s.born # seq + 1
        BY <1>1, <2>3
      <3> QED
        BY <1>1, <2>3, <3>1, NoIdTwice
    <2>5. debounce'[s.id] = debounce[s.id]
      BY <1>3, <2>3, <2>4 DEF TypeOK
    <2> QED
      BY <1>1, <1>4, <2>2, <2>5 DEF WindowInv
  <1> QED
    BY <1>4 DEF WindowInv

\* A loop starts a delivery.
Firing == \E q \in Procs : \E t \in matched[q] : FireOne(q, t)

\* The steps that start none and make no subscription.
LEMMA MapsElsewhere ==
    ASSUME TypeOK, ~Firing, [Next]_vars, \A r \in SubRequests : ~AddSubscription(r)
    PROVE  /\ handed' = handed /\ now' \in {now, now + 1} /\ now \in Nat /\ now <= now'
           /\ \A i \in SubIds : debounce'[i] \in {debounce[i], Nil}
  <1>1. ASSUME NEW i \in SubIds, RemoveSubscription(i)
        PROVE  /\ UNCHANGED <<handed, now>>
               /\ \A j \in SubIds : debounce'[j] \in {debounce[j], Nil}
    BY <1>1 DEF RemoveSubscription, TypeOK
  <1>2. ASSUME \A i \in SubIds : ~RemoveSubscription(i)
        PROVE  UNCHANGED <<handed, debounce>> /\ now' \in {now, now + 1}
    <2>1. ASSUME NEW q \in Procs, ProcStep(q)
          PROVE  UNCHANGED <<handed, now, debounce>>
      BY <2>1 DEF Firing, ProcStep, Detect, UpdateSnapshot, Record,
         MatchSubscriptions, PanicOnNilMap
    <2>2. ASSUME \/ \E p \in Writers : BeginWrite(p)
                 \/ \E p \in IngestHandlers, e \in IngestedEvents : Ingest(p, e)
          PROVE  UNCHANGED <<handed, now, debounce>>
      BY <2>2 DEF BeginWrite, Ingest
    <2>3. ASSUME Tick \/ UNCHANGED vars
          PROVE  UNCHANGED <<handed, debounce>> /\ now' \in {now, now + 1}
      BY <2>3 DEF Tick, vars
    <2> QED
      BY <1>2, <2>1, <2>2, <2>3 DEF Next
  <1>3. now \in Nat
    BY FaultSubAssumption DEF TypeOK
  <1> QED
    BY <1>1, <1>2, <1>3

LEMMA KnownStep ==
    ASSUME TypeOK, Control, KnownInv, [Next]_vars
    PROVE  KnownInv'
  <1>1. CASE \E r \in SubRequests : AddSubscription(r)
    BY <1>1, KnownAdd
  <1>2. CASE \A r \in SubRequests : ~AddSubscription(r)
    <2>1. /\ Known' \subseteq Known /\ seq' = seq
          /\ \A p \in Procs : matched'[p] # {} => pc'[p] = "fire"
      BY <1>2, KnownShrinks
    <2>2. /\ \A s \in Known' : s.id = NewSubId(s.born) /\ s.born <= seq'
          /\ \A s, t \in Known' : s.born = t.born => s = t
      BY <2>1 DEF KnownInv
    <2>3. /\ \A b \in 1..MaxSubs : b > seq' => \A k \in Key : handed'[b][k] = Nil
          /\ \A b \in 1..MaxSubs, k \in Key :
                handed'[b][k] # Nil => handed'[b][k].at <= now'
      <3>1. CASE Firing
        <4>1. PICK q \in Procs : \E t \in matched[q] : FireOne(q, t)
          BY <3>1 DEF Firing
        <4>2. PICK t \in matched[q] : FireOne(q, t)
          BY <4>1
        <4>3. t \in Known /\ t.born <= seq /\ t.born \in 1..MaxSubs /\ seq \in Nat
              /\ now' = now /\ now \in Nat
          BY <4>2, FireKnows, KnownTyped, FaultSubAssumption DEF KnownInv, TypeOK
        <4>4. \A b \in 1..MaxSubs, k \in Key :
                 handed'[b][k] # handed[b][k] => b = t.born /\ handed'[b][k].at = now
          BY <4>2, HandedAfterFire
        <4>5. \A b \in 1..MaxSubs : b > seq' => \A k \in Key : handed'[b][k] = Nil
          BY <2>1, <4>3, <4>4 DEF KnownInv
        <4>6. \A b \in 1..MaxSubs, k \in Key :
                 handed'[b][k] # Nil => handed'[b][k].at <= now'
          BY <4>3, <4>4 DEF KnownInv
        <4> QED
          BY <4>5, <4>6
      <3>2. CASE ~Firing
        <4>1. handed' = handed /\ now \in Nat /\ now' \in {now, now + 1}
          BY <1>2, <3>2, MapsElsewhere
        <4>2. ASSUME NEW b \in 1..MaxSubs, NEW k \in Key, handed'[b][k] # Nil
              PROVE  handed'[b][k].at <= now'
          <5>1. handed[b][k] # Nil /\ handed[b][k].at <= now
            BY <4>1, <4>2 DEF KnownInv
          <5>2. handed[b][k] \in NoticeRecord
            <6>1. handed \in [1..MaxSubs -> [Key -> NoticeRecord \cup {Nil}]]
              BY DEF TypeOK
            <6> QED
              BY <5>1, <6>1
          <5>3. handed[b][k].at \in Nat
            BY <5>2, FaultSubAssumption DEF NoticeRecord
          <5> QED
            BY <4>1, <5>1, <5>3
        <4>3. \A b \in 1..MaxSubs : b > seq' => \A k \in Key : handed'[b][k] = Nil
          BY <2>1, <4>1 DEF KnownInv
        <4> QED
          BY <4>2, <4>3
      <3> QED
        BY <3>1, <3>2
    <2> QED
      BY <2>1, <2>2, <2>3 DEF KnownInv
  <1> QED
    BY <1>1, <1>2

LEMMA WindowStep ==
    ASSUME TypeOK, Control, KnownInv, WindowInv, MaxSubs <= IdSpace, [Next]_vars
    PROVE  WindowInv'
  <1>1. CASE \E r \in SubRequests : AddSubscription(r)
    BY <1>1, WindowAdd
  <1>2. CASE Firing
    BY <1>2, WindowFire DEF Firing
  <1>3. CASE ~Firing /\ \A r \in SubRequests : ~AddSubscription(r)
    <2>1. /\ Known' \subseteq Known /\ handed' = handed
          /\ \A i \in SubIds : debounce'[i] \in {debounce[i], Nil}
      BY <1>3, KnownShrinks, MapsElsewhere
    <2>2. ASSUME NEW s \in Known', NEW k \in Key,
                 s.request.debounce > 0, handed'[s.born][k] # Nil,
                 debounce'[s.id] # Nil
          PROVE  debounce'[s.id][k] # 0 /\ handed'[s.born][k].at <= debounce'[s.id][k]
      <3>1. s \in Known /\ s.id \in SubIds
        BY <2>1, KnownTyped
      <3>2. debounce'[s.id] = debounce[s.id]
        BY <2>1, <2>2, <3>1
      <3> QED
        BY <2>1, <2>2, <3>1, <3>2 DEF WindowInv
    <2> QED
      BY <2>2 DEF WindowInv
  <1> QED
    BY <1>1, <1>2, <1>3

\* A hand-off that changes the last one comes when the window has passed.
LEMMA SpacingStep ==
    ASSUME TypeOK, Control, KnownInv, WindowInv, Next
    PROVE  \A p \in Procs : \A s \in matched[p] : \A k \in Key :
              /\ handed[s.born][k] # Nil
              /\ handed'[s.born][k] # handed[s.born][k]
              => now - handed[s.born][k].at >= s.request.debounce
  <1> SUFFICES ASSUME NEW p \in Procs, NEW s \in matched[p], NEW k \in Key,
                      handed[s.born][k] # Nil,
                      handed'[s.born][k] # handed[s.born][k]
               PROVE  now - handed[s.born][k].at >= s.request.debounce
    OBVIOUS
  <1> DEFINE b == s.born
  <1>1. s \in Known /\ b \in 1..MaxSubs /\ s.id \in SubIds /\ s.request.debounce \in Nat
    BY KnownTyped DEF Known
  <1>2. handed[b][k] # Nil /\ handed'[b][k] # handed[b][k]
    OBVIOUS
  <1> HIDE DEF b
  <1>3. PICK q \in Procs : \E t \in matched[q] : FireOne(q, t)
    BY <1>2 DEF Next, ProcStep, Detect, UpdateSnapshot, Record, MatchSubscriptions,
       PanicOnNilMap, BeginWrite, Ingest, AddSubscription, RemoveSubscription, Tick
  <1>4. PICK t \in matched[q] : FireOne(q, t)
    BY <1>3
  <1>5. b = t.born /\ k = KeyOf(Head(queue[q]))
    BY <1>1, <1>2, <1>4, HandedAfterFire
  <1>7. t.request.debounce > 0 =>
           /\ debounce[t.id] # Nil
           /\ debounce[t.id][k] # 0 =>
                 ~(now - debounce[t.id][k] < t.request.debounce)
    BY <1>2, <1>4, <1>5, WindowOpened
  <1>8. s = t
    <2>1. t \in Known /\ s.born = t.born
      BY <1>5 DEF Known, b
    <2> QED
      BY <1>1, <2>1 DEF KnownInv
  <1>9. now \in Nat /\ handed[b][k].at \in Nat /\ handed[b][k].at <= now
    <2>0. handed \in [1..MaxSubs -> [Key -> NoticeRecord \cup {Nil}]] /\ b \in 1..MaxSubs
      BY <1>1 DEF TypeOK
    <2>1. handed[b][k] \in NoticeRecord
      BY <1>2, <2>0
    <2> QED
      BY <1>1, <1>2, <2>1, FaultSubAssumption DEF NoticeRecord, TypeOK, KnownInv
  <1>10. CASE s.request.debounce = 0
    BY <1>9, <1>10 DEF b
  <1>11. CASE s.request.debounce > 0
    <2>1. debounce[s.id] # Nil /\ debounce[s.id][k] # 0
          /\ handed[b][k].at <= debounce[s.id][k]
      BY <1>1, <1>2, <1>7, <1>8, <1>11 DEF WindowInv, b
    <2>2. ~(now - debounce[s.id][k] < s.request.debounce)
      BY <1>7, <1>8, <1>11, <2>1
    <2>3. debounce[s.id][k] \in Nat
      <3>1. debounce[s.id] \in [Key -> 0..MaxTime]
        BY <1>1, <2>1 DEF TypeOK
      <3> QED
        BY <3>1, FaultSubAssumption
    <2> QED
      BY <1>1, <1>9, <2>1, <2>2, <2>3 DEF b
  <1> QED
    BY <1>1, <1>10, <1>11

\* Two hand-offs of one (npu, type) to one subscription are at least its window
\* apart, whichever goroutines dispatch them and whatever the REST handlers do
\* meanwhile (subscription.go:40-42), as long as newSubID has given no id twice:
\* a loop that visits a removed subscription would write into the windows of the
\* one that took its id.
THEOREM DebounceWindowKept ==
    ASSUME MaxSubs <= IdSpace
    PROVE  Spec => DebounceSpacing
  <1>1. ASSUME TypeOK, Control, KnownInv, WindowInv, [Next]_vars
        PROVE  [\A p \in Procs : \A s \in matched[p] : \A k \in Key :
                  /\ handed[s.born][k] # Nil
                  /\ handed'[s.born][k] # handed[s.born][k]
                  => now - handed[s.born][k].at >= s.request.debounce]_vars
    BY <1>1, SpacingStep
  <1>2. Init => KnownInv /\ WindowInv
    BY KnownInit
  <1> QED
    BY <1>1, <1>2, KnownStep, WindowStep, TypeCorrect, PTL DEF Spec, DebounceSpacing

-----------------------------------------------------------------------------
\* Events under way, whichever goroutines have them.

\* Whether the last cycle found the fault k inactive.
Clear(k) == k[2] \notin prev[k[1]]

Bit(k) == IF k[2] \in prev[k[1]] THEN 1 ELSE 0

\* The queue q has an event of P behind its head, or at its head and here.
Waits(q, here, P) == \E i \in 1..Len(q) : q[i] \in P /\ (i > 1 \/ here)

\* The events of a fault, and those that say one thing of it.
Of(k) == {e \in Event : KeyOf(e) = k}
Telling(k, rec) == {e \in Event : KeyOf(e) = k /\ e.recovered = rec}

LEMMA WaitsNone ==
    ASSUME NEW here, NEW P
    PROVE  ~Waits(<<>>, here, P)
  BY EmptySeq DEF Waits

LEMMA WaitsParts ==
    ASSUME NEW q \in Seq(Event), q # <<>>, NEW here \in BOOLEAN, NEW P
    PROVE  /\ Waits(q, here, P) <=> Waits(q, FALSE, P) \/ (here /\ Head(q) \in P)
           /\ Waits(Tail(q), TRUE, P) <=> Waits(q, FALSE, P)
  <1> DEFINE t == Tail(q)
  <1>1. /\ Len(q) \in Nat \ {0} /\ Head(q) = q[1] /\ Len(t) = Len(q) - 1
        /\ \A i \in 1..Len(t) : t[i] = q[i + 1]
    BY HeadTailProperties, EmptySeq
  <1> HIDE DEF t
  <1>2. 1 \in 1..Len(q) /\ \A i \in 1..Len(q) : i = 1 \/ i > 1
    BY <1>1
  <1>3. Waits(q, here, P) <=> Waits(q, FALSE, P) \/ (here /\ Head(q) \in P)
    BY <1>1, <1>2 DEF Waits
  <1>4. \A i \in 1..Len(t) : i + 1 \in 1..Len(q) /\ i + 1 > 1
    BY <1>1
  <1>5. \A i \in 1..Len(q) : i > 1 => i - 1 \in 1..Len(t) /\ t[i - 1] = q[i]
    BY <1>1
  <1>6. ASSUME Waits(t, TRUE, P) PROVE Waits(q, FALSE, P)
    <2>1. PICK i \in 1..Len(t) : t[i] \in P
      BY <1>6 DEF Waits
    <2> QED
      BY <1>1, <1>4, <2>1 DEF Waits
  <1>7. ASSUME Waits(q, FALSE, P) PROVE Waits(t, TRUE, P)
    <2>1. PICK i \in 1..Len(q) : q[i] \in P /\ i > 1
      BY <1>7 DEF Waits
    <2> QED
      BY <1>5, <2>1 DEF Waits
  <1> QED
    BY <1>3, <1>6, <1>7 DEF t

\* The keys of a queue by position.
LEMMA KeysWaiting ==
    ASSUME NEW q \in Seq(Event)
    PROVE  /\ DOMAIN q = 1..Len(q)
           /\ \A k \in Key :
                 k \in {KeyOf(q[i]) : i \in DOMAIN q} <=> Waits(q, TRUE, Of(k))
  <1>1. DOMAIN q = 1..Len(q)
    OBVIOUS
  <1>2. \A i \in 1..Len(q) : q[i] \in Event
    BY EventsTyped
  <1> QED
    BY <1>1, <1>2 DEF Waits, Of

\* A goroutine that ends the loop over its first event.
LEMMA DispatchEnds ==
    ASSUME TypeOK, Control, NEW w \in Procs, pc[w] \in {"match", "fire"},
           AfterDispatch(w)
    PROVE  /\ queue[w] # <<>> /\ queue'[w] = Tail(queue[w])
           /\ pc'[w] \in {"idle", "update"}
           /\ \A p \in Procs \ {w} : queue'[p] = queue[p] /\ pc'[p] = pc[p]
           /\ \A here \in BOOLEAN, P \in SUBSET Event :
                 (pc'[w] = "update" => here) =>
                    (Waits(queue'[w], here, P) <=> Waits(queue[w], FALSE, P))
  <1>1. queue[w] # <<>> /\ queue[w] \in Seq(Event)
    BY DEF Control, TypeOK
  <1>2. Len(queue[w]) = 1 <=> Tail(queue[w]) = <<>>
    BY <1>1, QueueHead
  <1>3. /\ queue'[w] = Tail(queue[w])
        /\ pc'[w] = IF Len(queue[w]) = 1 THEN "idle" ELSE "update"
        /\ \A p \in Procs \ {w} : queue'[p] = queue[p] /\ pc'[p] = pc[p]
    BY DEF AfterDispatch, TypeOK
  <1>4. ASSUME NEW here \in BOOLEAN, NEW P \in SUBSET Event, pc'[w] = "update" => here
        PROVE  Waits(queue'[w], here, P) <=> Waits(queue[w], FALSE, P)
    <2>1. Waits(Tail(queue[w]), TRUE, P) <=> Waits(queue[w], FALSE, P)
      BY <1>1, WaitsParts
    <2>2. CASE Tail(queue[w]) = <<>>
      BY <1>3, <2>1, <2>2, WaitsNone
    <2>3. CASE Tail(queue[w]) # <<>>
      <3>1. here = TRUE
        BY <1>2, <1>3, <1>4, <2>3
      <3> QED
        BY <1>3, <2>1, <3>1
    <2> QED
      BY <2>2, <2>3
  <1> QED
    BY <1>1, <1>3, <1>4

\* A sequence that says each thing once.
Once(q) == \A i, j \in 1..Len(q) : KeyOf(q[i]) = KeyOf(q[j]) => i = j

\* What a Detect call leaves: one event for each fault whose state it changed,
\* saying what it is now.
LEMMA DetectEffect ==
    ASSUME TypeOK, Control, NEW w \in Procs, NEW devs \in Batches(w), Detect(w, devs)
    PROVE  /\ w \in Writers /\ queue[w] = <<>> /\ pc[w] = "detect"
           /\ pc'[w] \in {"idle", "update"} /\ (queue'[w] # <<>> => pc'[w] = "update")
           /\ \A p \in Procs \ {w} : queue'[p] = queue[p] /\ pc'[p] = pc[p]
           /\ UNCHANGED <<snapshot, subs, matched, panicked, handed, balance>>
           /\ mixed' = MixedAfter(w, InQueue(w)')
           /\ Once(queue'[w])
           /\ \A i \in 1..Len(queue'[w]) :
                 queue'[w][i].recovered <=> queue'[w][i].type \notin prev'[queue'[w][i].npu]
           /\ \A k \in Key : (Clear(k)' <=> Clear(k)) <=> k \notin InQueue(w)'
  <1>1. IsBatch(devs)
    BY BatchShape
  <1>2. stamp[w] \in Nat /\ prev \in [Npus -> SUBSET EnabledRules]
    BY DEF TypeOK
  <1>3. PICK evs \in Detections(devs, prev, stamp[w]) :
           /\ queue' = [queue EXCEPT ![w] = evs]
           /\ pc' = [pc EXCEPT ![w] = IF evs = <<>> THEN "idle" ELSE "update"]
           /\ mixed' = MixedAfter(w, {KeyOf(evs[i]) : i \in DOMAIN evs})
    BY DEF Detect
  <1>4. /\ queue'[w] = evs /\ pc'[w] = IF evs = <<>> THEN "idle" ELSE "update"
        /\ \A p \in Procs \ {w} : queue'[p] = queue[p] /\ pc'[p] = pc[p]
    BY <1>3 DEF TypeOK
  <1>5. /\ prev' = Active(devs) /\ pc[w] = "detect" /\ queue[w] = <<>>
        /\ UNCHANGED <<snapshot, subs, matched, panicked, handed, balance>>
        /\ w \in Writers
    BY DEF Detect, NextPrev, Control, Procs
  <1> DEFINE ByEvent(e) ==
               /\ e.at = stamp[w] /\ e.npu \in Npus /\ e.type \in EnabledRules
               /\ e.recovered <=> e.type \notin Active(devs)[e.npu]
               /\ e.recovered <=> e.type \in prev[e.npu]
  <1>7. /\ evs \in Seq(Event)
        /\ \A i \in 1..Len(evs) : ByEvent(evs[i])
        /\ \A i, j \in 1..Len(evs) : KeyOf(evs[i]) = KeyOf(evs[j]) => i = j
        /\ \A e \in Fires(devs, prev, stamp[w]) \cup Recoveries(devs, prev, stamp[w]) :
              \E i \in 1..Len(evs) : evs[i] = e
    <2>1. /\ evs \in Seq(Event)
          /\ \A i \in 1..Len(evs) :
                evs[i] \in Fires(devs, prev, stamp[w]) \cup Recoveries(devs, prev, stamp[w])
          /\ \A i, j \in 1..Len(evs) : KeyOf(evs[i]) = KeyOf(evs[j]) => i = j
          /\ \A e \in Fires(devs, prev, stamp[w]) \cup Recoveries(devs, prev, stamp[w]) :
                \E i \in 1..Len(evs) : evs[i] = e
      BY <1>1, <1>2, DetectionSequence
    <2>2. \A e \in Fires(devs, prev, stamp[w]) \cup Recoveries(devs, prev, stamp[w]) : ByEvent(e)
      BY <1>1, <1>2, DetectionKinds
    <2> HIDE DEF ByEvent
    <2> QED
      BY <2>1, <2>2
  <1>8. \A k \in Key :
           (k[2] \in prev[k[1]] <=> k[2] \in Active(devs)[k[1]])
              <=> ~\E i \in 1..Len(evs) : KeyOf(evs[i]) = k
    <2> SUFFICES ASSUME NEW n \in Npus, NEW t \in FaultType
                 PROVE  (t \in prev[n] <=> t \in Active(devs)[n])
                           <=> ~\E i \in 1..Len(evs) : evs[i].npu = n /\ evs[i].type = t
      BY DEF Key, KeyOf
    <2>1. ASSUME NEW i \in 1..Len(evs), evs[i].npu = n, evs[i].type = t
          PROVE  t \in prev[n] <=> t \notin Active(devs)[n]
      BY <1>7, <2>1
    <2>2. ASSUME t \in prev[n], t \notin Active(devs)[n]
          PROVE  \E i \in 1..Len(evs) : evs[i].npu = n /\ evs[i].type = t
      <3> DEFINE e == FaultEvent(<<n, t>>, "warning", TRUE, stamp[w])
      <3>1. e \in Recoveries(devs, prev, stamp[w])
        BY <1>2, <2>2 DEF Recoveries, NoLongerActive
      <3>2. PICK i \in 1..Len(evs) : evs[i] = e
        BY <1>7, <3>1
      <3> QED
        BY <3>2 DEF FaultEvent
    <2>3. ASSUME t \notin prev[n], t \in Active(devs)[n]
          PROVE  \E i \in 1..Len(evs) : evs[i].npu = n /\ evs[i].type = t
      <3> DEFINE A == Active(devs)
                 holding == {u \in EnabledRules : RuleHolds(u, devs[n])}
                 nt == <<n, t>>
                 e == FaultEvent(nt, RuleSeverity(nt[2], devs[nt[1]]), FALSE, stamp[w])
      <3>1. n \in DOMAIN devs /\ t \in EnabledRules
        <4>1. Active(devs)[n] = IF n \in DOMAIN devs THEN holding ELSE {}
          BY DEF Active
        <4>2. n \in DOMAIN devs
          BY <2>3, <4>1
        <4>3. t \in holding
          BY <2>3, <4>1, <4>2
        <4> QED
          BY <4>2, <4>3
      <3>2. /\ nt \in (DOMAIN devs) \X EnabledRules /\ nt[2] \in A[nt[1]] \ prev[nt[1]]
            /\ e.npu = n /\ e.type = t
        BY <2>3, <3>1 DEF FaultEvent
      <3>3. NewlyActive(devs, prev) =
               {x \in (DOMAIN devs) \X EnabledRules : x[2] \in A[x[1]] \ prev[x[1]]}
        BY DEF NewlyActive
      <3> HIDE DEF A, nt
      <3>4. e \in Fires(devs, prev, stamp[w])
        BY <3>2, <3>3 DEF Fires
      <3>5. PICK i \in 1..Len(evs) : evs[i] = e
        BY <1>7, <3>4
      <3> QED
        BY <3>2, <3>5
    <2> QED
      BY <2>1, <2>2, <2>3
  <1>9. InQueue(w)' = {KeyOf(evs[i]) : i \in 1..Len(evs)} /\ DOMAIN evs = 1..Len(evs)
    <2>1. DOMAIN evs = 1..Len(evs)
      BY <1>7
    <2> QED
      BY <1>4, <2>1 DEF InQueue
  <1>10. \A i \in 1..Len(evs) : evs[i].recovered <=> evs[i].type \notin prev'[evs[i].npu]
    BY <1>5, <1>7
  <1>11. \A k \in Key : (Clear(k)' <=> Clear(k)) <=> k \notin InQueue(w)'
    BY <1>5, <1>8, <1>9 DEF Clear
  <1>12. mixed' = MixedAfter(w, InQueue(w)')
    BY <1>3, <1>9
  <1> HIDE DEF ByEvent
  <1>13. Once(queue'[w])
    BY <1>4, <1>7 DEF Once
  <1>14. \A i \in 1..Len(queue'[w]) :
            queue'[w][i].recovered <=> queue'[w][i].type \notin prev'[queue'[w][i].npu]
    BY <1>4, <1>10
  <1> QED
    BY <1>4, <1>5, <1>11, <1>12, <1>13, <1>14

-----------------------------------------------------------------------------
\* The steps by which a goroutine moves on with what it has: none of them changes
\* prev or the history of mixed faults.
Advances(w) ==
    \/ BeginWrite(w) \/ UpdateSnapshot(w) \/ Record(w) \/ MatchSubscriptions(w)
    \/ \E s \in matched[w] : FireOne(w, s)

\* The steps of the REST handlers and the clock.
Elsewhere ==
    \/ \E r \in SubRequests : AddSubscription(r)
    \/ \E i \in SubIds : RemoveSubscription(i)
    \/ Tick
    \/ UNCHANGED vars

LEMMA StepKinds ==
    ASSUME [Next]_vars
    PROVE  \/ \E w \in Procs : Advances(w)
           \/ \E w \in Procs : \E devs \in Batches(w) : Detect(w, devs)
           \/ \E w \in IngestHandlers, e \in IngestedEvents : Ingest(w, e)
           \/ ~panicked /\ \E w \in Procs : \E s \in matched[w] : PanicOnNilMap(w, s)
           \/ Elsewhere
  BY DEF Next, ProcStep, Advances, Elsewhere, Procs

LEMMA ElsewhereRests ==
    ASSUME Elsewhere
    PROVE  UNCHANGED <<prev, snapshot, pc, queue, matched, panicked, mixed, balance, handed>>
  BY DEF Elsewhere, AddSubscription, RemoveSubscription, Tick, vars

LEMMA AdvanceEffect ==
    ASSUME TypeOK, Control, NEW w \in Procs, Advances(w)
    PROVE  /\ UNCHANGED <<prev, subs, panicked, mixed>>
           /\ \A p \in Procs \ {w} :
                 queue'[p] = queue[p] /\ pc'[p] = pc[p] /\ matched'[p] = matched[p]
           /\ \/ pc[w] \in {"match", "fire"} /\ AfterDispatch(w)
              \/ /\ queue'[w] = queue[w]
                 /\ \/ pc[w] = "idle" /\ pc'[w] = "detect"
                    \/ pc[w] = "update" /\ pc'[w] = "record"
                    \/ pc[w] = "record" /\ pc'[w] = "match"
                    \/ pc[w] \in {"match", "fire"} /\ pc'[w] = "fire"
  <1>1. CASE BeginWrite(w) \/ UpdateSnapshot(w) \/ Record(w)
    BY <1>1 DEF BeginWrite, UpdateSnapshot, Record, TypeOK
  <1>2. CASE MatchSubscriptions(w)
    BY <1>2 DEF MatchSubscriptions, AfterDispatch, TypeOK
  <1>3. ASSUME NEW s \in matched[w], FireOne(w, s)
        PROVE  /\ UNCHANGED <<prev, subs, panicked, mixed>>
               /\ \A p \in Procs \ {w} :
                     queue'[p] = queue[p] /\ pc'[p] = pc[p] /\ matched'[p] = matched[p]
               /\ pc[w] = "fire"
               /\ AfterDispatch(w) \/ (queue'[w] = queue[w] /\ pc'[w] = "fire")
    <2>1. Visit(w, s) /\ UNCHANGED <<prev, subs, mixed>> /\ pc[w] = "fire"
      BY <1>3 DEF FireOne
    <2> QED
      BY <2>1 DEF Visit, AfterDispatch, TypeOK
  <1> QED
    BY <1>1, <1>2, <1>3 DEF Advances

\* A goroutine that moves on keeps what is behind its head, and what is at its
\* head until it ends the loop over it.
LEMMA AdvanceQueue ==
    ASSUME TypeOK, Control, NEW w \in Procs, Advances(w), NEW P \in SUBSET Event
    PROVE  /\ Waits(queue'[w], pc'[w] = "update", P) <=> Waits(queue[w], FALSE, P)
           /\ pc[w] # "record" =>
                (Waits(queue'[w], pc'[w] \in {"update", "record"}, P)
                   <=> Waits(queue[w], pc[w] \in {"update", "record"}, P))
           /\ queue'[w] \in Seq(Event)
           /\ \A i \in 1..Len(queue'[w]) : \E j \in 1..Len(queue[w]) :
                 queue'[w][i] = queue[w][j]
           /\ Once(queue[w]) => Once(queue'[w])
  <1>1. \/ pc[w] \in {"match", "fire"} /\ AfterDispatch(w)
        \/ /\ queue'[w] = queue[w]
           /\ \/ pc[w] = "idle" /\ pc'[w] = "detect"
              \/ pc[w] = "update" /\ pc'[w] = "record"
              \/ pc[w] = "record" /\ pc'[w] = "match"
              \/ pc[w] \in {"match", "fire"} /\ pc'[w] = "fire"
    BY AdvanceEffect
  <1>2. CASE pc[w] \in {"match", "fire"} /\ AfterDispatch(w)
    <2>1. /\ queue[w] # <<>> /\ queue'[w] = Tail(queue[w])
          /\ pc'[w] \in {"idle", "update"}
          /\ \A here \in BOOLEAN :
                (pc'[w] = "update" => here) =>
                   (Waits(queue'[w], here, P) <=> Waits(queue[w], FALSE, P))
      BY <1>2, DispatchEnds
    <2>2. queue[w] \in Seq(Event)
      BY DEF TypeOK
    <2>3. /\ Len(queue[w]) \in Nat /\ queue'[w] \in Seq(Event)
          /\ Len(queue'[w]) = Len(queue[w]) - 1
          /\ \A i \in 1..Len(queue'[w]) : queue'[w][i] = queue[w][i + 1]
      BY <2>1, <2>2, HeadTailProperties
    <2>4. \A i \in 1..Len(queue'[w]) : i + 1 \in 1..Len(queue[w])
      BY <2>3
    <2>5. Once(queue[w]) => Once(queue'[w])
      BY <2>3, <2>4 DEF Once
    <2>6. Waits(queue'[w], pc'[w] = "update", P) <=> Waits(queue[w], FALSE, P)
      BY <2>1
    <2>7. pc[w] \notin {"update", "record"}
      BY <1>2
    <2>9. Waits(queue'[w], pc'[w] \in {"update", "record"}, P) <=> Waits(queue[w], FALSE, P)
      <3> DEFINE here == pc'[w] \in {"update", "record"}
      <3>1. here \in BOOLEAN /\ (pc'[w] = "update" => here)
        OBVIOUS
      <3> HIDE DEF here
      <3>2. Waits(queue'[w], here, P) <=> Waits(queue[w], FALSE, P)
        BY <2>1, <3>1
      <3> QED
        BY <3>2 DEF here
    <2>8. Waits(queue[w], pc[w] \in {"update", "record"}, P) <=> Waits(queue[w], FALSE, P)
      BY <2>7 DEF Waits
    <2> QED
      BY <2>3, <2>4, <2>5, <2>6, <2>8, <2>9
  <1>3. CASE /\ queue'[w] = queue[w]
             /\ \/ pc[w] = "idle" /\ pc'[w] = "detect"
                \/ pc[w] = "update" /\ pc'[w] = "record"
                \/ pc[w] = "record" /\ pc'[w] = "match"
                \/ pc[w] \in {"match", "fire"} /\ pc'[w] = "fire"
    <2>1. pc'[w] # "update" /\ queue[w] \in Seq(Event)
      BY <1>3 DEF TypeOK
    <2>2. pc[w] # "record" => (pc'[w] \in {"update", "record"} <=> pc[w] \in {"update", "record"})
      BY <1>3
    <2> QED
      BY <1>3, <2>1, <2>2 DEF Waits
  <1> QED
    BY <1>1, <1>2, <1>3

-----------------------------------------------------------------------------
\* What the queues say.

\* Every event of a fault that is not mixed says what the last cycle found.
Says(q) ==
    \A i \in 1..Len(q) :
        KeyOf(q[i]) \notin mixed => (q[i].recovered <=> Clear(KeyOf(q[i])))

QueuesInv ==
    /\ \A p \in Procs : Once(queue[p]) /\ Says(queue[p])
    /\ \A p \in IngestHandlers : InQueue(p) \subseteq mixed

LEMMA QueuesInit == Init => QueuesInv
  <1> SUFFICES ASSUME Init PROVE QueuesInv
    OBVIOUS
  <1>1. \A p \in Procs : queue[p] = <<>>
    BY DEF Init
  <1>2. Len(<<>>) = 0 /\ DOMAIN <<>> = {}
    BY EmptySeq
  <1>3. 1..0 = {}
    BY SMT
  <1> QED
    BY <1>1, <1>2, <1>3 DEF QueuesInv, Once, Says, InQueue, Procs

LEMMA QueuesDetect ==
    ASSUME TypeOK, Control, QueuesInv, NEW w \in Procs, NEW devs \in Batches(w),
           Detect(w, devs)
    PROVE  QueuesInv'
  <1>1. /\ w \in Writers
        /\ \A p \in Procs \ {w} : queue'[p] = queue[p] /\ pc'[p] = pc[p]
        /\ mixed' = MixedAfter(w, InQueue(w)')
        /\ Once(queue'[w])
        /\ \A i \in 1..Len(queue'[w]) :
              queue'[w][i].recovered <=> queue'[w][i].type \notin prev'[queue'[w][i].npu]
        /\ \A k \in Key : (Clear(k)' <=> Clear(k)) <=> k \notin InQueue(w)'
    BY DetectEffect
  <1> DEFINE K == InQueue(w)'
  <1>2. \A k \in K : (\E q \in Procs \ {w} : k \in InQueue(q)) => k \in mixed'
    BY <1>1 DEF MixedAfter
  <1>3. \A k : k \notin K => (k \in mixed' <=> k \in mixed)
    BY <1>1 DEF MixedAfter
  <1>4. \A p \in Procs \ {w} : InQueue(p)' = InQueue(p)
    BY <1>1 DEF InQueue
  <1>5. \A k \in Key : k \notin K => (k[2] \notin prev'[k[1]] <=> Clear(k))
    BY <1>1 DEF Clear
  <1>6. \A i \in 1..Len(queue'[w]) :
           queue'[w][i].recovered <=> KeyOf(queue'[w][i])[2] \notin prev'[KeyOf(queue'[w][i])[1]]
    BY <1>1 DEF KeyOf
  <1> HIDE DEF K
  <1>7. ASSUME NEW p \in Procs \ {w}
        PROVE  Once(queue'[p]) /\ Says(queue[p])'
    <2>1. Once(queue[p]) /\ Says(queue[p])
      BY DEF QueuesInv
    <2>2. ASSUME NEW i \in 1..Len(queue[p]), KeyOf(queue[p][i]) \notin mixed'
          PROVE  queue[p][i].recovered
                    <=> KeyOf(queue[p][i])[2] \notin prev'[KeyOf(queue[p][i])[1]]
      <3> DEFINE k == KeyOf(queue[p][i])
      <3>1. queue[p] \in Seq(Event)
        BY DEF TypeOK
      <3>2. k \in Key /\ k \in InQueue(p)
        BY <3>1, EventsTyped, KeysWaiting DEF InQueue
      <3> HIDE DEF k
      <3>3. k \notin mixed'
        BY <2>2 DEF k
      <3>4. k \notin K /\ k \notin mixed
        BY <1>2, <1>3, <3>2, <3>3
      <3>5. queue[p][i].recovered <=> Clear(k)
        BY <2>1, <3>4 DEF Says, k
      <3> QED
        BY <1>5, <3>2, <3>4, <3>5 DEF k
    <2> QED
      BY <1>1, <2>1, <2>2 DEF Says, Clear
  <1>8. Once(queue'[w]) /\ Says(queue[w])'
    BY <1>1, <1>6 DEF Says, Clear
  <1>9. ASSUME NEW p \in IngestHandlers PROVE InQueue(p)' \subseteq mixed'
    <2>1. p \in Procs \ {w}
      BY <1>1, FaultSubAssumption DEF Procs
    <2>2. InQueue(p) \subseteq mixed /\ InQueue(p)' = InQueue(p)
      BY <1>4, <2>1 DEF QueuesInv
    <2> QED
      BY <1>2, <1>3, <2>1, <2>2
  <1> QED
    BY <1>7, <1>8, <1>9 DEF QueuesInv, Once

LEMMA QueuesIngest ==
    ASSUME TypeOK, Control, QueuesInv, NEW w \in IngestHandlers,
           NEW e \in IngestedEvents, Ingest(w, e)
    PROVE  QueuesInv'
  <1> DEFINE ev == [type |-> e[1], npu |-> e[2], severity |-> e[3],
                    recovered |-> e[4],
                    at |-> IF e[5] = 0 THEN now ELSE e[5]]
             key == <<e[2], e[1]>>
  <1>1. /\ queue' = [queue EXCEPT ![w] = <<ev>>] /\ mixed' = mixed \cup {key}
        /\ prev' = prev
    BY DEF Ingest
  <1>2. KeyOf(ev) = key
    BY DEF KeyOf
  <1> HIDE DEF ev, key
  <1>3. /\ queue'[w] = <<ev>>
        /\ \A p \in Procs \ {w} : queue'[p] = queue[p]
    BY <1>1 DEF TypeOK, Procs
  <1>4. Len(<<ev>>) = 1 /\ <<ev>>[1] = ev /\ DOMAIN <<ev>> = {1} /\ 1..1 = {1}
    BY SMT
  <1>5. Once(queue'[w]) /\ Says(queue[w])' /\ InQueue(w)' \subseteq mixed'
    BY <1>1, <1>2, <1>3, <1>4 DEF Once, Says, InQueue
  <1>6. \A p \in Procs \ {w} : Once(queue'[p]) /\ Says(queue[p])'
    BY <1>1, <1>3 DEF QueuesInv, Says, Clear
  <1>7. \A p \in IngestHandlers \ {w} : InQueue(p)' \subseteq mixed'
    BY <1>1, <1>3 DEF QueuesInv, InQueue, Procs
  <1> QED
    BY <1>5, <1>6, <1>7 DEF QueuesInv, Once

LEMMA QueuesAdvance ==
    ASSUME TypeOK, Control, QueuesInv, NEW w \in Procs, Advances(w)
    PROVE  QueuesInv'
  <1>1. /\ UNCHANGED <<prev, mixed>>
        /\ \A p \in Procs \ {w} : queue'[p] = queue[p]
    BY AdvanceEffect
  <1>2. /\ queue'[w] \in Seq(Event)
        /\ \A i \in 1..Len(queue'[w]) : \E j \in 1..Len(queue[w]) :
              queue'[w][i] = queue[w][j]
        /\ Once(queue[w]) => Once(queue'[w])
    BY AdvanceQueue DEF Once
  <1>3. Once(queue'[w]) /\ Says(queue[w])'
    <2>1. Once(queue[w]) /\ Says(queue[w])
      BY DEF QueuesInv
    <2> QED
      BY <1>1, <1>2, <2>1 DEF Says, Clear
  <1>4. InQueue(w)' \subseteq InQueue(w)
    <2>1. queue[w] \in Seq(Event)
      BY DEF TypeOK
    <2>2. DOMAIN queue[w] = 1..Len(queue[w]) /\ DOMAIN queue'[w] = 1..Len(queue'[w])
      BY <1>2, <2>1, KeysWaiting
    <2> QED
      BY <1>2, <2>2 DEF InQueue
  <1>5. \A p \in Procs \ {w} : Once(queue'[p]) /\ Says(queue[p])' /\ InQueue(p)' = InQueue(p)
    BY <1>1 DEF QueuesInv, Says, Clear, InQueue
  <1> QED
    BY <1>1, <1>3, <1>4, <1>5 DEF QueuesInv, Once, Procs

LEMMA QueuesStep ==
    ASSUME TypeOK, Control, QueuesInv, [Next]_vars
    PROVE  QueuesInv'
  <1>1. ASSUME NEW w \in Procs, NEW s \in matched[w], PanicOnNilMap(w, s)
        PROVE  QueuesInv'
    <2>1. /\ UNCHANGED <<prev, mixed>> /\ queue'[w] = <<>>
          /\ \A p \in Procs \ {w} : queue'[p] = queue[p]
      BY <1>1 DEF PanicOnNilMap, TypeOK
    <2>2. Len(<<>>) = 0 /\ DOMAIN <<>> = {} /\ 1..0 = {}
      BY EmptySeq, SMT
    <2>3. Once(queue'[w]) /\ Says(queue[w])' /\ InQueue(w)' = {}
      BY <2>1, <2>2 DEF Once, Says, InQueue
    <2>4. \A p \in Procs \ {w} : Once(queue'[p]) /\ Says(queue[p])' /\ InQueue(p)' = InQueue(p)
      BY <2>1 DEF QueuesInv, Says, Clear, InQueue
    <2> QED
      BY <2>1, <2>3, <2>4 DEF QueuesInv, Once, Procs
  <1>2. CASE Elsewhere
    <2>1. UNCHANGED <<prev, queue, mixed>>
      BY <1>2, ElsewhereRests
    <2> QED
      BY <2>1 DEF QueuesInv, Once, Says, Clear, InQueue
  <1> QED
    BY <1>1, <1>2, StepKinds, QueuesDetect, QueuesIngest, QueuesAdvance

-----------------------------------------------------------------------------
\* The snapshot.

\* A slot that shows a fault the last cycle did not find is about to be cleared.
SlotInv ==
    ~panicked =>
        \A n \in Npus, k \in Key :
            /\ snapshot[n] # Nil /\ k = <<n, snapshot[n].type>>
            /\ Clear(k) /\ k \notin mixed
            => \E p \in Procs : Waits(queue[p], pc[p] = "update", Of(k))

\* An event says something of one fault only.
LEMMA HeadSays ==
    ASSUME TypeOK, QueuesInv, NEW w \in Procs, queue[w] # <<>>
    PROVE  /\ Head(queue[w]) \in Event /\ KeyOf(Head(queue[w])) \in Key
           /\ Head(queue[w]).recovered \in BOOLEAN
           /\ KeyOf(Head(queue[w])) \notin mixed =>
                 (Head(queue[w]).recovered <=> Clear(KeyOf(Head(queue[w]))))
           /\ \A i \in 1..Len(queue[w]) :
                 i > 1 => KeyOf(queue[w][i]) # KeyOf(Head(queue[w]))
  <1> DEFINE q == queue[w]
  <1>1. q \in Seq(Event) /\ q # <<>> /\ Once(q) /\ Says(q)
    BY DEF TypeOK, QueuesInv
  <1> HIDE DEF q
  <1>2. Head(q) = q[1] /\ 1 \in 1..Len(q)
    BY <1>1, HeadTailProperties, EmptySeq
  <1>3. q[1] \in Event /\ KeyOf(q[1]) \in Key /\ q[1].recovered \in BOOLEAN
    BY <1>1, <1>2, EventsTyped
  <1>4. KeyOf(q[1]) \notin mixed => (q[1].recovered <=> Clear(KeyOf(q[1])))
    BY <1>1, <1>2 DEF Says
  <1>5. \A i \in 1..Len(q) : i > 1 => KeyOf(q[i]) # KeyOf(q[1])
    BY <1>1, <1>2 DEF Once
  <1> QED
    BY <1>2, <1>3, <1>4, <1>5 DEF q

LEMMA OfEvents == \A k, rec : Of(k) \subseteq Event /\ Telling(k, rec) \subseteq Event
  BY DEF Of, Telling

LEMMA SlotDetect ==
    ASSUME TypeOK, Control, SlotInv, NEW w \in Procs, NEW devs \in Batches(w),
           Detect(w, devs), queue'[w] \in Seq(Event)
    PROVE  SlotInv'
  <1>1. /\ queue[w] = <<>> /\ (queue'[w] # <<>> => pc'[w] = "update")
        /\ \A p \in Procs \ {w} : queue'[p] = queue[p] /\ pc'[p] = pc[p]
        /\ UNCHANGED <<snapshot, panicked>>
        /\ mixed' = MixedAfter(w, InQueue(w)')
        /\ \A k \in Key : (Clear(k)' <=> Clear(k)) <=> k \notin InQueue(w)'
    BY DetectEffect
  <1>2. \A k \in Key : (k[2] \notin prev'[k[1]] <=> Clear(k)) <=> k \notin InQueue(w)'
    BY <1>1 DEF Clear
  <1>3. ASSUME ~panicked, NEW n \in Npus, NEW k \in Key, snapshot[n] # Nil,
               k = <<n, snapshot[n].type>>, k[2] \notin prev'[k[1]], k \notin mixed'
        PROVE  \E p \in Procs : Waits(queue'[p], pc'[p] = "update", Of(k))
    <2>1. CASE k \in InQueue(w)'
      <3>1. Waits(queue'[w], TRUE, Of(k))
        BY <2>1, KeysWaiting DEF InQueue
      <3>2. queue'[w] # <<>>
        BY <3>1, WaitsNone
      <3> QED
        BY <1>1, <3>1, <3>2
    <2>2. CASE k \notin InQueue(w)'
      <3>1. k \notin mixed /\ Clear(k)
        BY <1>1, <1>2, <1>3, <2>2 DEF MixedAfter
      <3>2. PICK p \in Procs : Waits(queue[p], pc[p] = "update", Of(k))
        BY <1>3, <3>1 DEF SlotInv
      <3>3. p # w
        BY <1>1, <3>2, WaitsNone
      <3> QED
        BY <1>1, <3>2, <3>3
    <2> QED
      BY <2>1, <2>2
  <1> QED
    BY <1>1, <1>3 DEF SlotInv, Clear

LEMMA SlotUpdate ==
    ASSUME TypeOK, Control, QueuesInv, SlotInv, NEW w \in Procs, UpdateSnapshot(w)
    PROVE  SlotInv'
  <1> DEFINE ev == Head(queue[w])
  <1>1. /\ snapshot' = [snapshot EXCEPT ![ev.npu] = SnapshotAfter(ev)]
        /\ pc[w] = "update" /\ pc' = [pc EXCEPT ![w] = "record"]
        /\ UNCHANGED <<prev, queue, panicked, mixed>>
    BY DEF UpdateSnapshot
  <1>2. queue[w] # <<>> /\ queue[w] \in Seq(Event)
    BY <1>1 DEF Control, TypeOK
  <1>3. /\ ev \in Event /\ KeyOf(ev) \in Key
        /\ KeyOf(ev) \notin mixed => (ev.recovered <=> Clear(KeyOf(ev)))
    BY <1>2, HeadSays
  <1>4. ev.npu \in Npus /\ KeyOf(ev) = <<ev.npu, ev.type>>
    BY <1>3 DEF Event, KeyOf
  <1> HIDE DEF ev
  <1>5. /\ snapshot'[ev.npu] = SnapshotAfter(ev)
        /\ \A n \in Npus : n # ev.npu => snapshot'[n] = snapshot[n]
        /\ \A p \in Procs \ {w} : pc'[p] = pc[p]
    BY <1>1, <1>4 DEF TypeOK
  <1>6. ASSUME ~panicked, NEW n \in Npus, NEW k \in Key, snapshot'[n] # Nil,
               k = <<n, snapshot'[n].type>>, Clear(k), k \notin mixed
        PROVE  \E p \in Procs : Waits(queue[p], pc'[p] = "update", Of(k))
    <2>1. n # ev.npu
      <3>1. ASSUME n = ev.npu PROVE FALSE
        <4>1. ~ev.recovered /\ snapshot'[n] = ev
          BY <1>5, <1>6, <3>1 DEF SnapshotAfter
        <4>2. k = KeyOf(ev)
          BY <1>4, <1>6, <3>1, <4>1
        <4> QED
          BY <1>3, <1>6, <4>1, <4>2
      <3> QED
        BY <3>1
    <2>2. PICK p \in Procs : Waits(queue[p], pc[p] = "update", Of(k))
      BY <1>5, <1>6, <2>1 DEF SlotInv
    <2>3. CASE p # w
      BY <1>5, <2>2, <2>3
    <2>4. CASE p = w
      <3>1. ev \notin Of(k)
        BY <1>4, <1>6, <2>1 DEF Of
      <3>2. Waits(queue[w], FALSE, Of(k))
        BY <1>2, <2>2, <2>4, <3>1, WaitsParts DEF ev
      <3> QED
        BY <3>2 DEF Waits
    <2> QED
      BY <2>3, <2>4
  <1> QED
    BY <1>1, <1>6 DEF SlotInv, Clear

LEMMA SlotStep ==
    ASSUME TypeOK, TypeOK', Control, QueuesInv, SlotInv, [Next]_vars
    PROVE  SlotInv'
  <1>1. ASSUME NEW w \in Procs, NEW devs \in Batches(w), Detect(w, devs)
        PROVE  SlotInv'
    <2>1. queue'[w] \in Seq(Event)
      BY DEF TypeOK
    <2> QED
      BY <1>1, <2>1, SlotDetect
  <1>2. ASSUME UNCHANGED <<prev, snapshot, panicked>>, mixed \subseteq mixed',
               NEW w \in Procs,
               \A p \in Procs \ {w} : queue'[p] = queue[p] /\ pc'[p] = pc[p],
               \A k \in Key : k \notin mixed' /\ Waits(queue[w], pc[w] = "update", Of(k)) =>
                   Waits(queue'[w], pc'[w] = "update", Of(k))
        PROVE  SlotInv'
    <2>1. ASSUME ~panicked, NEW n \in Npus, NEW k \in Key, snapshot[n] # Nil,
                 k = <<n, snapshot[n].type>>, Clear(k), k \notin mixed'
          PROVE  \E p \in Procs : Waits(queue'[p], pc'[p] = "update", Of(k))
      <3>1. PICK p \in Procs : Waits(queue[p], pc[p] = "update", Of(k))
        BY <1>2, <2>1 DEF SlotInv
      <3> QED
        BY <1>2, <2>1, <3>1
    <2> QED
      BY <1>2, <2>1 DEF SlotInv, Clear
  <1>3. ASSUME NEW w \in Procs, Advances(w), ~UpdateSnapshot(w)
        PROVE  SlotInv'
    <2>1. /\ UNCHANGED <<prev, panicked, mixed>>
          /\ \A p \in Procs \ {w} : queue'[p] = queue[p] /\ pc'[p] = pc[p]
      BY <1>3, AdvanceEffect
    <2>2. snapshot' = snapshot /\ pc[w] # "update"
      BY <1>3 DEF Advances, BeginWrite, Record, MatchSubscriptions, FireOne
    <2>3. ASSUME NEW k \in Key
          PROVE  Waits(queue'[w], pc'[w] = "update", Of(k)) <=> Waits(queue[w], FALSE, Of(k))
      BY <1>3, OfEvents, AdvanceQueue
    <2>4. \A k \in Key : Waits(queue[w], pc[w] = "update", Of(k)) <=> Waits(queue[w], FALSE, Of(k))
      BY <2>2 DEF Waits
    <2> QED
      BY <1>2, <2>1, <2>2, <2>3, <2>4
  <1>4. ASSUME NEW w \in IngestHandlers, NEW e \in IngestedEvents, Ingest(w, e)
        PROVE  SlotInv'
    <2>1. /\ UNCHANGED <<prev, snapshot, panicked>> /\ mixed \subseteq mixed'
          /\ pc[w] = "idle" /\ w \in Procs
          /\ \A p \in Procs \ {w} : queue'[p] = queue[p] /\ pc'[p] = pc[p]
      BY <1>4 DEF Ingest, TypeOK, Procs
    <2>2. queue[w] = <<>>
      BY <2>1 DEF Control
    <2>3. \A k \in Key : ~Waits(queue[w], pc[w] = "update", Of(k))
      BY <2>2, WaitsNone
    <2> QED
      BY <1>2, <2>1, <2>3
  <1>5. ASSUME ~panicked, NEW w \in Procs, NEW s \in matched[w], PanicOnNilMap(w, s)
        PROVE  SlotInv'
    <2>1. CASE w \in Writers
      BY <1>5, <2>1 DEF PanicOnNilMap, SlotInv
    <2>2. CASE w \notin Writers
      <3>1. /\ UNCHANGED <<prev, snapshot, panicked, mixed>>
            /\ \A p \in Procs \ {w} : queue'[p] = queue[p] /\ pc'[p] = pc[p]
        BY <1>5, <2>2 DEF PanicOnNilMap, TypeOK
      <3>2. w \in IngestHandlers /\ queue[w] \in Seq(Event)
        BY <2>2 DEF Procs, TypeOK
      <3>3. ASSUME NEW k \in Key, Waits(queue[w], pc[w] = "update", Of(k))
            PROVE  k \in mixed
        <4>1. Waits(queue[w], TRUE, Of(k))
          BY <3>3 DEF Waits
        <4>2. k \in InQueue(w)
          BY <3>2, <4>1, KeysWaiting DEF InQueue
        <4> QED
          BY <3>2, <4>2 DEF QueuesInv
      <3> QED
        BY <1>2, <3>1, <3>3
    <2> QED
      BY <2>1, <2>2
  <1>6. CASE Elsewhere
    <2>1. UNCHANGED <<prev, snapshot, pc, queue, panicked, mixed>>
      BY <1>6, ElsewhereRests
    <2> QED
      BY <2>1 DEF SlotInv, Clear
  <1> QED
    BY <1>1, <1>3, <1>4, <1>5, <1>6, SlotUpdate, StepKinds DEF Advances

LEMMA SlotInit == Init => SlotInv
  BY DEF Init, SlotInv

\* Whatever collectors, handlers and REST calls interleave, the fault the
\* snapshot shows for an NPU is one the detector holds active (storage.go:23),
\* once no event of it is under way, unless two goroutines had events of it at
\* once.
THEOREM SnapshotSound == Spec => []SnapshotNotStale
  <1>1. TypeOK /\ QueuesInv /\ SlotInv => SnapshotNotStale
    <2> SUFFICES ASSUME TypeOK, QueuesInv, SlotInv, ~panicked, NEW n \in Npus,
                        snapshot[n] # Nil, Settled(<<n, snapshot[n].type>>)
                 PROVE  snapshot[n].type \in prev[n]
      BY DEF SnapshotNotStale
    <2> DEFINE k == <<n, snapshot[n].type>>
    <2>1. snapshot[n] \in Event
      BY DEF TypeOK
    <2>2. k \in Key /\ k[1] = n /\ k[2] = snapshot[n].type
      BY <2>1 DEF Key, Event
    <2> HIDE DEF k
    <2>3. k \notin mixed /\ \A p \in Procs : k \notin InQueue(p)
      BY DEF Settled, InHand, k
    <2>4. ASSUME NEW p \in Procs PROVE ~Waits(queue[p], pc[p] = "update", Of(k))
      <3>1. queue[p] \in Seq(Event)
        BY DEF TypeOK
      <3>2. ~Waits(queue[p], TRUE, Of(k))
        BY <2>2, <2>3, <3>1, KeysWaiting DEF InQueue
      <3> QED
        BY <3>2 DEF Waits
    <2>5. ~Clear(k)
      BY <2>2, <2>3, <2>4 DEF SlotInv, k
    <2> QED
      BY <2>2, <2>5 DEF Clear
  <1>2. Init => QueuesInv /\ SlotInv
    BY QueuesInit, SlotInit
  <1>3. TypeOK /\ TypeOK' /\ Control /\ QueuesInv /\ SlotInv /\ [Next]_vars
           => QueuesInv' /\ SlotInv'
    BY QueuesStep, SlotStep
  <1> QED
    BY <1>1, <1>2, <1>3, TypeCorrect, PTL DEF Spec

-----------------------------------------------------------------------------
\* The count of fires and recoveries.

\* The collectors with an event of k yet to record, one that fires or recovers.
Unrecorded(k, rec) ==
    {p \in Writers : Waits(queue[p], pc[p] \in {"update", "record"}, Telling(k, rec))}

OwedFires(k) == Cardinality(Unrecorded(k, FALSE))
OwedRecoveries(k) == Cardinality(Unrecorded(k, TRUE))

\* With what is yet to be recorded, the balance of k is what prev has of k.
BalanceInv ==
    ~panicked =>
        \A k \in Key :
            balance[k] + OwedFires(k) - OwedRecoveries(k) = Bit(k)

LEMMA UnrecordedFinite == \A k, rec : IsFiniteSet(Unrecorded(k, rec))
  <1>1. IsFiniteSet(Writers)
    BY FaultSubAssumption, FS_Union DEF Writers
  <1>2. \A k, rec : Unrecorded(k, rec) \subseteq Writers
    BY DEF Unrecorded
  <1> QED
    BY <1>1, <1>2, FS_Subset

LEMMA BalanceInit == Init => BalanceInv
  <1> SUFFICES ASSUME Init, NEW k \in Key
               PROVE  balance[k] + OwedFires(k) - OwedRecoveries(k) = Bit(k)
    BY DEF BalanceInv
  <1>1. \A p \in Procs : queue[p] = <<>>
    BY DEF Init
  <1>2. Unrecorded(k, TRUE) = {} /\ Unrecorded(k, FALSE) = {}
    BY <1>1, WaitsNone DEF Unrecorded, Procs
  <1>3. OwedFires(k) = 0 /\ OwedRecoveries(k) = 0
    BY <1>2, FS_EmptySet DEF OwedFires, OwedRecoveries
  <1>4. balance[k] = 0 /\ prev[k[1]] = {}
    BY DEF Init, Key
  <1> QED
    BY <1>3, <1>4 DEF Bit

\* A step that changes nobody's part of the count.
LEMMA BalanceRests ==
    ASSUME BalanceInv, UNCHANGED <<prev, balance>>, panicked' = panicked,
           NEW w \in Procs,
           \A p \in Procs \ {w} : queue'[p] = queue[p] /\ pc'[p] = pc[p],
           w \in Writers =>
              \A k \in Key, rec \in BOOLEAN :
                 Waits(queue'[w], pc'[w] \in {"update", "record"}, Telling(k, rec))
                    <=> Waits(queue[w], pc[w] \in {"update", "record"}, Telling(k, rec))
    PROVE  BalanceInv'
  <1>1. \A k \in Key, rec \in BOOLEAN : Unrecorded(k, rec)' = Unrecorded(k, rec)
    BY DEF Unrecorded, Procs
  <1> QED
    BY <1>1 DEF BalanceInv, Bit, OwedFires, OwedRecoveries

LEMMA BalanceDetect ==
    ASSUME TypeOK, TypeOK', Control, BalanceInv, NEW w \in Procs,
           NEW devs \in Batches(w), Detect(w, devs)
    PROVE  BalanceInv'
  <1>1. /\ w \in Writers /\ queue[w] = <<>> /\ (queue'[w] # <<>> => pc'[w] = "update")
        /\ \A p \in Procs \ {w} : queue'[p] = queue[p] /\ pc'[p] = pc[p]
        /\ UNCHANGED <<panicked, balance>>
        /\ Once(queue'[w])
        /\ \A i \in 1..Len(queue'[w]) :
              queue'[w][i].recovered <=> queue'[w][i].type \notin prev'[queue'[w][i].npu]
        /\ \A k \in Key : (Clear(k)' <=> Clear(k)) <=> k \notin InQueue(w)'
    BY DetectEffect
  <1>2. queue'[w] \in Seq(Event)
    BY DEF TypeOK
  <1>3. \A k \in Key : k \in InQueue(w)' <=> Waits(queue'[w], TRUE, Of(k))
    BY <1>2, KeysWaiting DEF InQueue
  <1>4. \A k \in Key, rec \in BOOLEAN :
           /\ w \notin Unrecorded(k, rec)
           /\ Unrecorded(k, rec)' = IF w \in Unrecorded(k, rec)' THEN Unrecorded(k, rec) \cup {w}
                                    ELSE Unrecorded(k, rec)
    <2>1. \A P : ~Waits(queue[w], pc[w] \in {"update", "record"}, P)
      BY <1>1, WaitsNone
    <2> QED
      BY <1>1, <2>1 DEF Unrecorded, Procs
  <1>5. ASSUME NEW k \in Key, NEW rec \in BOOLEAN
        PROVE  w \in Unrecorded(k, rec)'
                  <=> k \in InQueue(w)' /\ (rec <=> k[2] \notin prev'[k[1]])
    <2>1. w \in Unrecorded(k, rec)' <=> Waits(queue'[w], TRUE, Telling(k, rec))
      <3>1. CASE queue'[w] = <<>>
        BY <1>1, <3>1, WaitsNone DEF Unrecorded
      <3>2. CASE queue'[w] # <<>>
        BY <1>1, <3>2 DEF Unrecorded
      <3> QED
        BY <3>1, <3>2
    <2>2. \A i \in 1..Len(queue'[w]) :
             /\ queue'[w][i] \in Event
             /\ queue'[w][i].recovered \in BOOLEAN
             /\ KeyOf(queue'[w][i]) = k =>
                   (queue'[w][i].recovered <=> k[2] \notin prev'[k[1]])
      <3>1. \A e : KeyOf(e) = k => e.npu = k[1] /\ e.type = k[2]
        BY DEF KeyOf
      <3> QED
        BY <1>1, <1>2, <3>1, EventsTyped
    <2>3. Waits(queue'[w], TRUE, Telling(k, rec))
             <=> Waits(queue'[w], TRUE, Of(k)) /\ (rec <=> k[2] \notin prev'[k[1]])
      BY <2>2 DEF Waits, Telling, Of
    <2> QED
      BY <1>3, <2>1, <2>3
  <1>6. ASSUME ~panicked, NEW k \in Key
        PROVE  balance[k] + OwedFires(k)' - OwedRecoveries(k)' = Bit(k)'
    <2>1. balance[k] + OwedFires(k) - OwedRecoveries(k) = Bit(k)
      BY <1>6 DEF BalanceInv
    <2>2. balance[k] \in Int
      BY DEF TypeOK
    <2> DEFINE fires == Unrecorded(k, FALSE)
               clears == Unrecorded(k, TRUE)
    <2>3. /\ OwedFires(k) \in Nat /\ OwedRecoveries(k) \in Nat
          /\ Cardinality(fires \cup {w}) = OwedFires(k) + 1
          /\ Cardinality(clears \cup {w}) = OwedRecoveries(k) + 1
      <3>1. w \notin fires /\ w \notin clears
        BY <1>4
      <3>2. IsFiniteSet(fires) /\ IsFiniteSet(clears)
        BY UnrecordedFinite
      <3>3. OwedFires(k) = Cardinality(fires) /\ OwedRecoveries(k) = Cardinality(clears)
        BY DEF OwedFires, OwedRecoveries
      <3> HIDE DEF fires, clears
      <3> QED
        BY <3>1, <3>2, <3>3, FS_AddElement, FS_CardinalityType
    <2> HIDE DEF fires, clears
    <2>4. /\ Bit(k) = IF Clear(k) THEN 0 ELSE 1
          /\ Bit(k)' = IF Clear(k)' THEN 0 ELSE 1
          /\ Clear(k)' <=> k[2] \notin prev'[k[1]]
      BY DEF Bit, Clear
    <2>5. CASE k \notin InQueue(w)'
      <3>1. OwedFires(k)' = OwedFires(k) /\ OwedRecoveries(k)' = OwedRecoveries(k)
        BY <1>4, <1>5, <2>5 DEF OwedFires, OwedRecoveries
      <3>2. Bit(k)' = Bit(k)
        BY <1>1, <2>4, <2>5
      <3> QED
        BY <2>1, <3>1, <3>2
    <2>6. CASE k \in InQueue(w)' /\ Clear(k)'
      <3>1. /\ OwedRecoveries(k)' = OwedRecoveries(k) + 1
            /\ OwedFires(k)' = OwedFires(k)
        BY <1>4, <1>5, <2>3, <2>4, <2>6 DEF OwedFires, OwedRecoveries, fires, clears
      <3>2. Bit(k)' = 0 /\ Bit(k) = 1
        BY <1>1, <2>4, <2>6
      <3> QED
        BY <2>1, <2>2, <2>3, <3>1, <3>2
    <2>7. CASE k \in InQueue(w)' /\ ~Clear(k)'
      <3>1. /\ OwedFires(k)' = OwedFires(k) + 1
            /\ OwedRecoveries(k)' = OwedRecoveries(k)
        BY <1>4, <1>5, <2>3, <2>4, <2>7 DEF OwedFires, OwedRecoveries, fires, clears
      <3>2. Bit(k)' = 1 /\ Bit(k) = 0
        BY <1>1, <2>4, <2>7
      <3> QED
        BY <2>1, <2>2, <2>3, <3>1, <3>2
    <2> QED
      BY <2>5, <2>6, <2>7
  <1> QED
    BY <1>1, <1>6 DEF BalanceInv

LEMMA BalanceRecord ==
    ASSUME TypeOK, Control, QueuesInv, BalanceInv, NEW w \in Writers, Record(w)
    PROVE  BalanceInv'
  <1>0. PICK ev, key : ev = Head(queue[w]) /\ key = KeyOf(ev)
    OBVIOUS
  <1>1. /\ pc[w] = "record" /\ pc' = [pc EXCEPT ![w] = "match"]
        /\ UNCHANGED <<prev, queue, panicked>>
        /\ balance' = [balance EXCEPT ![key] = balance[key] + Count(ev)]
    BY <1>0 DEF Record
  <1>2. queue[w] # <<>> /\ queue[w] \in Seq(Event) /\ w \in Procs
    BY <1>1 DEF Control, TypeOK, Procs
  <1>3. /\ ev \in Event /\ key \in Key /\ ev.recovered \in BOOLEAN
        /\ \A i \in 1..Len(queue[w]) : i > 1 => KeyOf(queue[w][i]) # key
    BY <1>0, <1>2, HeadSays
  <1>4. pc'[w] = "match" /\ \A p \in Procs \ {w} : pc'[p] = pc[p]
    BY <1>1, <1>2 DEF TypeOK
  <1>5. ~Waits(queue[w], FALSE, Of(key))
    BY <1>3 DEF Waits, Of
  <1>6. \A k, rec : Waits(queue[w], TRUE, Telling(k, rec))
                       <=> Waits(queue[w], FALSE, Telling(k, rec)) \/ ev \in Telling(k, rec)
    BY <1>0, <1>2, WaitsParts
  <1>7. \A rec : ev \in Telling(key, rec) <=> ev.recovered = rec
    BY <1>0, <1>3 DEF Telling
  <1>8. \A k \in Key : \A rec : k # key => ev \notin Telling(k, rec)
    BY <1>0 DEF Telling
  <1>9. \A k, rec : w \in Unrecorded(k, rec) <=> Waits(queue[w], TRUE, Telling(k, rec))
    BY <1>1 DEF Unrecorded
  <1>10. \A k, rec : /\ w \in Unrecorded(k, rec)' <=> Waits(queue[w], FALSE, Telling(k, rec))
                     /\ Unrecorded(k, rec)' \ {w} = Unrecorded(k, rec) \ {w}
    <2> TAKE k, rec
    <2>1. w \in Unrecorded(k, rec)' <=> Waits(queue[w], FALSE, Telling(k, rec))
      BY <1>1, <1>4 DEF Unrecorded, Waits
    <2>2. \A p \in Writers \ {w} : p \in Unrecorded(k, rec)' <=> p \in Unrecorded(k, rec)
      BY <1>1, <1>4 DEF Unrecorded, Procs
    <2>3. Unrecorded(k, rec)' \subseteq Writers /\ Unrecorded(k, rec) \subseteq Writers
      BY DEF Unrecorded
    <2> QED
      BY <2>1, <2>2, <2>3
  <1>11. ASSUME NEW k \in Key, k # key
         PROVE  balance'[k] = balance[k] /\ \A rec : Unrecorded(k, rec)' = Unrecorded(k, rec)
    <2>1. balance'[k] = balance[k]
      BY <1>1, <1>11 DEF TypeOK
    <2>2. \A rec : w \in Unrecorded(k, rec)' <=> w \in Unrecorded(k, rec)
      BY <1>6, <1>8, <1>9, <1>10, <1>11
    <2> QED
      BY <1>10, <2>1, <2>2
  <1>12. balance'[key] = balance[key] + Count(ev) /\ balance[key] \in Int
    BY <1>1, <1>3 DEF TypeOK
  <1>13. \A rec \in BOOLEAN :
            /\ w \notin Unrecorded(key, rec)'
            /\ w \in Unrecorded(key, rec) <=> ev.recovered = rec
    <2>1. \A rec : ~Waits(queue[w], FALSE, Telling(key, rec))
      BY <1>5 DEF Waits, Of, Telling
    <2> QED
      BY <1>6, <1>7, <1>9, <1>10, <2>1
  <1>14. \A rec \in BOOLEAN :
            Unrecorded(key, rec)' = IF ev.recovered = rec THEN Unrecorded(key, rec) \ {w}
                                    ELSE Unrecorded(key, rec)
    BY <1>10, <1>13
  <1>15. ASSUME ~panicked
         PROVE  balance'[key] + OwedFires(key)' - OwedRecoveries(key)' = Bit(key)
    <2> DEFINE fires == Unrecorded(key, FALSE)
               clears == Unrecorded(key, TRUE)
    <2>1. balance[key] + OwedFires(key) - OwedRecoveries(key) = Bit(key)
      BY <1>3, <1>15 DEF BalanceInv
    <2>2. OwedFires(key) = Cardinality(fires) /\ OwedRecoveries(key) = Cardinality(clears)
      BY DEF OwedFires, OwedRecoveries
    <2>3. IsFiniteSet(fires) /\ IsFiniteSet(clears)
      BY UnrecordedFinite
    <2>4. (ev.recovered = FALSE => w \in fires) /\ (ev.recovered = TRUE => w \in clears)
      BY <1>13
    <2> HIDE DEF fires, clears
    <2>5. /\ OwedFires(key) \in Nat /\ OwedRecoveries(key) \in Nat
          /\ w \in fires => Cardinality(fires \ {w}) = OwedFires(key) - 1
          /\ w \in clears => Cardinality(clears \ {w}) = OwedRecoveries(key) - 1
      BY <2>2, <2>3, FS_RemoveElement, FS_CardinalityType
    <2>6. CASE ev.recovered = TRUE
      <3>1. /\ OwedRecoveries(key)' = OwedRecoveries(key) - 1
            /\ OwedFires(key)' = OwedFires(key)
        BY <1>14, <2>4, <2>5, <2>6 DEF OwedFires, OwedRecoveries, fires, clears
      <3>2. Count(ev) = -1
        BY <2>6 DEF Count
      <3> QED
        BY <1>12, <2>1, <2>5, <3>1, <3>2
    <2>7. CASE ev.recovered = FALSE
      <3>1. /\ OwedFires(key)' = OwedFires(key) - 1
            /\ OwedRecoveries(key)' = OwedRecoveries(key)
        BY <1>14, <2>4, <2>5, <2>7 DEF OwedFires, OwedRecoveries, fires, clears
      <3>2. Count(ev) = 1
        BY <2>7 DEF Count
      <3> QED
        BY <1>12, <2>1, <2>5, <3>1, <3>2
    <2> QED
      BY <1>3, <2>6, <2>7
  <1>16. ASSUME ~panicked, NEW k \in Key
         PROVE  balance'[k] + OwedFires(k)' - OwedRecoveries(k)' = Bit(k)
    <2>1. CASE k = key
      BY <1>15, <1>16, <2>1
    <2>2. CASE k # key
      BY <1>11, <1>16, <2>2 DEF BalanceInv, OwedFires, OwedRecoveries
    <2> QED
      BY <2>1, <2>2
  <1> QED
    BY <1>1, <1>16 DEF BalanceInv, Bit

LEMMA BalanceStep ==
    ASSUME TypeOK, TypeOK', Control, QueuesInv, BalanceInv, [Next]_vars
    PROVE  BalanceInv'
  <1>1. ASSUME NEW w \in Procs, Advances(w), ~(w \in Writers /\ Record(w))
        PROVE  BalanceInv'
    <2>1. /\ UNCHANGED <<prev, panicked>>
          /\ \A p \in Procs \ {w} : queue'[p] = queue[p] /\ pc'[p] = pc[p]
      BY <1>1, AdvanceEffect
    <2>2. balance' = balance
      BY <1>1 DEF Advances, BeginWrite, UpdateSnapshot, Record, MatchSubscriptions, FireOne
    <2>3. w \in Writers => pc[w] # "record"
      BY <1>1 DEF Advances, BeginWrite, UpdateSnapshot, Record, MatchSubscriptions, FireOne
    <2>4. ASSUME w \in Writers, NEW k \in Key, NEW rec \in BOOLEAN
          PROVE  Waits(queue'[w], pc'[w] \in {"update", "record"}, Telling(k, rec))
                    <=> Waits(queue[w], pc[w] \in {"update", "record"}, Telling(k, rec))
      BY <1>1, <2>3, <2>4, OfEvents, AdvanceQueue
    <2> QED
      BY <2>1, <2>2, <2>4, BalanceRests
  <1>2. ASSUME NEW w \in IngestHandlers, NEW e \in IngestedEvents, Ingest(w, e)
        PROVE  BalanceInv'
    <2>1. /\ UNCHANGED <<prev, balance, panicked>> /\ w \in Procs /\ w \notin Writers
          /\ \A p \in Procs \ {w} : queue'[p] = queue[p] /\ pc'[p] = pc[p]
      BY <1>2, FaultSubAssumption DEF Ingest, TypeOK, Procs
    <2> QED
      BY <2>1, BalanceRests
  <1>3. ASSUME ~panicked, NEW w \in Procs, NEW s \in matched[w], PanicOnNilMap(w, s)
        PROVE  BalanceInv'
    <2>1. CASE w \in Writers
      BY <1>3, <2>1 DEF PanicOnNilMap, BalanceInv
    <2>2. CASE w \notin Writers
      <3>1. /\ UNCHANGED <<prev, balance, panicked>>
            /\ \A p \in Procs \ {w} : queue'[p] = queue[p] /\ pc'[p] = pc[p]
        BY <1>3, <2>2 DEF PanicOnNilMap, TypeOK
      <3> QED
        BY <2>2, <3>1, BalanceRests
    <2> QED
      BY <2>1, <2>2
  <1>4. CASE Elsewhere
    <2>1. UNCHANGED <<prev, pc, queue, panicked, balance>>
      BY <1>4, ElsewhereRests
    <2> QED
      BY <2>1 DEF BalanceInv, Bit, Unrecorded, OwedFires, OwedRecoveries
  <1> QED
    BY <1>1, <1>2, <1>3, <1>4, BalanceDetect, BalanceRecord, StepKinds

\* No transition is lost or told twice (detector.go:31-34): between writes, each
\* fault has one fire more on record than recoveries if the detector holds it
\* active, and as many if not, however many collectors' batches have passed
\* through the one detector and in whatever order their goroutines ran.
THEOREM TransitionsAddUp == Spec => []EventsAddUp
  <1>1. TypeOK /\ Control /\ BalanceInv => EventsAddUp
    <2> SUFFICES ASSUME TypeOK, Control, BalanceInv, ~panicked,
                        \A p \in Writers : pc[p] \in {"idle", "detect"},
                        NEW k \in Key
                 PROVE  balance[k] = Bit(k)
      BY DEF EventsAddUp, Bit
    <2>1. \A p \in Writers : queue[p] = <<>>
      BY DEF Control, Procs
    <2>2. Unrecorded(k, TRUE) = {} /\ Unrecorded(k, FALSE) = {}
      BY <2>1, WaitsNone DEF Unrecorded
    <2>3. OwedFires(k) = 0 /\ OwedRecoveries(k) = 0
      BY <2>2, FS_EmptySet DEF OwedFires, OwedRecoveries
    <2>4. balance[k] + OwedFires(k) - OwedRecoveries(k) = Bit(k)
      BY DEF BalanceInv
    <2>5. balance[k] \in Int
      BY DEF TypeOK
    <2> QED
      BY <2>3, <2>4, <2>5
  <1>2. Init => QueuesInv /\ BalanceInv
    BY QueuesInit, BalanceInit
  <1>3. TypeOK /\ TypeOK' /\ Control /\ QueuesInv /\ BalanceInv /\ [Next]_vars
           => QueuesInv' /\ BalanceInv'
    BY QueuesStep, BalanceStep
  <1> QED
    BY <1>1, <1>2, <1>3, TypeCorrect, PTL DEF Spec

-----------------------------------------------------------------------------
\* What subscribers were told.

\* The filters of r, but the one by severity, let k through.
Passes(r, k) ==
    /\ r.types # {} => k[2] \in r.types
    /\ r.npus # {} => k[1] \in r.npus

\* The subscriptions the REST handlers list.
Table == {subs[i] : i \in SubIds} \ {Nil}

\* A dispatch loop holds only subscriptions its event is for ...
HeldInv == \A p \in Procs : \A s \in matched[p] : Passes(s.request, KeyOf(Head(queue[p])))

\* ... so one that lets both transitions through was told only of its faults.
ScopeInv ==
    \A s \in Known, k \in Key :
        SeesBothWays(s.request) /\ handed[s.born][k] # Nil =>
            s.request.delivery = "webhook" /\ Passes(s.request, k)

\* What such a subscriber was told is so, or an event to tell it is on its way.
ToldInv ==
    ~panicked =>
        \A s \in Table, k \in Key :
            /\ k \notin mixed /\ SeesBothWays(s.request) /\ handed[s.born][k] # Nil
            => \/ handed[s.born][k].recovered <=> Clear(k)
               \/ \E p \in Procs :
                     Waits(queue[p], pc[p] # "fire" \/ s \in matched[p], Of(k))

LEMMA ToldInit == Init => HeldInv /\ ScopeInv /\ ToldInv
  <1> SUFFICES ASSUME Init PROVE HeldInv /\ ScopeInv /\ ToldInv
    OBVIOUS
  <1>1. Known = {} /\ Table = {} /\ \A p \in Procs : matched[p] = {}
    BY DEF Init, Known, Table
  <1> QED
    BY <1>1 DEF HeldInv, ScopeInv, ToldInv

\* A step that hands nothing off, and after which what w had to tell it still has.
LEMMA ToldRests ==
    ASSUME ToldInv, UNCHANGED <<prev, handed>>, panicked' = panicked,
           mixed \subseteq mixed', NEW w \in Procs,
           \A p \in Procs \ {w} :
              queue'[p] = queue[p] /\ pc'[p] = pc[p] /\ matched'[p] = matched[p],
           \A s \in Table' : s \in Table \/ \A k \in Key : handed[s.born][k] = Nil,
           \A s \in Table, k \in Key :
              /\ k \notin mixed' /\ SeesBothWays(s.request) /\ handed[s.born][k] # Nil
              /\ Waits(queue[w], pc[w] # "fire" \/ s \in matched[w], Of(k))
              => Waits(queue'[w], pc'[w] # "fire" \/ s \in matched'[w], Of(k))
    PROVE  ToldInv'
  <1>1. ASSUME ~panicked, NEW s \in Table', NEW k \in Key, k \notin mixed',
               SeesBothWays(s.request), handed[s.born][k] # Nil,
               ~(handed[s.born][k].recovered <=> Clear(k))
        PROVE  \E p \in Procs :
                  Waits(queue'[p], pc'[p] # "fire" \/ s \in matched'[p], Of(k))
    <2>1. s \in Table /\ k \notin mixed
      BY <1>1
    <2>2. PICK p \in Procs : Waits(queue[p], pc[p] # "fire" \/ s \in matched[p], Of(k))
      BY <1>1, <2>1 DEF ToldInv
    <2>3. CASE p = w
      BY <1>1, <2>1, <2>2, <2>3
    <2>4. CASE p # w
      BY <2>2, <2>4
    <2> QED
      BY <2>3, <2>4
  <1> QED
    BY <1>1 DEF ToldInv, Clear

LEMMA ToldDetect ==
    ASSUME TypeOK, TypeOK', Control, KnownInv, HeldInv, ToldInv, NEW w \in Procs,
           NEW devs \in Batches(w), Detect(w, devs)
    PROVE  HeldInv' /\ ToldInv'
  <1>1. /\ queue[w] = <<>> /\ pc[w] = "detect"
        /\ pc'[w] \in {"idle", "update"}
        /\ \A p \in Procs \ {w} : queue'[p] = queue[p] /\ pc'[p] = pc[p]
        /\ UNCHANGED <<subs, matched, panicked, handed>>
        /\ mixed' = MixedAfter(w, InQueue(w)')
        /\ \A k \in Key : (Clear(k)' <=> Clear(k)) <=> k \notin InQueue(w)'
    BY DetectEffect
  <1>2. \A k \in Key : (k[2] \notin prev'[k[1]] <=> Clear(k)) <=> k \notin InQueue(w)'
    BY <1>1 DEF Clear
  <1>3. queue'[w] \in Seq(Event)
    BY DEF TypeOK
  <1>4. matched[w] = {}
    BY <1>1 DEF KnownInv
  <1>5. ASSUME ~panicked, NEW s \in Table, NEW k \in Key, k \notin mixed',
               SeesBothWays(s.request), handed[s.born][k] # Nil
        PROVE  \/ handed[s.born][k].recovered <=> k[2] \notin prev'[k[1]]
               \/ \E p \in Procs :
                     Waits(queue'[p], pc'[p] # "fire" \/ s \in matched[p], Of(k))
    <2>1. CASE k \in InQueue(w)'
      <3>1. Waits(queue'[w], TRUE, Of(k)) /\ pc'[w] # "fire"
        BY <1>1, <1>3, <2>1, KeysWaiting DEF InQueue
      <3> QED
        BY <3>1 DEF Waits
    <2>2. CASE k \notin InQueue(w)'
      <3>1. k \notin mixed /\ (k[2] \notin prev'[k[1]] <=> Clear(k))
        BY <1>1, <1>2, <1>5, <2>2 DEF MixedAfter
      <3>2. CASE handed[s.born][k].recovered <=> Clear(k)
        BY <3>1, <3>2
      <3>3. CASE ~(handed[s.born][k].recovered <=> Clear(k))
        <4>1. PICK p \in Procs : Waits(queue[p], pc[p] # "fire" \/ s \in matched[p], Of(k))
          BY <1>5, <3>1, <3>3 DEF ToldInv
        <4>2. p # w
          BY <1>1, <4>1, WaitsNone
        <4> QED
          BY <1>1, <4>1, <4>2
      <3> QED
        BY <3>2, <3>3
    <2> QED
      BY <2>1, <2>2
  <1>6. HeldInv'
    BY <1>1, <1>4 DEF HeldInv
  <1>7. Table' = Table
    BY <1>1 DEF Table
  <1>8. ToldInv'
    BY <1>1, <1>5, <1>7 DEF ToldInv, Clear
  <1> QED
    BY <1>6, <1>8

\* Matched finds every subscription that was told of the fault before.
LEMMA ToldMatch ==
    ASSUME TypeOK, Control, KnownInv, ScopeInv, HeldInv, ToldInv, NEW w \in Procs,
           MatchSubscriptions(w)
    PROVE  HeldInv' /\ ToldInv'
  <1> DEFINE ev == Head(queue[w])
             ms == {subs[i] : i \in {j \in SubIds :
                        subs[j] # Nil /\ Matches(subs[j].request, ev)}}
  <1>1. /\ matched' = [matched EXCEPT ![w] = ms]
        /\ UNCHANGED <<subs, prev, handed, panicked, mixed>>
        /\ IF ms = {} THEN AfterDispatch(w)
           ELSE pc' = [pc EXCEPT ![w] = "fire"] /\ UNCHANGED queue
        /\ pc[w] = "match"
    BY DEF MatchSubscriptions
  <1>2. queue[w] # <<>> /\ queue[w] \in Seq(Event) /\ ev \in Event
    BY <1>1, QueueHead DEF Control, TypeOK
  <1>3. \A s \in ms : Passes(s.request, KeyOf(ev))
    BY DEF Matches, Passes, KeyOf
  <1>4. ASSUME NEW s \in Table, SeesBothWays(s.request), Passes(s.request, KeyOf(ev))
        PROVE  s \in ms
    <2>1. PICK i \in SubIds : s = subs[i] /\ subs[i] # Nil
      BY DEF Table
    <2>2. AtLeast(ev.severity, s.request.minSeverity)
      <3>1. s.request.minSeverity \in {"", "warning"}
        <4>1. s \in Known
          BY DEF Table, Known
        <4>2. s.request \in SubRequest
          BY <4>1, KnownTyped, FaultSubAssumption
        <4>3. s.request.minSeverity \in {"", "warning", "critical"}
          BY <4>2 DEF SubRequest, Severity
        <4> QED
          BY <1>4, <4>3 DEF SeesBothWays
      <3>2. ev.severity \in {"warning", "critical"}
        BY <1>2 DEF Event, Severity
      <3>3. SeverityRank("warning") = 1 /\ SeverityRank("critical") = 2
        BY DEF SeverityRank
      <3>4. CASE s.request.minSeverity = ""
        BY <3>4 DEF AtLeast
      <3>5. CASE s.request.minSeverity = "warning"
        <4>1. SeverityRank(s.request.minSeverity) = 1
          BY <3>3, <3>5
        <4>2. SeverityRank(ev.severity) \in {1, 2}
          BY <3>2, <3>3
        <4>3. SeverityRank(ev.severity) >= SeverityRank(s.request.minSeverity)
          BY <4>1, <4>2
        <4> QED
          BY <4>3 DEF AtLeast
      <3> QED
        BY <3>1, <3>4, <3>5
    <2>3. Matches(s.request, ev)
      BY <1>4, <2>2 DEF Matches, Passes, KeyOf
    <2> QED
      BY <2>1, <2>3
  <1>5. \A k \in Key : Waits(queue[w], TRUE, Of(k))
                          <=> Waits(queue[w], FALSE, Of(k)) \/ ev \in Of(k)
    BY <1>2, WaitsParts
  <1> HIDE DEF ms, ev
  <1>6. /\ matched'[w] = ms
        /\ \A p \in Procs \ {w} :
              queue'[p] = queue[p] /\ pc'[p] = pc[p] /\ matched'[p] = matched[p]
    BY <1>1 DEF TypeOK, AfterDispatch
  <1>7. \/ ms = {} /\ AfterDispatch(w)
        \/ ms # {} /\ queue' = queue /\ pc'[w] = "fire"
    BY <1>1 DEF TypeOK
  <1>8. ASSUME NEW s \in Table, NEW k \in Key, SeesBothWays(s.request),
               handed[s.born][k] # Nil, Waits(queue[w], TRUE, Of(k))
        PROVE  Waits(queue'[w], pc'[w] # "fire" \/ s \in ms, Of(k))
    <2>1. Passes(s.request, k)
      BY <1>8 DEF ScopeInv, Known, Table
    <2>2. CASE ev \in Of(k)
      <3>1. s \in ms
        BY <1>4, <1>8, <2>1, <2>2 DEF Of
      <3>2. queue'[w] = queue[w]
        BY <1>7, <3>1
      <3> QED
        BY <1>8, <3>1, <3>2 DEF Waits
    <2>3. CASE Waits(queue[w], FALSE, Of(k)) /\ ms = {}
      <3>1. AfterDispatch(w) /\ pc[w] \in {"match", "fire"} /\ Of(k) \in SUBSET Event
        BY <1>1, <1>7, <2>3, OfEvents
      <3>2. /\ pc'[w] \in {"idle", "update"}
            /\ Waits(queue'[w], TRUE, Of(k)) <=> Waits(queue[w], FALSE, Of(k))
        BY <3>1, DispatchEnds
      <3> QED
        BY <2>3, <3>2 DEF Waits
    <2>4. CASE Waits(queue[w], FALSE, Of(k)) /\ ms # {}
      <3>1. queue'[w] = queue[w]
        BY <1>7, <2>4
      <3> QED
        BY <2>4, <3>1 DEF Waits
    <2> QED
      BY <1>5, <1>8, <2>2, <2>3, <2>4
  <1>9. HeldInv'
    <2>1. ASSUME ms # {} PROVE queue'[w] = queue[w]
      BY <1>7, <2>1
    <2>2. \A s \in ms : Passes(s.request, KeyOf(Head(queue'[w])))
      BY <1>3, <2>1 DEF ev
    <2> QED
      BY <1>6, <2>2 DEF HeldInv
  <1>10. ToldInv'
    <2>1. Table' = Table
      BY <1>1 DEF Table
    <2>2. pc[w] # "fire"
      BY <1>1
    <2>3. \A s \in Table, k \in Key :
              /\ k \notin mixed' /\ SeesBothWays(s.request) /\ handed[s.born][k] # Nil
              /\ Waits(queue[w], pc[w] # "fire" \/ s \in matched[w], Of(k))
              => Waits(queue'[w], pc'[w] # "fire" \/ s \in matched'[w], Of(k))
      BY <1>6, <1>8, <2>2 DEF Waits
    <2> QED
      BY <1>1, <1>6, <2>1, <2>3, ToldRests
  <1> QED
    BY <1>9, <1>10

\* An iteration of the loop tells a subscriber without a window what the event says.
LEMMA TellsNow ==
    ASSUME TypeOK, Control, NEW w \in Procs, NEW t \in matched[w], FireOne(w, t),
           SeesBothWays(t.request), NEW k, k = KeyOf(Head(queue[w])),
           \/ t.request.delivery = "webhook"
           \/ handed[t.born][k] = Nil /\ handed'[t.born][k] # Nil
    PROVE  /\ t.request.delivery = "webhook"
           /\ handed'[t.born][k].recovered = Head(queue[w]).recovered
  <1> DEFINE ev == Head(queue[w])
             notice == HandOff(handed[t.born][k], ev)
  <1>1. t.request.debounce = 0
    BY DEF SeesBothWays
  <1>2. ~Suppressed(t, ev)
    BY <1>1 DEF Suppressed
  <1>3. handed' = IF t.request.delivery = "webhook"
                  THEN [handed EXCEPT ![t.born][k] = notice] ELSE handed
    BY <1>2 DEF FireOne
  <1>4. notice.recovered = ev.recovered
    BY DEF HandOff
  <1>5. t \in Subscription /\ t.born \in 1..MaxSubs
    BY DEF TypeOK, Subscription
  <1>6. ev \in Event /\ k \in Key
    BY QueueHead DEF Control, FireOne, KeyOf, Key, Event
  <1>7. handed \in [1..MaxSubs -> [Key -> NoticeRecord \cup {Nil}]]
    BY DEF TypeOK
  <1> HIDE DEF ev, notice
  <1>8. t.request.delivery = "webhook"
    BY <1>3
  <1>9. handed' = [handed EXCEPT ![t.born][k] = notice]
    BY <1>3, <1>8
  <1>10. handed'[t.born][k] = notice
    <2> DEFINE b == t.born
    <2>1. b \in 1..MaxSubs
      BY <1>5
    <2> HIDE DEF b
    <2>2. handed[b] \in [Key -> NoticeRecord \cup {Nil}]
      BY <1>7, <2>1
    <2>3. handed'[b] = [handed[b] EXCEPT ![k] = notice]
      BY <1>7, <1>9, <2>1 DEF b
    <2>4. handed'[b][k] = notice
      BY <1>6, <2>2, <2>3
    <2> QED
      BY <2>4 DEF b
  <1> QED
    BY <1>4, <1>8, <1>10 DEF ev

LEMMA ToldFire ==
    ASSUME TypeOK, Control, KnownInv, QueuesInv, ScopeInv, HeldInv, ToldInv,
           NEW w \in Procs, NEW t \in matched[w], FireOne(w, t)
    PROVE  HeldInv' /\ ScopeInv' /\ ToldInv'
  <1> DEFINE ev == Head(queue[w])
  <1>1. /\ Visit(w, t) /\ UNCHANGED <<subs, prev, panicked, mixed>> /\ pc[w] = "fire"
    BY DEF FireOne, Visit
  <1>2. queue[w] # <<>> /\ queue[w] \in Seq(Event)
    BY <1>1 DEF Control, TypeOK
  <1>3. /\ KeyOf(ev) \in Key
        /\ KeyOf(ev) \notin mixed => (ev.recovered <=> Clear(KeyOf(ev)))
    BY <1>2, HeadSays
  <1>4. /\ matched'[w] = matched[w] \ {t}
        /\ \A p \in Procs \ {w} :
              queue'[p] = queue[p] /\ pc'[p] = pc[p] /\ matched'[p] = matched[p]
        /\ \/ matched[w] = {t} /\ AfterDispatch(w)
           \/ matched[w] # {t} /\ queue'[w] = queue[w] /\ pc'[w] = "fire"
    BY <1>1 DEF Visit, AfterDispatch, TypeOK
  <1>5. Known' \subseteq Known /\ t \in Known /\ Table' = Table
    BY <1>1, FireKnows DEF Table
  <1>6. \A k \in Key : Waits(queue[w], TRUE, Of(k))
                          <=> Waits(queue[w], FALSE, Of(k)) \/ ev \in Of(k)
    BY <1>2, WaitsParts
  <1>7. ASSUME NEW s \in Known, NEW k \in Key, SeesBothWays(s.request),
               handed'[s.born][k] # handed[s.born][k]
        PROVE  s = t /\ k = KeyOf(ev)
    <2> DEFINE b == s.born
    <2>1. b \in 1..MaxSubs /\ handed'[b][k] # handed[b][k]
      BY <1>7, KnownTyped
    <2> HIDE DEF b
    <2>2. b = t.born /\ k = KeyOf(ev)
      BY <2>1, HandedAfterFire
    <2> QED
      BY <1>5, <2>2 DEF KnownInv, b
  <1>8. ASSUME NEW s \in Known, NEW k \in Key, SeesBothWays(s.request),
               handed'[s.born][k] # Nil
        PROVE  /\ s.request.delivery = "webhook" /\ Passes(s.request, k)
               /\ s = t /\ k = KeyOf(ev) => handed'[s.born][k].recovered = ev.recovered
    <2>1. CASE handed[s.born][k] # Nil
      <3>1. s.request.delivery = "webhook" /\ Passes(s.request, k)
        BY <1>8, <2>1 DEF ScopeInv
      <3>2. s = t /\ k = KeyOf(ev) => handed'[s.born][k].recovered = ev.recovered
        BY <1>8, <3>1, TellsNow
      <3> QED
        BY <3>1, <3>2
    <2>2. CASE handed[s.born][k] = Nil
      <3>1. s = t /\ k = KeyOf(ev)
        BY <1>7, <1>8, <2>2
      <3>2. s.request.delivery = "webhook" /\ handed'[s.born][k].recovered = ev.recovered
        BY <1>8, <2>2, <3>1, TellsNow
      <3>3. Passes(s.request, k)
        BY <3>1 DEF HeldInv
      <3> QED
        BY <3>2, <3>3
    <2> QED
      BY <2>1, <2>2
  <1>9. HeldInv'
    BY <1>4 DEF HeldInv
  <1>10. ScopeInv'
    BY <1>5, <1>8 DEF ScopeInv
  <1>11. \A k \in Key : Waits(queue[w], FALSE, Of(k)) =>
            \A here \in BOOLEAN : (pc'[w] # "fire" => here) => Waits(queue'[w], here, Of(k))
    <2> SUFFICES ASSUME NEW k \in Key, Waits(queue[w], FALSE, Of(k)),
                        NEW here \in BOOLEAN, pc'[w] # "fire" => here
                 PROVE  Waits(queue'[w], here, Of(k))
      OBVIOUS
    <2>1. CASE AfterDispatch(w)
      <3>1. /\ pc'[w] \in {"idle", "update"}
            /\ Waits(queue'[w], TRUE, Of(k)) <=> Waits(queue[w], FALSE, Of(k))
        BY <1>1, <2>1, OfEvents, DispatchEnds
      <3>2. here = TRUE
        BY <3>1
      <3> QED
        BY <3>1, <3>2
    <2>2. CASE queue'[w] = queue[w]
      BY <2>2 DEF Waits
    <2> QED
      BY <1>4, <2>1, <2>2
  <1> HIDE DEF ev
  <1>12. ASSUME ~panicked, NEW s \in Table, NEW k \in Key, k \notin mixed,
                SeesBothWays(s.request), handed'[s.born][k] # Nil,
                ~(handed'[s.born][k].recovered <=> Clear(k))
         PROVE  \E p \in Procs :
                   Waits(queue'[p], pc'[p] # "fire" \/ s \in matched'[p], Of(k))
    <2>0. s \in Known
      BY DEF Table, Known
    <2>1. ~(s = t /\ k = KeyOf(ev))
      BY <1>3, <1>8, <1>12, <2>0
    <2>2. handed'[s.born][k] = handed[s.born][k]
      BY <1>7, <1>12, <2>0, <2>1
    <2>3. PICK p \in Procs : Waits(queue[p], pc[p] # "fire" \/ s \in matched[p], Of(k))
      BY <1>12, <2>2 DEF ToldInv
    <2>4. CASE p # w
      BY <1>4, <2>3, <2>4
    <2>5. CASE p = w /\ Waits(queue[w], FALSE, Of(k))
      BY <1>11, <2>5
    <2>6. CASE p = w /\ ~Waits(queue[w], FALSE, Of(k))
      <3>1. Waits(queue[w], s \in matched[w], Of(k))
        BY <1>1, <2>3, <2>6 DEF Waits
      <3>2. s \in matched[w] /\ ev \in Of(k)
        BY <1>6, <2>6, <3>1 DEF Waits
      <3>3. s # t
        BY <2>1, <3>2 DEF Of
      <3>4. matched[w] # {t} /\ queue'[w] = queue[w] /\ s \in matched'[w]
        BY <1>4, <3>2, <3>3
      <3> QED
        BY <3>1, <3>2, <3>4 DEF Waits
    <2> QED
      BY <2>4, <2>5, <2>6
  <1>13. ToldInv'
    BY <1>1, <1>5, <1>12 DEF ToldInv, Clear
  <1> QED
    BY <1>9, <1>10, <1>13

\* A step that hands nothing off tells nobody of another's faults.
LEMMA ScopeRests ==
    ASSUME TypeOK, Control, KnownInv, ScopeInv, [Next]_vars, handed' = handed
    PROVE  ScopeInv'
  <1>1. CASE \E r \in SubRequests : AddSubscription(r)
    <2>1. /\ seq \in Nat /\ seq + 1 \in 1..MaxSubs
          /\ \A s \in Known' : s \in Known \/ s.born = seq + 1
      BY <1>1, AddKnows
    <2>2. \A k \in Key : handed[seq + 1][k] = Nil
      BY <2>1 DEF KnownInv
    <2> QED
      BY <2>1, <2>2 DEF ScopeInv
  <1>2. CASE \A r \in SubRequests : ~AddSubscription(r)
    <2>1. Known' \subseteq Known
      BY <1>2, KnownShrinks
    <2> QED
      BY <2>1 DEF ScopeInv
  <1> QED
    BY <1>1, <1>2

LEMMA ToldElsewhere ==
    ASSUME TypeOK, KnownInv, HeldInv, ToldInv, Elsewhere
    PROVE  HeldInv' /\ ToldInv'
  <1>1. UNCHANGED <<prev, pc, queue, matched, panicked, mixed, handed>>
    BY ElsewhereRests
  <1>2. \A s \in Table' : s \in Table \/ \A k \in Key : handed[s.born][k] = Nil
    <2>1. CASE \E r \in SubRequests : AddSubscription(r)
      <3>1. PICK r \in SubRequests : AddSubscription(r)
        BY <2>1
      <3> DEFINE new == [request |-> r, id |-> NewSubId(seq + 1), born |-> seq + 1]
      <3>2. seq \in Nat /\ seq + 1 \in 1..MaxSubs
        BY <3>1, AddKnows
      <3>3. \A j \in SubIds : subs'[j] = subs[j] \/ subs'[j] = new
        BY <3>1 DEF AddSubscription, TypeOK
      <3>4. \A k \in Key : handed[new.born][k] = Nil
        BY <3>2 DEF KnownInv
      <3> HIDE DEF new
      <3> QED
        BY <3>3, <3>4 DEF Table
    <2>2. CASE \E i \in SubIds : RemoveSubscription(i)
      <3>1. \A j \in SubIds : subs'[j] = subs[j] \/ subs'[j] = Nil
        BY <2>2 DEF RemoveSubscription, TypeOK
      <3> QED
        BY <3>1 DEF Table
    <2>3. CASE Tick \/ UNCHANGED vars
      BY <2>3 DEF Tick, vars, Table
    <2> QED
      BY <2>1, <2>2, <2>3 DEF Elsewhere
  <1>3. ToldInv'
    BY <1>1, <1>2 DEF ToldInv, Clear
  <1>4. HeldInv'
    BY <1>1 DEF HeldInv
  <1> QED
    BY <1>3, <1>4

LEMMA ToldStep ==
    ASSUME TypeOK, TypeOK', Control, KnownInv, QueuesInv, ScopeInv, HeldInv, ToldInv,
           [Next]_vars
    PROVE  HeldInv' /\ ScopeInv' /\ ToldInv'
  <1>1. ASSUME NEW w \in Procs, NEW devs \in Batches(w), Detect(w, devs)
        PROVE  HeldInv' /\ ScopeInv' /\ ToldInv'
    <2>1. handed' = handed
      BY <1>1 DEF Detect
    <2> QED
      BY <1>1, <2>1, ToldDetect, ScopeRests
  <1>2. ASSUME NEW w \in Procs, BeginWrite(w) \/ UpdateSnapshot(w) \/ Record(w)
        PROVE  HeldInv' /\ ScopeInv' /\ ToldInv'
    <2>1. /\ UNCHANGED <<prev, subs, panicked, mixed, handed, queue, matched>>
          /\ \A p \in Procs \ {w} : pc'[p] = pc[p]
          /\ pc[w] # "fire" /\ pc'[w] # "fire"
      BY <1>2 DEF BeginWrite, UpdateSnapshot, Record, TypeOK
    <2>2. Table' = Table
      BY <2>1 DEF Table
    <2>3. \A s, k : Waits(queue[w], pc[w] # "fire" \/ s \in matched[w], Of(k))
              => Waits(queue'[w], pc'[w] # "fire" \/ s \in matched'[w], Of(k))
      BY <2>1 DEF Waits
    <2>4. HeldInv'
      BY <2>1 DEF HeldInv
    <2> QED
      BY <2>1, <2>2, <2>3, <2>4, ToldRests, ScopeRests
  <1>3. ASSUME NEW w \in Procs, MatchSubscriptions(w)
        PROVE  HeldInv' /\ ScopeInv' /\ ToldInv'
    <2>1. handed' = handed
      BY <1>3 DEF MatchSubscriptions
    <2> QED
      BY <1>3, <2>1, ToldMatch, ScopeRests
  <1>4. ASSUME NEW w \in IngestHandlers, NEW e \in IngestedEvents, Ingest(w, e)
        PROVE  HeldInv' /\ ScopeInv' /\ ToldInv'
    <2>1. /\ UNCHANGED <<prev, subs, panicked, handed, matched>> /\ mixed \subseteq mixed'
          /\ \A p \in Procs \ {w} : queue'[p] = queue[p] /\ pc'[p] = pc[p]
          /\ pc[w] = "idle" /\ w \in Procs
      BY <1>4 DEF Ingest, TypeOK, Procs
    <2>2. queue[w] = <<>> /\ matched[w] = {}
      BY <2>1 DEF Control, KnownInv
    <2>3. Table' = Table /\ HeldInv'
      BY <2>1, <2>2 DEF Table, HeldInv
    <2>4. \A s, k : ~Waits(queue[w], pc[w] # "fire" \/ s \in matched[w], Of(k))
      BY <2>2, WaitsNone
    <2> QED
      BY <2>1, <2>3, <2>4, ToldRests, ScopeRests
  <1>5. ASSUME ~panicked, NEW w \in Procs, NEW t \in matched[w], PanicOnNilMap(w, t)
        PROVE  HeldInv' /\ ScopeInv' /\ ToldInv'
    <2>1. /\ UNCHANGED <<prev, subs, handed, mixed>> /\ matched'[w] = {}
          /\ \A p \in Procs \ {w} :
                queue'[p] = queue[p] /\ pc'[p] = pc[p] /\ matched'[p] = matched[p]
      BY <1>5 DEF PanicOnNilMap, TypeOK
    <2>2. HeldInv' /\ ScopeInv'
      BY <2>1, ScopeRests DEF HeldInv
    <2>3. CASE w \in Writers
      BY <1>5, <2>2, <2>3 DEF PanicOnNilMap, ToldInv
    <2>4. CASE w \notin Writers
      <3>1. w \in IngestHandlers /\ queue[w] \in Seq(Event)
        BY <2>4 DEF Procs, TypeOK
      <3>2. panicked' = panicked /\ Table' = Table
        BY <1>5, <2>1, <2>4 DEF PanicOnNilMap, Table, TypeOK
      <3>3. ASSUME NEW k \in Key, NEW here \in BOOLEAN, Waits(queue[w], here, Of(k))
            PROVE  k \in mixed
        <4>1. Waits(queue[w], TRUE, Of(k))
          BY <3>3 DEF Waits
        <4>2. k \in InQueue(w)
          BY <3>1, <4>1, KeysWaiting DEF InQueue
        <4> QED
          BY <3>1, <4>2 DEF QueuesInv
      <3> QED
        BY <2>1, <2>2, <3>2, <3>3, ToldRests
    <2> QED
      BY <2>3, <2>4
  <1>6. ASSUME Elsewhere PROVE HeldInv' /\ ScopeInv' /\ ToldInv'
    <2>1. handed' = handed
      BY <1>6, ElsewhereRests
    <2> QED
      BY <1>6, <2>1, ToldElsewhere, ScopeRests
  <1> QED
    BY <1>1, <1>2, <1>3, <1>4, <1>5, <1>6, ToldFire, StepKinds DEF Advances

\* "The subscriber already knows" (detector.go:33): a webhook subscriber in the
\* table that filters neither time nor severities, once told of a fault, was
\* last told what the detector holds of it now, unless events of that fault are
\* under way, or two goroutines had some at once; whatever subscriptions are made
\* and removed meanwhile.
THEOREM SubscribersAreRight == Spec => []SubscribersKnow
  <1>1. TypeOK /\ ToldInv => SubscribersKnow
    <2> SUFFICES ASSUME TypeOK, ToldInv, ~panicked, NEW i \in SubIds, NEW k \in Key,
                        NEW s, s = subs[i], s # Nil, Settled(k),
                        SeesBothWays(s.request), handed[s.born][k] # Nil
                 PROVE  handed[s.born][k].recovered <=> Clear(k)
      BY DEF SubscribersKnow, Clear
    <2>1. s \in Table
      BY DEF Table
    <2>2. k \notin mixed /\ \A p \in Procs : k \notin InQueue(p)
      BY DEF Settled, InHand
    <2>3. ASSUME NEW p \in Procs, NEW here \in BOOLEAN PROVE ~Waits(queue[p], here, Of(k))
      <3>1. queue[p] \in Seq(Event)
        BY DEF TypeOK
      <3>2. ~Waits(queue[p], TRUE, Of(k))
        BY <2>2, <3>1, KeysWaiting DEF InQueue
      <3> QED
        BY <3>2 DEF Waits
    <2> QED
      BY <2>1, <2>2, <2>3 DEF ToldInv
  <1>2. Init => KnownInv /\ QueuesInv /\ HeldInv /\ ScopeInv /\ ToldInv
    BY KnownInit, QueuesInit, ToldInit
  <1>3. /\ TypeOK /\ TypeOK' /\ Control /\ KnownInv /\ QueuesInv
        /\ HeldInv /\ ScopeInv /\ ToldInv /\ [Next]_vars
        => KnownInv' /\ QueuesInv' /\ HeldInv' /\ ScopeInv' /\ ToldInv'
    BY KnownStep, QueuesStep, ToldStep
  <1> QED
    BY <1>1, <1>2, <1>3, TypeCorrect, PTL DEF Spec

-----------------------------------------------------------------------------
\* The Dispatcher: ring arithmetic.

\* Index arithmetic: a sum of two indexes wraps at most once.
LEMMA ModSmall ==
    ASSUME NEW N \in Nat \ {0}, NEW a \in Nat, a < N
    PROVE  a % N = a
  BY SMT

\* Index arithmetic: the sum did wrap.
LEMMA ModOnce ==
    ASSUME NEW N \in Nat \ {0}, NEW a \in Nat, a >= N, a < 2 * N
    PROVE  a % N = a - N
  BY SMT

\* The slot of the i-th retained event is i - 1 slots after the oldest one.
SlotOf(h, c, i) == IF h - c + i - 1 >= 0 THEN h - c + i - 1 ELSE h - c + i - 1 + EventBuf

\* The index computation of Events (dispatcher.go:131,134) yields SlotOf.
LEMMA SlotIndex ==
    ASSUME EventBuf \in Nat \ {0},
           NEW h \in 0..(EventBuf - 1), NEW c \in 0..EventBuf, NEW i \in 1..c
    PROVE  (((h - c + EventBuf) % EventBuf) + i - 1) % EventBuf = SlotOf(h, c, i)
  <1> DEFINE a == h - c + EventBuf
             s == a % EventBuf
  <1>1. a \in Nat /\ a < 2 * EventBuf
    BY SMT
  <1>2. CASE a < EventBuf
    <2>1. s = a
      BY <1>1, <1>2, ModSmall, SMT
    <2>2. s + i - 1 \in Nat /\ s + i - 1 < 2 * EventBuf
      BY <2>1, <1>2, SMT
    <2>3. CASE s + i - 1 < EventBuf
      <3>1. (s + i - 1) % EventBuf = s + i - 1
        BY <2>2, <2>3, ModSmall
      <3>2. QED
        BY <3>1, <2>1, <2>3, SMT DEF SlotOf
    <2>4. CASE s + i - 1 >= EventBuf
      <3>1. (s + i - 1) % EventBuf = s + i - 1 - EventBuf
        BY <2>2, <2>4, ModOnce
      <3>2. QED
        BY <3>1, <2>1, <2>4, SMT DEF SlotOf
    <2>5. QED
      BY <2>2, <2>3, <2>4, SMT
  <1>3. CASE a >= EventBuf
    <2>1. s = a - EventBuf
      BY <1>1, <1>3, ModOnce
    <2>2. s + i - 1 \in Nat /\ s + i - 1 < EventBuf
      BY <2>1, <1>3, SMT
    <2>3. (s + i - 1) % EventBuf = s + i - 1
      BY <2>2, ModSmall
    <2>4. QED
      BY <2>3, <2>1, <1>3, SMT DEF SlotOf
  <1>4. QED
    BY <1>1, <1>2, <1>3, SMT

\* t is s with e at its end, element by element.
ShiftedAppend(s, e, t) ==
    t = [i \in 1..(Len(s) + 1) |-> IF i <= Len(s) THEN s[i] ELSE e]

\* A sequence given element by element is the Append it looks like.
LEMMA IsAppend ==
    ASSUME NEW S, NEW s \in Seq(S), NEW e \in S, NEW t, ShiftedAppend(s, e, t)
    PROVE  t = Append(s, e)
  <1>1. Len(s) \in Nat /\ \A i \in 1..Len(s) : s[i] \in S
    BY LenProperties, ElementOfSeq
  <1>2. t \in Seq(S) /\ Len(t) = Len(s) + 1
    BY <1>1, SMT DEF ShiftedAppend
  <1>3. /\ Append(s, e) \in Seq(S) /\ Len(Append(s, e)) = Len(s) + 1
        /\ \A i \in 1..(Len(s) + 1) :
              Append(s, e)[i] = IF i <= Len(s) THEN s[i] ELSE e
    BY <1>1, SMT
  <1>4. \A i \in 1..Len(t) : t[i] = Append(s, e)[i]
    BY <1>1, <1>2, <1>3, SMT DEF ShiftedAppend
  <1>5. QED
    BY <1>2, <1>3, <1>4, SeqEqual

-----------------------------------------------------------------------------
\* The inductive invariant: the types, and the slots Events reads hold
\* recorded events.
RingInv == RingTypeOK /\ OnlyRecorded

\* What Events returns, without the remainders.
LEMMA ContentsSlots ==
    ASSUME RingInv
    PROVE  /\ Contents = [i \in 1..count |-> buffer[SlotOf(bufHead, count, i)]]
           /\ Contents \in Seq(Events) /\ Len(Contents) = count
           /\ \A i \in 1..count : SlotOf(bufHead, count, i) \in 0..(EventBuf - 1)
  <1>1. \A i \in 1..count : EventBuf \in Nat \ {0}
    BY EventBufAssumption, SMT DEF RingInv, RingTypeOK
  <1>2. \A i \in 1..count : (Start + i - 1) % EventBuf = SlotOf(bufHead, count, i)
    BY <1>1, SlotIndex DEF RingInv, RingTypeOK, Start
  <1>3. Contents = [i \in 1..count |-> buffer[SlotOf(bufHead, count, i)]]
    BY <1>2 DEF Contents
  <1>4. \A i \in 1..count : SlotOf(bufHead, count, i) \in 0..(EventBuf - 1)
    BY <1>1, SMT DEF RingInv, RingTypeOK, SlotOf
  <1>5. count \in Nat
    BY EventBufAssumption, SMT DEF RingInv, RingTypeOK
  <1>6. Contents \in Seq(Events) /\ Len(Contents) = count
    BY <1>3, <1>5, SMT DEF RingInv, OnlyRecorded
  <1>7. QED
    BY <1>3, <1>4, <1>6

\* The initial ring is empty and well typed.
LEMMA RingStarts == RingInit => RingInv /\ Contents = <<>>
  <1> SUFFICES ASSUME RingInit PROVE RingInv /\ Contents = <<>>
    OBVIOUS
  <1>1. RingTypeOK
    BY EventBufAssumption, SMT DEF RingInit, RingTypeOK
  <1>2. Contents = <<>>
    BY SMT DEF RingInit, Contents
  <1>3. OnlyRecorded
    BY <1>2, SMT DEF OnlyRecorded
  <1>4. QED
    BY <1>1, <1>2, <1>3 DEF RingInv

\* One record maps to one abstract record, and keeps the invariant.
LEMMA RingStep ==
    ASSUME RingInv, NEW ev \in Events, RingRecord(ev)
    PROVE  RingInv' /\ Contents' = Retain(Contents, ev)
  <1> USE EventBufAssumption
  <1>1. EventBuf \in Nat \ {0} /\ bufHead \in 0..(EventBuf - 1) /\ count \in 0..EventBuf
    BY SMT DEF RingInv, RingTypeOK, RingRecord
  <1>2. bufHead' = IF bufHead + 1 < EventBuf THEN bufHead + 1 ELSE 0
    <2>1. CASE bufHead + 1 < EventBuf
      BY <1>1, <2>1, ModSmall, SMT DEF RingRecord
    <2>2. CASE bufHead + 1 = EventBuf
      <3>1. (bufHead + 1) % EventBuf = bufHead + 1 - EventBuf
        BY <1>1, <2>2, ModOnce, SMT
      <3>2. QED
        BY <3>1, <1>1, <2>2, SMT DEF RingRecord
    <2>3. QED
      BY <1>1, <2>1, <2>2, SMT
  <1>3. RingTypeOK'
    BY <1>1, <1>2, SMT DEF RingInv, RingTypeOK, RingRecord
  <1>4. /\ Contents = [i \in 1..count |-> buffer[SlotOf(bufHead, count, i)]]
        /\ Contents \in Seq(Events) /\ Len(Contents) = count
        /\ \A i \in 1..count : SlotOf(bufHead, count, i) \in 0..(EventBuf - 1)
    BY ContentsSlots
  <1>5. \A i \in 1..count' : (Start' + i - 1) % EventBuf = SlotOf(bufHead', count', i)
    BY <1>1, <1>3, SlotIndex DEF RingTypeOK, Start
  <1>6. Contents' = [i \in 1..count' |-> buffer'[SlotOf(bufHead', count', i)]]
    BY <1>5 DEF Contents
  <1>7. buffer' = [buffer EXCEPT ![bufHead] = ev] /\ buffer \in [0..(EventBuf - 1) -> Events \cup {Zero}]
    BY DEF RingRecord, RingInv, RingTypeOK
  <1>8. CASE count < EventBuf
    <2>1. count' = count + 1
      BY <1>8 DEF RingRecord
    <2>2. \A i \in 1..count :
             /\ SlotOf(bufHead', count', i) = SlotOf(bufHead, count, i)
             /\ SlotOf(bufHead, count, i) # bufHead
      BY <1>1, <1>2, <1>8, <2>1, SMT DEF SlotOf
    <2>3. SlotOf(bufHead', count', count + 1) = bufHead
      BY <1>1, <1>2, <1>8, <2>1, SMT DEF SlotOf
    <2>4. \A i \in 1..(count + 1) :
             Contents'[i] = IF i <= count THEN Contents[i] ELSE ev
      BY <1>1, <1>4, <1>6, <1>7, <2>1, <2>2, <2>3, SMT
    <2>5. Contents' = Append(Contents, ev)
      BY <1>1, <1>4, <1>6, <2>1, <2>4, SMT
    <2>6. QED
      BY <1>1, <1>3, <1>4, <1>8, <2>5, SMT DEF RingInv, OnlyRecorded, Retain
  <1>9. CASE count = EventBuf
    <2>1. count' = EventBuf
      BY <1>1, <1>9, SMT DEF RingRecord
    <2>2. \A i \in 1..(EventBuf - 1) :
             /\ SlotOf(bufHead', count', i) = SlotOf(bufHead, count, i + 1)
             /\ SlotOf(bufHead, count, i + 1) # bufHead
      BY <1>1, <1>2, <1>9, <2>1, SMT DEF SlotOf
    <2>3. SlotOf(bufHead', count', EventBuf) = bufHead
      BY <1>1, <1>2, <1>9, <2>1, SMT DEF SlotOf
    <2>4. \A i \in 1..EventBuf :
             Contents'[i] = IF i < EventBuf THEN Contents[i + 1] ELSE ev
      BY <1>1, <1>4, <1>6, <1>7, <1>9, <2>1, <2>2, <2>3, SMT
    <2>5. Contents # <<>>
      BY <1>1, <1>4, <1>9, SMT
    <2>6. /\ Tail(Contents) \in Seq(Events) /\ Len(Tail(Contents)) = EventBuf - 1
          /\ \A i \in 1..(EventBuf - 1) : Tail(Contents)[i] = Contents[i + 1]
      BY <1>1, <1>4, <1>9, <2>5, HeadTailProperties
    <2>7. ShiftedAppend(Tail(Contents), ev, Contents')
      BY <1>1, <1>6, <2>1, <2>4, <2>6, SMT DEF ShiftedAppend
    <2>8. \A i \in DOMAIN Contents' : Contents'[i] \in Events
      BY <1>1, <1>6, <2>1, <2>4, <2>6, SMT
    <2>9. Contents' = Append(Tail(Contents), ev)
      BY <2>6, <2>7, IsAppend
    <2>10. Retain(Contents, ev) = Append(Tail(Contents), ev)
      <3>1. EventBuf # 0 /\ ~(Len(Contents) < EventBuf)
        BY <1>1, <1>4, <1>9, SMT
      <3>2. QED
        BY <3>1, Zenon DEF Retain
    <2>11. QED
      BY <1>3, <2>8, <2>9, <2>10 DEF RingInv, OnlyRecorded
  <1>10. QED
    BY <1>1, <1>8, <1>9, SMT

\* A step of the Dispatcher is a record or leaves the ring alone.
LEMMA DispatcherRing ==
    ASSUME [DispatcherNext]_<<ring, delivery>>
    PROVE  [RingNext]_ring
  BY DEF DispatcherNext, Dispatch, Deliver, ring, RingNext

\* A step from a state of the invariant keeps it.
LEMMA RingInvariant ==
    ASSUME RingInv, [RingNext]_ring
    PROVE  RingInv'
  <1>1. CASE RingNext
    BY <1>1, RingStep DEF RingNext
  <1>2. CASE UNCHANGED ring
    BY <1>2 DEF ring, RingInv, RingTypeOK, OnlyRecorded, Contents, Start
  <1>3. QED
    BY <1>1, <1>2

\* No read of the ring returns a slot that was never written, and the indexes
\* stay in range (dispatcher.go record and Events).
THEOREM RingSafety == DispatcherSpec => [](RingTypeOK /\ OnlyRecorded)
  <1>1. DispatcherInit => RingInv
    BY RingStarts DEF DispatcherInit
  <1>2. RingInv /\ [DispatcherNext]_<<ring, delivery>> => RingInv'
    BY DispatcherRing, RingInvariant
  <1>3. QED
    BY <1>1, <1>2, PTL DEF DispatcherSpec, RingInv

\* The ring buffer implements the abstract log of the last EventBuf events:
\* Events returns what PollLog says, whatever was dispatched before and
\* whatever the deliveries do meanwhile.
THEOREM RingImplementsPollLog == DispatcherSpec => ImplementsPollLog
  <1>1. DispatcherInit => Poll!Init
    BY RingStarts DEF Poll!Init, DispatcherInit
  <1>2. RingInv /\ [DispatcherNext]_<<ring, delivery>> => [Poll!Next]_Contents
    <2> SUFFICES ASSUME RingInv, [RingNext]_ring PROVE [Poll!Next]_Contents
      BY DispatcherRing
    <2>1. CASE RingNext
      BY <2>1, RingStep DEF RingNext, Poll!Next, Poll!Record, Poll!Retain, Retain
    <2>2. CASE UNCHANGED ring
      BY <2>2 DEF ring, Contents, Start
    <2>3. QED
      BY <2>1, <2>2
  <1>3. DispatcherSpec => []RingInv
    BY RingSafety, PTL DEF RingInv
  <1>4. QED
    BY <1>1, <1>2, <1>3, PTL DEF DispatcherSpec, ImplementsPollLog, Poll!Spec

-----------------------------------------------------------------------------
\* What a goroutine has done when it is where it is: it counts its pushes, and
\* an acknowledged event is out of the loop for good.
PushInv ==
    /\ state \in [Webhook!Deliveries ->
            {"absent", "pushing", "backoff", "delivered", "dropped"}]
    /\ attempts \in [Webhook!Deliveries -> 0..(1 + Retry)]
    /\ received \in Seq(Webhook!Deliveries)
    /\ acked \in [Webhook!Deliveries -> BOOLEAN]
    /\ DroppedOnlyAfterAllAttempts
    /\ \A d \in Webhook!Deliveries :
          /\ state[d] = "absent" => attempts[d] = 0
          /\ acked[d] => state[d] = "delivered"

\* What a step of goroutine d can do.
LEMMA DeliveryCases ==
    ASSUME NEW d \in Webhook!Deliveries, Deliver(d)
    PROVE  \/ Webhook!PushSucceeds(d) \/ Webhook!BackoffEnds(d)
           \/ /\ state[d] = "pushing" /\ Webhook!AfterFailure(d)
              /\ received' \in {received, Append(received, d)}
           \/ Webhook!ContextExpires(d)
  BY DEF Deliver, Webhook!DeliveryStep, Webhook!PushAnswerLost, Webhook!PushFails

LEMMA PushInvStep ==
    ASSUME PushInv, [DispatcherNext]_<<ring, delivery>>
    PROVE  PushInv'
  <1> USE DispatcherAssumption
         DEF PushInv, DroppedOnlyAfterAllAttempts,
             Webhook!DroppedOnlyAfterAllAttempts
  <1>1. ASSUME NEW d \in Webhook!Deliveries, Webhook!Spawn(d) PROVE PushInv'
    BY <1>1 DEF Webhook!Spawn
  <1>2. ASSUME NEW d \in Webhook!Deliveries, Webhook!PushSucceeds(d)
        PROVE  PushInv'
    <2>1. received' \in Seq(Webhook!Deliveries)
      BY <1>2 DEF Webhook!PushSucceeds
    <2>2. attempts' \in [Webhook!Deliveries -> 0..(1 + Retry)]
      BY <1>2 DEF Webhook!PushSucceeds
    <2>3. QED
      BY <1>2, <2>1, <2>2 DEF Webhook!PushSucceeds
  <1>3. ASSUME NEW d \in Webhook!Deliveries, state[d] = "pushing",
               Webhook!AfterFailure(d),
               received' \in {received, Append(received, d)}
        PROVE  PushInv'
    <2>1. received' \in Seq(Webhook!Deliveries)
      <3>1. Append(received, d) \in Seq(Webhook!Deliveries)
        OBVIOUS
      <3>2. QED
        BY <1>3, <3>1
    <2>2. attempts[d] + 1 \in 0..(1 + Retry)
      BY <1>3
    <2>3. QED
      BY <1>3, <2>1, <2>2 DEF Webhook!AfterFailure
  <1>4. ASSUME NEW d \in Webhook!Deliveries, Webhook!BackoffEnds(d)
        PROVE  PushInv'
    BY <1>4 DEF Webhook!BackoffEnds
  <1>5. ASSUME NEW d \in Webhook!Deliveries, Webhook!ContextExpires(d)
        PROVE  PushInv'
    BY <1>5 DEF Webhook!ContextExpires
  <1>6. CASE UNCHANGED delivery
    BY <1>6 DEF delivery
  <1>7. ASSUME NEW d \in Webhook!Deliveries, Deliver(d) PROVE PushInv'
    BY <1>2, <1>3, <1>4, <1>5, <1>7, DeliveryCases
  <1>8. QED
    BY <1>1, <1>6, <1>7 DEF DispatcherNext, Dispatch

\* A push of an event that was acknowledged before never reaches the endpoint.
LEMMA PushOnlyUnacked ==
    ASSUME PushInv, [DispatcherNext]_<<ring, delivery>>,
           NEW d \in Webhook!Deliveries, acked[d],
           NEW i \in (DOMAIN received') \ (DOMAIN received)
    PROVE  received'[i] # d
  <1>1. received \in Seq(Webhook!Deliveries)
    BY DEF PushInv
  <1>2. ASSUME NEW e \in Webhook!Deliveries, state[e] = "pushing",
               received' = Append(received, e)
        PROVE  received'[i] # d
    <2>1. i = Len(received) + 1 /\ received'[i] = e
      BY <1>1, <1>2
    <2>2. QED
      BY <1>2, <2>1 DEF PushInv
  <1>3. CASE received' = received
    BY <1>3
  <1>4. ASSUME NEW e \in Webhook!Deliveries, Deliver(e)
        PROVE  received' = received
               \/ (state[e] = "pushing" /\ received' = Append(received, e))
    BY <1>4, DeliveryCases
       DEF Webhook!PushSucceeds, Webhook!BackoffEnds, Webhook!ContextExpires
  <1>5. ASSUME NEW e \in Webhook!Deliveries, Webhook!Spawn(e)
        PROVE  received' = received
    BY <1>5 DEF Webhook!Spawn
  <1>6. QED
    BY <1>2, <1>3, <1>4, <1>5 DEF DispatcherNext, Dispatch, delivery

\* The pushes of an event are counted right whatever the network does and
\* however deliveries and records interleave: as many as there are attempts
\* before it is dropped, none after one was acknowledged
\* (dispatcher.go:89-101).
THEOREM EveryPushCounted == DispatcherSpec => PushesCounted
  <1>1. DispatcherInit => PushInv
    BY DispatcherAssumption
       DEF DispatcherInit, Webhook!Init, PushInv, DroppedOnlyAfterAllAttempts,
           Webhook!DroppedOnlyAfterAllAttempts
  <1>2. PushInv /\ [DispatcherNext]_<<ring, delivery>> => PushInv'
    BY PushInvStep
  <1>3. PushInv /\ [DispatcherNext]_<<ring, delivery>>
           => [DroppedOnlyAfterAllAttempts']_<<ring, delivery>>
    BY PushInvStep DEF PushInv
  <1>4. PushInv /\ [DispatcherNext]_<<ring, delivery>>
           => [\A d \in Webhook!Deliveries :
                  acked[d] =>
                     \A i \in (DOMAIN received') \ (DOMAIN received) :
                        received'[i] # d]_(Webhook!vars)
    BY PushOnlyUnacked
  <1>5. QED
    BY <1>1, <1>2, <1>3, <1>4, PTL
       DEF DispatcherSpec, PushesCounted, NoCopyAfterAck, Webhook!NoCopyAfterAck
=============================================================================
