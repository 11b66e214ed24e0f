----------------------------- MODULE FaultSub -----------------------------
(***************************************************************************)
(* The fault subscription tap (features/faultsub): FaultStorage.Write runs *)
(* in the goroutine of every collector whose batch passes through the      *)
(* storage chain, Dispatcher.Dispatch also in the HTTP goroutines that     *)
(* ingest external events, and the REST handlers change the subscription   *)
(* table meanwhile.  Each action is one critical section of the code; what *)
(* a goroutine carries from one to the next is in pc, stamp, queue and     *)
(* matched.  Starting a delivery goroutine is the last step modelled here; *)
(* WebhookDelivery models what it does.                                    *)
(***************************************************************************)
EXTENDS FaultDetector, RecentEvents

CONSTANTS NpuCollectors,   \* collector goroutines whose batches hold npu metrics
          OtherCollectors, \* collector goroutines of every other component
          IngestHandlers,  \* HTTP goroutines of POST /faultsub/events
          Readings,        \* the device readings that occur
          SubRequests,     \* the bodies of POST /faultsub/subscriptions
          IngestedEvents,  \* <<type, npu, severity, recovered, timestamp>> of
                           \* ingested events; timestamp 0 is a missing one
          IdSpace,         \* ids newSubID can produce (10000 in the code)
          MaxSubs,         \* bound: subscriptions ever added
          MaxTime,         \* bound: the clock
          Nil              \* absent map entry / no event

Writers == NpuCollectors \cup OtherCollectors
Procs == Writers \cup IngestHandlers

\* A subscription as requested.  handleCreateSub refuses a webhook without an
\* endpoint and fills in a missing delivery, so delivery is one of the two.
SubRequest == [types : SUBSET FaultType, npus : SUBSET Npus,
               minSeverity : Severity \cup {""},
               delivery : {"webhook", "poll"}, debounce : Nat]

ASSUME FaultSubAssumption ==
    /\ IsFiniteSet(NpuCollectors) /\ IsFiniteSet(OtherCollectors)
    /\ NpuCollectors \cap OtherCollectors = {}
    /\ Writers \cap IngestHandlers = {}
    /\ Readings \subseteq Reading
    /\ SubRequests \subseteq SubRequest
    /\ IngestedEvents \subseteq FaultType \X Npus \X Severity \X BOOLEAN \X Nat
    /\ IdSpace \in Nat \ {0}
    /\ MaxSubs \in Nat
    /\ MaxTime \in Nat \ {0}
    /\ Nil \notin Event
    /\ Nil \notin [Npus \X FaultType -> Nat]
    /\ Nil \notin [request : SubRequests, id : Nat, born : Nat]

VARIABLES
    prev,      \* FaultDetector.prev
    snapshot,  \* FaultStorage.snapshot: npu -> event or Nil
    written,   \* FaultStorage.written
    recent,    \* the Dispatcher's retained events, oldest first
    subs,      \* SubscriptionManager.sub: id -> subscription or Nil
    debounce,  \* SubscriptionManager.debounce: id -> (key -> last fired) or Nil
    seq,       \* SubscriptionManager.seq
    now,       \* the clock; 0 is the zero time.Time
    pc,        \* the critical section a goroutine enters next
    stamp,     \* the time.Now() a Detect call took before it got the lock
    queue,     \* the events a goroutine has yet to dispatch, current one first
    matched,   \* what Matched returned and the loop has not visited
    panicked,  \* a collector goroutine panicked: the daemon is gone
    handed,    \* history: born -> key -> the last hand-off to a delivery
    mixed,     \* history: the faults whose last event came while another
               \* goroutine still had one of the same fault, or from outside
    balance    \* history: fires less recoveries the collectors recorded

vars == <<prev, snapshot, written, recent, subs, debounce, seq, now, pc,
          stamp, queue, matched, panicked, handed, mixed, balance>>

Key == Npus \X FaultType
KeyOf(ev) == <<ev.npu, ev.type>>
SubIds == 0..(IdSpace - 1)
Subscription == [request : SubRequests, id : SubIds, born : 1..MaxSubs]
NeverFired == [k \in Key |-> 0]

\* newSubID keeps the four low decimal digits of the sequence number.
NewSubId(n) == n % IdSpace

Init ==
    /\ prev = [n \in Npus |-> {}]
    /\ snapshot = [n \in Npus |-> Nil]
    /\ written = FALSE
    /\ recent = <<>>
    /\ subs = [i \in SubIds |-> Nil]
    /\ debounce = [i \in SubIds |-> Nil]
    /\ seq = 0
    /\ now = 1
    /\ pc = [p \in Procs |-> "idle"]
    /\ stamp = [p \in Procs |-> 0]
    /\ queue = [p \in Procs |-> <<>>]
    /\ matched = [p \in Procs |-> {}]
    /\ panicked = FALSE
    /\ handed = [b \in 1..MaxSubs |-> [k \in Key |-> Nil]]
    /\ mixed = {}
    /\ balance = [k \in Key |-> 0]

-----------------------------------------------------------------------------
\* FaultStorage.Write up to the detector's lock: the inner write (its error is
\* only logged), the written flag, and the timestamp of this cycle.
BeginWrite(p) ==
    /\ p \in Writers
    /\ pc[p] = "idle"
    /\ written' = TRUE
    /\ stamp' = [stamp EXCEPT ![p] = now]
    /\ pc' = [pc EXCEPT ![p] = "detect"]
    /\ UNCHANGED <<prev, snapshot, recent, subs, debounce, seq, now, queue,
                   matched, panicked, handed, mixed, balance>>

\* The batches a collector writes: an npu batch has metrics of some NPUs, the
\* others have none the detector looks at.
Batches(p) ==
    IF p \in NpuCollectors
    THEN UNION {[S -> Readings] : S \in SUBSET Npus}
    ELSE {<<>>}

\* MUTANT of NextPrev: cleared faults are never removed from the active set.
NextPrevAccumulates(devs) == [n \in Npus |-> prev[n] \cup Active(devs)[n]]

\* What Detect remembers for the next call.
NextPrev(devs) == Active(devs)

\* The faults p's goroutine still has an event of.
InQueue(p) == {KeyOf(queue[p][i]) : i \in DOMAIN queue[p]}

\* The history of the faults two goroutines have events of at once: p takes
\* events of the faults in keys into its queue.
MixedAfter(p, keys) ==
    (mixed \ keys) \cup (keys \cap UNION {InQueue(q) : q \in Procs \ {p}})

\* Detect, under the detector's lock.
Detect(p, devs) ==
    /\ pc[p] = "detect"
    /\ \E evs \in Detections(devs, prev, stamp[p]) :
          /\ queue' = [queue EXCEPT ![p] = evs]
          /\ pc' = [pc EXCEPT ![p] = IF evs = <<>> THEN "idle" ELSE "update"]
          /\ mixed' = MixedAfter(p, {KeyOf(evs[i]) : i \in DOMAIN evs})
    /\ prev' = NextPrev(devs)
    /\ stamp' = [stamp EXCEPT ![p] = 0]
    /\ UNCHANGED <<snapshot, written, recent, subs, debounce, seq, now,
                   matched, panicked, handed, balance>>

\* MUTANT of SnapshotAfter: a recovery is shown like a fault.
SnapshotAfterAny(ev) == ev

\* The snapshot slot an event leaves behind.
SnapshotAfter(ev) == IF ev.recovered THEN Nil ELSE ev

\* updateSnapshot, under FaultStorage.mu.
UpdateSnapshot(p) ==
    /\ pc[p] = "update"
    /\ LET ev == Head(queue[p])
       IN  snapshot' = [snapshot EXCEPT ![ev.npu] = SnapshotAfter(ev)]
    /\ pc' = [pc EXCEPT ![p] = "record"]
    /\ UNCHANGED <<prev, written, recent, subs, debounce, seq, now, stamp,
                   queue, matched, panicked, handed, mixed, balance>>

\* handleIngestEvent: the event goes straight to Dispatch, the snapshot is not
\* touched, and a missing timestamp is filled in.
Ingest(p, e) ==
    /\ p \in IngestHandlers
    /\ pc[p] = "idle"
    /\ queue' = [queue EXCEPT ![p] =
                    << [type |-> e[1], npu |-> e[2], severity |-> e[3],
                        recovered |-> e[4],
                        at |-> IF e[5] = 0 THEN now ELSE e[5]] >>]
    /\ pc' = [pc EXCEPT ![p] = "record"]
    /\ mixed' = mixed \cup {<<e[2], e[1]>>}
    /\ UNCHANGED <<prev, snapshot, written, recent, subs, debounce, seq, now,
                   stamp, matched, panicked, handed, balance>>

\* What an event of a collector adds to the history of its fault.
Count(ev) == IF ev.recovered THEN -1 ELSE 1

\* Dispatch, first half: record, under bufMu.
Record(p) ==
    /\ pc[p] = "record"
    /\ recent' = Retain(recent, Head(queue[p]))
    /\ pc' = [pc EXCEPT ![p] = "match"]
    /\ balance' = IF p \in Writers
                  THEN [balance EXCEPT ![KeyOf(Head(queue[p]))] =
                           @ + Count(Head(queue[p]))]
                  ELSE balance
    /\ UNCHANGED <<prev, snapshot, written, subs, debounce, seq, now, stamp,
                   queue, matched, panicked, handed, mixed>>

\* The goroutine's state when the loop of Dispatch has nothing left to visit:
\* the next event of the batch, or the end of Write or of the handler.
AfterDispatch(p) ==
    /\ queue' = [queue EXCEPT ![p] = Tail(@)]
    /\ pc' = [pc EXCEPT ![p] = IF Len(queue[p]) = 1 THEN "idle" ELSE "update"]

\* Dispatch, second half: Matched, under the subscription table's read lock.
MatchSubscriptions(p) ==
    /\ pc[p] = "match"
    /\ LET ms == {subs[i] : i \in {j \in SubIds :
                        subs[j] # Nil /\ Matches(subs[j].request, Head(queue[p]))}}
       IN  /\ matched' = [matched EXCEPT ![p] = ms]
           /\ IF ms = {}
              THEN AfterDispatch(p)
              ELSE pc' = [pc EXCEPT ![p] = "fire"] /\ UNCHANGED queue
    /\ UNCHANGED <<prev, snapshot, written, recent, subs, debounce, seq, now,
                   stamp, panicked, handed, mixed, balance>>

\* What the history keeps of a hand-off; flip makes every one a change.
HandOff(last, ev) ==
    [recovered |-> ev.recovered, at |-> now,
     flip |-> last = Nil \/ ~last.flip]

\* MUTANT of Suppressed: recoveries bypass the debounce window.
SuppressedUnlessRecovered(s, ev) ==
    /\ ~ev.recovered
    /\ s.request.debounce > 0
    /\ debounce[s.id] # Nil
    /\ debounce[s.id][KeyOf(ev)] # 0
    /\ now - debounce[s.id][KeyOf(ev)] < s.request.debounce

\* ShouldFire's debounce test; a missing inner map reads as "never fired".
Suppressed(s, ev) ==
    /\ s.request.debounce > 0
    /\ debounce[s.id] # Nil
    /\ debounce[s.id][KeyOf(ev)] # 0
    /\ now - debounce[s.id][KeyOf(ev)] < s.request.debounce

\* ShouldFire assigns into debounce[s.ID], which is nil once s was removed.
NilMapWrite(s) == s.request.debounce > 0 /\ debounce[s.id] = Nil

\* MUTANT of Visit: the loop does not move on to the next subscription.
VisitWithoutAdvance(p, s) == UNCHANGED <<matched, queue, pc, panicked>>

\* The bookkeeping of one iteration that does not panic.
Visit(p, s) ==
    /\ matched' = [matched EXCEPT ![p] = @ \ {s}]
    /\ IF matched[p] = {s}
       THEN AfterDispatch(p)
       ELSE UNCHANGED <<queue, pc>>
    /\ UNCHANGED panicked

\* One iteration of Dispatch's loop: ShouldFire, under the write lock, and the
\* start of the delivery goroutine.
FireOne(p, s) ==
    /\ pc[p] = "fire"
    /\ s \in matched[p]
    /\ LET ev == Head(queue[p])
       IN  \/ /\ Suppressed(s, ev)
              /\ Visit(p, s)
              /\ UNCHANGED <<debounce, handed>>
           \/ /\ ~Suppressed(s, ev)
              /\ ~NilMapWrite(s)
              /\ Visit(p, s)
              /\ debounce' = IF s.request.debounce > 0
                             THEN [debounce EXCEPT ![s.id][KeyOf(ev)] = now]
                             ELSE debounce
              /\ handed' = IF s.request.delivery = "webhook"
                           THEN [handed EXCEPT ![s.born][KeyOf(ev)] =
                                    HandOff(@, ev)]
                           ELSE handed
    /\ UNCHANGED <<prev, snapshot, written, recent, subs, seq, now, stamp,
                   mixed, balance>>

\* The write to a nil map panics.  Nothing recovers it in a collector
\* goroutine, so the daemon exits; net/http recovers it in a handler, which
\* abandons the subscriptions it had not visited yet.
PanicOnNilMap(p, s) ==
    /\ pc[p] = "fire"
    /\ s \in matched[p]
    /\ NilMapWrite(s)
    /\ panicked' = (p \in Writers)
    /\ pc' = [pc EXCEPT ![p] = IF p \in Writers THEN "dead" ELSE "idle"]
    /\ queue' = [queue EXCEPT ![p] = <<>>]
    /\ matched' = [matched EXCEPT ![p] = {}]
    /\ UNCHANGED <<prev, snapshot, written, recent, subs, debounce, seq, now,
                   stamp, handed, mixed, balance>>

\* handleCreateSub / Add: the id is taken without looking whether it is in use.
AddSubscription(r) ==
    /\ seq < MaxSubs
    /\ seq' = seq + 1
    /\ LET i == NewSubId(seq + 1)
       IN  /\ subs' = [subs EXCEPT ![i] =
                          [request |-> r, id |-> i, born |-> seq + 1]]
           /\ debounce' = [debounce EXCEPT ![i] = NeverFired]
    /\ UNCHANGED <<prev, snapshot, written, recent, now, pc, stamp, queue,
                   matched, panicked, handed, mixed, balance>>

\* handleDeleteSub / Remove; an unknown id changes nothing (404).
RemoveSubscription(i) ==
    /\ subs[i] # Nil
    /\ subs' = [subs EXCEPT ![i] = Nil]
    /\ debounce' = [debounce EXCEPT ![i] = Nil]
    /\ UNCHANGED <<prev, snapshot, written, recent, seq, now, pc, stamp, queue,
                   matched, panicked, handed, mixed, balance>>

Tick ==
    /\ now < MaxTime
    /\ now' = now + 1
    /\ UNCHANGED <<prev, snapshot, written, recent, subs, debounce, seq, pc,
                   stamp, queue, matched, panicked, handed, mixed, balance>>

ProcStep(p) ==
    \/ \E devs \in Batches(p) : Detect(p, devs)
    \/ UpdateSnapshot(p)
    \/ Record(p)
    \/ MatchSubscriptions(p)
    \/ \E s \in matched[p] : FireOne(p, s) \/ PanicOnNilMap(p, s)

Next ==
    /\ ~panicked
    /\ \/ \E p \in Writers : BeginWrite(p)
       \/ \E p \in IngestHandlers, e \in IngestedEvents : Ingest(p, e)
       \/ \E p \in Procs : ProcStep(p)
       \/ \E r \in SubRequests : AddSubscription(r)
       \/ \E i \in SubIds : RemoveSubscription(i)
       \/ Tick

Spec == Init /\ [][Next]_vars

\* Go runs every runnable goroutine and its mutexes are starvation-free, so a
\* goroutine inside Write or Dispatch takes its next step; npu collectors are
\* driven by a ticker and keep writing.
FairSpec ==
    /\ Spec
    /\ \A p \in Procs : WF_vars(~panicked /\ ProcStep(p))
    /\ \A p \in NpuCollectors : WF_vars(~panicked /\ BeginWrite(p))

-----------------------------------------------------------------------------
\* Properties.

NoticeRecord == [recovered : BOOLEAN, at : 0..MaxTime, flip : BOOLEAN]

\* The values every variable takes.
TypeOK ==
    /\ prev \in [Npus -> SUBSET EnabledRules]
    /\ snapshot \in [Npus -> Event \cup {Nil}]
    /\ written \in BOOLEAN
    /\ recent \in Seq(Event) /\ Len(recent) <= EventBuf
    /\ subs \in [SubIds -> Subscription \cup {Nil}]
    /\ debounce \in [SubIds -> [Key -> 0..MaxTime] \cup {Nil}]
    /\ seq \in 0..MaxSubs
    /\ now \in 1..MaxTime
    /\ pc \in [Procs -> {"idle", "detect", "update", "record", "match", "fire", "dead"}]
    /\ stamp \in [Procs -> Nat]
    /\ queue \in [Procs -> Seq(Event)]
    /\ matched \in [Procs -> SUBSET Subscription]
    /\ panicked \in BOOLEAN
    /\ handed \in [1..MaxSubs -> [Key -> NoticeRecord \cup {Nil}]]
    /\ mixed \subseteq Key
    /\ balance \in [Key -> Int]

\* Some goroutine still has an event of the fault k.
InHand(k) == \E p \in Procs : k \in InQueue(p)

\* The last event of k was the only one under way, and is handled: prev has had
\* the last word on k everywhere.
Settled(k) == k \notin mixed /\ ~InHand(k)

\* Whatever collectors, handlers and REST calls interleave, the fault the
\* snapshot shows for an NPU is one the detector holds active (storage.go:23),
\* unless two goroutines had events of that fault at once: their updates may
\* come in the other order, and the next event of the fault mends it.
SnapshotNotStale ==
    ~panicked =>
        \A n \in Npus :
            snapshot[n] # Nil /\ Settled(<<n, snapshot[n].type>>) =>
                snapshot[n].type \in prev[n]

\* No transition is lost or told twice (detector.go:31-34): between writes, each
\* fault has one fire more on record than recoveries if the detector holds it
\* active, and as many if not, however many collectors' batches have passed
\* through the one detector and in whatever order their goroutines ran.
EventsAddUp ==
    ~panicked /\ (\A p \in Writers : pc[p] \in {"idle", "detect"}) =>
        \A k \in Key : balance[k] = IF k[2] \in prev[k[1]] THEN 1 ELSE 0

\* Subscription filters that let both the fire and the recovery of every
\* fault they select through.
SeesBothWays(r) == r.debounce = 0 /\ r.minSeverity # "critical"

\* "The subscriber already knows" (detector.go:33): a webhook subscriber in the
\* table that filters neither time nor severities, once told of a fault, was
\* last told what the detector holds of it now, unless events of that fault are
\* under way, or two goroutines had some at once.
SubscribersKnow ==
    ~panicked =>
        \A i \in SubIds, k \in Key :
            LET s == subs[i]
            IN  /\ s # Nil /\ Settled(k)
                /\ SeesBothWays(s.request) /\ handed[s.born][k] # Nil
                => (handed[s.born][k].recovered <=> k[2] \notin prev[k[1]])

\* Two hand-offs of one (npu, type) to one subscription are at least its
\* debounce window apart, whichever goroutines dispatch them
\* (subscription.go:40-42).
DebounceSpacing ==
    [][\A p \in Procs : \A s \in matched[p] : \A k \in Key :
          /\ handed[s.born][k] # Nil
          /\ handed'[s.born][k] # handed[s.born][k]
          => now - handed[s.born][k].at >= s.request.debounce]_vars

\* Every Write and every ingestion ends: fan-out never blocks the collection
\* pipeline (dispatcher.go:57-58).
WriteCompletes ==
    \A p \in Procs : pc[p] # "idle" ~> (pc[p] = "idle" \/ panicked)
=============================================================================
