---- MODULE Collection ----
(***************************************************************************)
(* From the readings of a host to its health score: a collector under the  *)
(* gates of the metric catalog, the exporter's cache of the latest batch,  *)
(* and the global snapshot that scores the cache; in the daemon, and in    *)
(* the one-shot collect and health commands.                               *)
(*                                                                         *)
(* A behaviour observes one component.  Its start says which command runs, *)
(* from which yaml files, on which host.  Readings are kept for the        *)
(* metrics health scores and for the counters; of the others only whether  *)
(* they are in a batch.  JSONL files, taps and per-component snapshots,    *)
(* which come after the cache, are Pipeline's.                             *)
(***************************************************************************)
EXTENDS MetricCatalog, Collectors, HealthRules

CONSTANTS
    Starts,    \* the starts
    Readings,  \* name -> the values a reading moves among; increments for a counter
    Width,     \* counters live in 0..Width-1 and wrap
    MaxMoves,  \* how often readings move
    MaxFails   \* how often a read fails

ASSUME CollectionAssumption ==
    /\ Width \in Nat \ {0}
    /\ MaxMoves \in Nat
    /\ MaxFails \in Nat

\* How a metric of a component comes about.
KindOf(c, n) == Emitter[c][n].emits[n]
Growing == {"delta", "positive", "quiet", "event"}

\* A host reads what its component's collector emits, an NPU's readings off its
\* chips; counters are within their width and move up.
ASSUME StartsAssumption ==
    \A s \in Starts :
        /\ s.comp \in Components
        /\ DOMAIN s.files \subseteq Nat
        /\ IsFiniteSet(DOMAIN s.host) /\ IsFiniteSet(s.chips)
        /\ s.host \in [DOMAIN s.host -> Int]
        /\ \A k \in DOMAIN s.host :
              /\ k = <<k[1], k[2]>> /\ k[1] \in Names(s.comp)
              /\ s.comp = "npu" => k[2] \in s.chips /\ k[1] \notin DOMAIN collectStatic.emits
              /\ KindOf(s.comp, k[1]) \in Growing \cup {"gauge", "share", "share0"}
              /\ KindOf(s.comp, k[1]) \in Growing => s.host[k] \in 0..(Width - 1)
        /\ s.moving \subseteq DOMAIN s.host
        /\ \A k \in s.moving : Readings[k[1]] \subseteq
              IF KindOf(s.comp, k[1]) \in Growing THEN Nat ELSE Int
        /\ s.others \subseteq Components \ {s.comp}

VARIABLES
    start,  \* [command, comp, base, files, own, minPriority, host, chips, others, cards, flaky, moving]
    conf,   \* the catalog, scope, threshold and gate in force
    host,   \* what the host would read now, by <<name, label>>
    prev,   \* the counters' last readings, as the collector keys them
    read,   \* the steps that have a previous reading
    ran,    \* whether Collect has run
    blind,  \* whether the first Collect found no NPU device
    cache,  \* the exporter's latest batch
    shown,  \* the health part of the last snapshot, or of the command's output
    seen,   \* history: the readings at the last Collect and at the one before,
            \* and whether all their reads worked
    base,   \* history: the reading since which a counter's growth is reported
    tally,  \* history: the growth reported
    moves, fails

vars == <<start, conf, host, prev, read, ran, blind, cache, shown, seen, base, tally, moves, fails>>

None == [names |-> {}, val |-> << >>]
Unshown == [points |-> -1, total |-> -1, grade |-> "none", of |-> << >>]

comp == start.comp

StepOf(name) == Emitter[comp][name]
Kind(name) == KindOf(comp, name)
Counts(k) == Kind(k[1]) \in Growing
Counters == {k \in DOMAIN host : Counts(k)}

\* Readings of a device are labelled with <<card, chip>>, but the last count
\* of its errors is kept under the card alone.
EccKey(k) == <<k[1], k[2][1]>>

\* MUTANT: one count for all the cards.
SharedKey(k) == <<k[1], 0>>
CardKey(k) == EccKey(k)
PrevKey(k) == IF comp = "npu" THEN CardKey(k) ELSE k

---------------------------------------------------------------------------

Init ==
    /\ start \in Starts
    /\ conf = Configured(start.command, start.base, start.files, start.own, start.minPriority)
    /\ host = start.host
    /\ prev = [p \in {PrevKey(k) : k \in Counters} |-> 0]
    /\ read = {} /\ ran = FALSE /\ blind = FALSE
    /\ cache = None /\ shown = Unshown
    /\ seen = [now |-> host, before |-> host, clean |-> FALSE, settled |-> FALSE, first |-> FALSE]
    /\ base = [k \in Counters |-> 0] /\ tally = [k \in Counters |-> 0]
    /\ moves = 0 /\ fails = 0

\* A reading moves: a gauge anywhere among its values, a counter by an increment.
\* Counts from a log, and the 32-bit ones of a device, do not reach their end.
MayWrap(k) == comp /= "npu" /\ Kind(k[1]) /= "event"
Move(k) ==
    /\ moves < MaxMoves
    /\ \E r \in Readings[k[1]] :
          /\ host' = [host EXCEPT ![k] = IF Counts(k) THEN (@ + r) % Width ELSE r]
          /\ host' /= host
          /\ Counts(k) => host[k] + r < Width \/ MayWrap(k)
    /\ moves' = moves + 1
    /\ UNCHANGED <<start, conf, prev, read, ran, blind, cache, shown, seen, base, tally, fails>>

---------------------------------------------------------------------------
\* One Collect.  Devices are collected in parallel; order is the order in
\* which their goroutines reach the lock around the error counts.

\* MUTANT: what a gate costs is saved when any of its metrics is unwanted.
OpenIfAll(s) == \A g \in Gates(s) : \A n \in g : AnyWanted(conf, comp, {n})
Open(s) == \A g \in Gates(s) : AnyWanted(conf, comp, g)
NoDevices(failing) ==
    comp = "npu" /\ (blind \/ (~ran /\ "CardList" \in failing))
Due(failing) ==
    {s \in Steps[comp] : (s.once => ~ran) /\ Open(s) /\ ~NoDevices(failing)}

Aborted(failing) == \E s \in Due(failing) : s.fatal /\ s.src \in failing
Taken(failing) == IF Aborted(failing) THEN {} ELSE {s \in Due(failing) : s.src \notin failing}
Ids(steps) == {s.id : s \in steps}

\* The count a device's growth is measured against: that of a chip of the
\* same card which came to the lock before it, else the last one kept.
Before(k, order) ==
    LET place(chip) == CHOOSE i \in DOMAIN order : order[i] = chip
        ahead == {x \in Counters \ {k} : /\ comp = "npu" /\ PrevKey(x) = PrevKey(k)
                                         /\ place(x[2]) < place(k[2])}
        last == CHOOSE x \in ahead : \A y \in ahead : place(y[2]) <= place(x[2])
    IN  IF ahead = {} THEN prev[PrevKey(k)] ELSE host[last]

Present(k) == CASE Kind(k[1]) = "quiet" -> prev[k] > 0
                [] Kind(k[1]) = "event" -> host[k] > 0
                [] OTHER -> TRUE

Emitted(s, taken) ==
    {n \in DOMAIN s.emits :
        CASE s.emits[n] \in {"gauge", "share0", "positive"} -> TRUE
          [] s.emits[n] \in {"share", "delta"} -> s.id \in read
          [] s.emits[n] \in {"quiet", "event"} -> \E k \in Counters : k[1] = n /\ Present(k)
          [] s.emits[n] = "echo" -> collectIOPS.id \in read \cup Ids(taken)}

Value(k, order) ==
    LET s == StepOf(k[1])
        growth == (host[k] - Before(k, order)) % Width
    IN  CASE Kind(k[1]) \in {"gauge", "share"} -> host[k]
          [] Kind(k[1]) = "share0" -> IF s.id \in read THEN host[k] ELSE 0
          [] Kind(k[1]) = "delta" -> growth
          [] Kind(k[1]) \in {"positive", "quiet", "event"} -> IF Before(k, order) > 0 THEN growth ELSE 0

Batch(taken, order) ==
    LET names == Filter(conf, comp, UNION {Emitted(s, taken) : s \in taken})
    IN  [names |-> names,
         val |-> [k \in {x \in DOMAIN host : x[1] \in names /\ Present(x)} |-> Value(k, order)]]

\* What the collector remembers: the count of the last chip that came by.
Kept(p, taken, order) ==
    LET keys == {k \in Counters : PrevKey(k) = p /\ StepOf(k[1]) \in taken}
        place(k) == CHOOSE i \in DOMAIN order : order[i] = k[2]
        last == CHOOSE k \in keys : \A x \in keys \ {k} : place(x) < place(k)
    IN  IF keys = {} THEN prev[p] ELSE host[last]

Orders == IF comp = "npu" THEN SetToSeqs(start.chips) ELSE {<< >>}

Tally(taken, batch, order) ==
    LET first(k) == /\ StepOf(k[1]) \in taken
                    /\ IF Kind(k[1]) = "delta" THEN StepOf(k[1]).id \notin read
                                               ELSE prev[PrevKey(k)] = 0
    IN  /\ base' = [k \in Counters |-> IF first(k) THEN host[k] ELSE base[k]]
        /\ tally' = [k \in Counters |->
                        IF first(k) THEN 0
                        ELSE IF k \in DOMAIN batch.val THEN tally[k] + batch.val[k] ELSE tally[k]]

\* MUTANT: the cache is filled once and the metrics it has are kept.
StoredOnce(batch) == IF cache /= None \/ batch.names = {} THEN cache ELSE batch

\* The cache takes a batch whole; an empty one does not reach it, and what it
\* has of the component stays.
Stored(batch) == IF batch.names = {} THEN cache ELSE batch

Collect(failing, order) ==
    \E taken \in {Taken(failing)} : \E batch \in {Batch(taken, order)} :
        /\ prev' = [p \in DOMAIN prev |-> Kept(p, taken, order)]
        /\ read' = read \cup Ids(taken)
        /\ ran' = TRUE
        /\ blind' = NoDevices(failing)
        /\ cache' = Stored(batch)
        /\ Tally(taken, batch, order)
        /\ seen' = [now |-> host, before |-> seen.now,
                    clean |-> failing = {} /\ ~blind',
                    settled |-> ran /\ seen.clean /\ failing = {}, first |-> ~ran]

\* The scheduler's tick in the daemon, the one pass of a command otherwise.
Tick(failing) ==
    /\ start.command = "daemon" \/ ~ran
    /\ failing = {} \/ fails < MaxFails
    /\ fails' = IF failing = {} THEN fails ELSE fails + 1
    /\ \E order \in Orders : Collect(failing, order)
    /\ UNCHANGED <<start, conf, host, shown, moves>>

---------------------------------------------------------------------------
\* The evaluation.  The other components of the host report in full health.

Cards == IF comp = "npu"
         THEN npuCardCount(IF cache.names \subseteq DOMAIN collectStatic.emits \ {"chip_type"} THEN 0
                           ELSE Cardinality({c[1] : c \in start.chips}), Cardinality(start.chips))
         ELSE start.cards
Weights == Scheme("gpu" \in start.others \cup {comp}, "npu" \in start.others \cup {comp}, Cards)

Share(c) == IF c \in start.others THEN Weights[c] ELSE 0
Evaluate(v) ==
    LET others == Share("cpu") + Share("memory") + Share("disk") + Share("gpu") + Share("npu")
                  + Share("network") + Share("chassis")
    IN  {[points |-> p, total |-> p + others, grade |-> gradeForScore(p + others), of |-> v] :
            p \in Scores(comp, Weights[comp], v)}

\* The global writer on its interval, once the cache has something; the health
\* command at the end of its pass.
Publish ==
    /\ start.command \in {"daemon", "health"}
    /\ cache /= None
    /\ shown' \in Evaluate(cache.val)
    /\ UNCHANGED <<start, conf, host, prev, read, ran, blind, cache, seen, base, tally, moves, fails>>

Next == \/ \E k \in start.moving : Move(k)
        \/ \E failing \in {{}} \cup {{f} : f \in start.flaky} : Tick(failing)
        \/ Publish

Spec == Init /\ [][Next]_vars

\* Tickers keep firing; reads fail only finitely often.
FairSpec == Spec /\ WF_vars(Tick({})) /\ WF_vars(Publish)
---------------------------------------------------------------------------
\* Properties.

\* A feature asks for a metric it lists with enough priority or as static, when
\* all the enabled files that can be read also parse.
Asked(n) ==
    /\ \A i \in DOMAIN start.files : start.files[i].state /= "broken"
    /\ \E i \in DOMAIN start.files :
          LET entries == start.files[i].entries IN
          /\ <<comp, n>> \in DOMAIN entries
          /\ \/ entries[<<comp, n>>].static
             \/ priorityValue(entries[<<comp, n>>].priority) >= priorityValue(start.minPriority)

\* The lists in the code mention the metric wherever they guard it.
InItsGates(n) == start.command = "health" \/ \A g \in Gates(StepOf(n)) : n \in g

\* The last Collect could emit the metric: statics come with the first one,
\* growth and shares need a reading before.
Ready(n) ==
    /\ StepOf(n).once => seen.first
    /\ Kind(n) \in {"share", "delta"} => seen.settled
    /\ Kind(n) \notin {"echo", "quiet", "event"}

\* Whatever an enabled feature asks for is in the batch of every Collect whose
\* reads worked: no other feature's lower priority, no default, missing file or
\* gate takes it away.  main.go loads features' files to this end; merging, scope,
\* gates and filter must agree.
FeatureGetsItsMetrics ==
    seen.clean => \A s \in Steps[comp] : \A n \in DOMAIN s.emits :
        Asked(n) /\ InItsGates(n) /\ Ready(n) => n \in cache.names

OneChipPerCard == comp = "npu" => \A x, y \in start.chips : x[1] = y[1] => x = y

\* Growth is reported once: across failed reads, wrapped counters and devices
\* collected in any order, the values reported for a counter add up to how much
\* it grew since its first (for some counters, first positive) reading, up to
\* whole turns of a counter.  Cards with two chips are excluded: their counts
\* overwrite each other.
DeltasAddUp ==
    OneChipPerCard => \A k \in Counters :
        Selected(conf, <<comp, k[1]>>) => tally[k] % Width = (prev[PrevKey(k)] - base[k]) % Width

\* The percentages of a component's rules never exceed its weight, so that a
\* charge is never lost at the floor of zero, and the weights of a host without
\* both kinds of accelerator never exceed a hundred points.
BudgetsAddUp ==
    /\ cache /= None => \A first \in FirstCorrected(comp, cache.val) :
                           Lost(comp, cache.val, first) <= 100 * Parts(cache.val)
    /\ {"gpu", "npu"} \subseteq start.others \cup {comp} \/ shown.total <= 100

\* The collector's view of the host at its last two Collects: gauges now,
\* counters by their growth, which the first positive reading does not count
\* for.  The number of cores is only in the first batch.
Truth ==
    [k \in {x \in DOMAIN host : ~StepOf(x[1]).once} |->
        IF ~Counts(k) THEN seen.now[k]
        ELSE IF Kind(k[1]) /= "delta" /\ seen.before[k] = 0 THEN 0
        ELSE (seen.now[k] - seen.before[k]) % Width]

\* Features ask for all the readings and for some metric of every list that
\* gates one of them, and some reading comes with every batch.
HealthIsAsked ==
    /\ \A k \in DOMAIN host : Asked(k[1]) /\ \A g \in Gates(StepOf(k[1])) : \E n \in g : Asked(n)
    /\ \E k \in DOMAIN host : Kind(k[1]) = "gauge" /\ ~StepOf(k[1]).once

\* What the daemon publishes is the score of the host as last read, when a
\* feature asks for what health reads: no input is gated away, filtered out or
\* taken from another moment on the way from collector to cache to score.
ScoreSeesTheHost ==
    [][ shown' /= shown /\ start.command = "daemon" /\ seen.settled /\ HealthIsAsked /\ OneChipPerCard
        => \E v \in {Truth} : shown'.points \in Scores(comp, Weights[comp], v) ]_vars

\* Of a smart status, or a known number of cores, less is worse.
Worse(k, old, new) ==
    IF k[1] \in {"smart_status", "core_num", "online_core_num"}
    THEN new <= old /\ (new > 0 \/ k[1] = "smart_status")
    ELSE new >= old

\* A host on which every reading is as bad or worse does not score better, as
\* long as one source at most reports corrected errors: of several the score
\* takes any.
WorseNeverScoresBetter ==
    [][ LET old == shown.of  new == shown'.of
            sources(v) == {k \in DOMAIN v : k[1] \in {"cpu_ce_errors", "ecc_ce_errors"} /\ v[k] > 0}
        IN  /\ shown /= Unshown /\ DOMAIN old = DOMAIN new /\ DOMAIN old /= {}
            /\ \A k \in DOMAIN old : Worse(k, old[k], new[k])
            /\ Cardinality(sources(old)) <= 1 /\ Cardinality(sources(new)) <= 1
            => shown'.points <= shown.points ]_vars

AtRest == [k \in {x \in DOMAIN host : ~StepOf(x[1]).once} |-> IF Counts(k) THEN 0 ELSE host[k]]

\* Once readings stand still and reads work, the published score becomes that
\* of the host and stays it: nothing stale is left in the cache.
ScoreConverges ==
    <>[]( start.command = "daemon" /\ HealthIsAsked /\ OneChipPerCard /\ ~blind
          => \E v \in {AtRest} : shown.points \in Scores(comp, Weights[comp], v) )
====
