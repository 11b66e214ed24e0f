-------------------------------- MODULE Dfee --------------------------------
(***************************************************************************)
(* The dfee server (features/dfee/handler.go): concurrent requests read    *)
(* the snapshot files the daemon replaces, and share the counters of the   *)
(* previous request.  The mutex is held for each of the four accesses to   *)
(* that state, not from a read to the write that depends on it.            *)
(***************************************************************************)
EXTENDS DfeeExporter, TLC

CONSTANTS Clients,
          Files,        \* contents a component's snapshot file may have
          MaxRewrites   \* bound: files replaced

Components == DOMAIN Files

\* The files at one moment: which content each component's file has, 0 for
\* none yet.  A view is what a request finds in them.
Contents(c) == {0} \cup DOMAIN Files[c]
Moments == {f \in [Components -> UNION {Contents(c) : c \in Components}] :
               \A c \in Components : f[c] \in Contents(c)}

\* readSnapshotDir and the filter: what a request makes of the files.
ViewOf(f) ==
    LET all == UNION {Files[c][f[c]] : c \in {d \in Components : f[d] # 0}}
        ms == FilterEfficiency(all)
    IN  [all |-> all, cpu |-> CPUTimes(ms), net |-> NetTotals(ms),
         rest |-> {m \in ms : ~IsCPUTimeMetric(m)}]
View == [f \in Moments |-> ViewOf(f)]

Metrics == UNION {UNION Range(Files[c]) : c \in Components}

\* Whatever the files hold, jiffies and bytes are counted from 0.
Counters == [Modes -> Nat]

ASSUME DfeeAssumption ==
    /\ MaxRewrites \in Nat
    /\ View \in [Moments -> [all : SUBSET Metrics, rest : SUBSET Metrics,
                            cpu : Counters \cup {None}, net : {ViewOf(f).net : f \in Moments}]]
    /\ \A f \in Moments : View[f].net \in [DOMAIN View[f].net -> Nat]

-----------------------------------------------------------------------------
\* What the collectors write: the labels that tell the metrics of one name
\* apart, and which metrics the server shows or exports.
Telling(m) ==
    CASE m.comp = "npu" -> {"npu_id", "chip_id"}
      [] m.comp = "network" -> {"interface"}
      [] m.comp = "disk" -> IF m.name \in {"throughput", "iops"}
                            THEN {"device", "direction"} ELSE {"device"}
      [] m.comp = "memory" -> {"field"}
      [] m.comp = "cpu" /\ IsCPUTimeMetric(m) -> {"core"}
      [] m.comp = "cpu" /\ m.name = "load_average" -> {"interval"}
      [] m.comp = "cpu" /\ m.name = "power" -> {"cpu"}
      [] m.comp = "chassis" /\ m.name = "fan_speed" -> {"fan", "direction"}
      [] m.comp = "chassis" /\ m.name = "fan_power" -> {"fan"}
      [] OTHER -> {}

AllLabels == {"npu_id", "chip_id", "interface", "device", "fan", "field",
              "interval", "cpu", "direction", "core"}

Used(m) == PromSample(m) # <<>> \/ \E cg \in ChartGroups : Shown({m}, cg) # {}

\* A metric that is used has its labels, each name is collected once for given
\* ones, no device is called like a metric, and a disk has all its counters.
ASSUME FilesAssumption ==
    \A f \in Moments : LET ms == View[f].all IN
        /\ IsFiniteSet(ms)
        /\ \A m \in ms : Used(m) =>
              /\ DOMAIN m.labels \cap AllLabels = Telling(m)
              /\ \A key \in Telling(m) : m.labels[key] \notin
                    {"usage_detail", "swap_detail", "load_average", "power"}
              /\ \A n \in ms :
                    /\ n.comp = m.comp /\ n.name = m.name
                    /\ \A key \in Telling(m) : n.labels[key] = m.labels[key]
                    => n = m
              /\ m.comp = "disk" /\ m.name \in DiskCounters =>
                    \A c \in DiskCounters : \E n \in ms :
                        /\ n.comp = "disk" /\ n.name = c
                        /\ n.labels["device"] = m.labels["device"]

VARIABLES file,      \* the snapshot files
          ready,     \* the global snapshot has been written
          h,         \* the Handler
          req,       \* the request of each client
          answer,    \* the answer this step gave
          rewrites,
          moved,     \* the last total of each interface, and the bytes it has
                     \* moved since it was first in a snapshot
          reported,  \* bytes reported for it, over all answers
          overlap,   \* two requests were under way at the same time
          charted    \* an answer has shown CPU shares

vars == <<file, ready, h, req, answer, rewrites, moved, reported, overlap, charted>>

\* A missing entry of a partial function over series counts as 0.
At(f, id) == IF id \in DOMAIN f THEN f[id] ELSE 0
Plus(f, g) == [id \in DOMAIN f \cup DOMAIN g |-> At(f, id) + At(g, id)]

Idle == [at |-> "idle"]
NoAnswer == [util |-> None, due |-> FALSE, seen |-> None, page |-> None]

\* The metrics the charts of an answer are made of: those of the snapshot
\* without the raw CPU times, and the derived shares of the whole machine.
Series(a) ==
    IF a.seen = None THEN {}
    ELSE View[a.seen].rest \cup
         IF a.util = None THEN {}
         ELSE {[comp |-> "cpu", name |-> n, labels |-> [core |-> "total"],
                value |-> a.util[n]] : n \in UtilNames}

\* The server starts beside a daemon that may have run for long.
Init ==
    /\ file \in Moments
    /\ ready \in BOOLEAN
    /\ h = [prevCPU |-> None, lastDerived |-> None, prevNet |-> <<>>]
    /\ req = [c \in Clients |-> Idle]
    /\ answer = NoAnswer
    /\ rewrites = 0
    /\ moved = [id \in DOMAIN View[file].net |->
                  [last |-> View[file].net[id], bytes |-> 0]]
    /\ reported = <<>>
    /\ overlap = FALSE
    /\ charted = FALSE

-----------------------------------------------------------------------------
\* The daemon renames a new file into place; counters grow or start again.
Rewrite(comp) ==
    /\ rewrites < MaxRewrites
    /\ rewrites' = rewrites + 1
    /\ \E v \in DOMAIN Files[comp] \ {file[comp]} :
          LET net == View[file'].net
              Moved(id) == IF id \notin DOMAIN moved THEN 0
                           ELSE IF net[id] < moved[id].last THEN net[id]
                           ELSE net[id] - moved[id].last
          IN  /\ file' = [file EXCEPT ![comp] = v]
              /\ moved' = [id \in DOMAIN moved \cup DOMAIN net |->
                             IF id \in DOMAIN net
                             THEN [last |-> net[id],
                                   bytes |-> Moved(id) + IF id \in DOMAIN moved
                                                         THEN moved[id].bytes ELSE 0]
                             ELSE moved[id]]
    /\ answer' = NoAnswer
    /\ UNCHANGED <<ready, h, req, reported, overlap, charted>>

GlobalWritten ==
    /\ ~ready
    /\ ready' = TRUE
    /\ UNCHANGED <<file, h, req, answer, rewrites, moved, reported, overlap, charted>>

\* handleAPI reads the files; without the global one it answers 503.
Request(c) ==
    /\ req[c] = Idle
    /\ ready
    /\ req' = [req EXCEPT ![c] = [at |-> "cpu", seen |-> file, util |-> None,
                                  due |-> FALSE, prevNet |-> <<>>]]
    /\ overlap' = (overlap \/ \E d \in Clients : req[d] # Idle)
    /\ answer' = NoAnswer
    /\ UNCHANGED <<file, ready, h, rewrites, moved, reported, charted>>

\* The shares a request shows: derived, or the cached ones if nothing moved.
Derive(prev, curr, cached) ==
    IF prev = None \/ curr = None THEN None
    ELSE LET derived == DeriveCPUUtil(prev, curr)
         IN  IF derived # None THEN derived ELSE cached

\* The counters are swapped in one critical section; freshly derived shares
\* go to the cache in a second one.
SwapCPU(c) ==
    LET curr == View[req[c].seen].cpu
        both == curr # None /\ h.prevCPU # None
        fresh == Derive(h.prevCPU, curr, None) # None
    IN  /\ req[c].at = "cpu"
        /\ h' = [h EXCEPT !.prevCPU = curr]
        /\ req' = [req EXCEPT ![c].at = IF fresh THEN "cache" ELSE "net",
                              ![c].util = Derive(h.prevCPU, curr, h.lastDerived),
                              ![c].due = both /\ charted]
        /\ answer' = NoAnswer
        /\ UNCHANGED <<file, ready, rewrites, moved, reported, overlap, charted>>

\* MUTANT of CacheDerived: the shares are shown, but not kept.
CacheDerivedSkipped(c) ==
    /\ req[c].at = "cache"
    /\ req' = [req EXCEPT ![c].at = "net"]
    /\ answer' = NoAnswer
    /\ UNCHANGED <<file, ready, h, rewrites, moved, reported, overlap, charted>>

CacheDerived(c) ==
    /\ req[c].at = "cache"
    /\ h' = [h EXCEPT !.lastDerived = req[c].util]
    /\ req' = [req EXCEPT ![c].at = "net"]
    /\ answer' = NoAnswer
    /\ UNCHANGED <<file, ready, rewrites, moved, reported, overlap, charted>>

ReadNet(c) ==
    /\ req[c].at = "net"
    /\ req' = [req EXCEPT ![c].at = "answer", ![c].prevNet = h.prevNet]
    /\ answer' = NoAnswer
    /\ UNCHANGED <<file, ready, h, rewrites, moved, reported, overlap, charted>>

\* The network deltas and the answer.
Answer(c) ==
    LET r == req[c]
        totals == View[r.seen].net
    IN  /\ r.at = "answer"
        /\ h' = [h EXCEPT !.prevNet = totals]
        /\ answer' = [NoAnswer EXCEPT !.util = r.util, !.due = r.due,
                                         !.seen = r.seen]
        /\ reported' = Plus(reported, NetDeltas(totals, r.prevNet))
        /\ charted' = (charted \/ r.util # None)
        /\ req' = [req EXCEPT ![c] = Idle]
        /\ UNCHANGED <<file, ready, rewrites, moved, overlap>>

\* ServeHTTP: the page is made of the files as they are; nothing is kept, so
\* it is enough to scrape when no request is under way.
Scrape ==
    /\ \A c \in Clients : req[c] = Idle
    /\ answer' = [NoAnswer EXCEPT !.page = file]
    /\ UNCHANGED <<file, ready, h, req, rewrites, moved, reported, overlap, charted>>

Next ==
    \/ Scrape
    \/ \E comp \in Components : Rewrite(comp)
    \/ GlobalWritten
    \/ \E c \in Clients : Request(c) \/ SwapCPU(c) \/ CacheDerived(c)
                             \/ ReadNet(c) \/ Answer(c)

Spec == Init /\ [][Next]_vars

-----------------------------------------------------------------------------
\* Bytes are reported once at most: as long as requests do not overlap, what
\* all answers together reported of an interface is at most what it moved,
\* through resets, interfaces that come and go, and any number of clients
\* (deriveNetworkDelta and the two critical sections around it).
NothingCountedTwice ==
    ~overlap => \A id \in DOMAIN reported : reported[id] <= moved[id].bytes

\* The shares split the whole: idle and busy add up to all jiffies, and so do
\* the parts of the busy time, even when a counter went back (deriveCPUUtil).
SharesSplitTheWhole ==
    answer.util # None =>
        LET u == answer.util
        IN  /\ u.total > 0
            /\ u.idle_util + u.non_idle_util = u.total
            /\ u.user_util + u.system_util + u.iowait_util + u.irq_util
                  + u.steal_util = u.non_idle_util

\* No gap in the CPU chart (cpu_derive.go:73): once an answer has shown shares
\* to anyone, a request that finds all counters after one that did shows shares
\* too, however many clients poll within one refresh of the snapshot and however
\* their swaps of the counters and of the cached shares interleave.
NoChartGap == answer.due => answer.util # None

\* The front end keeps one buffer per series id: no two series of an answer
\* that a chart shows one by one have the same id, and none is on two charts.
SeriesKeptApart ==
    LET series == Series(answer)
        Charts(m) == {cg \in ChartGroups : ~cg.avg /\ Shown({m}, cg) # {}}
        plotted == {m \in series : Charts(m) # {}}
    IN  /\ Cardinality({SeriesId(m) : m \in plotted}) = Cardinality(plotted)
        /\ \A m \in plotted : Cardinality(Charts(m)) = 1

\* A scrape with two samples of one name and label set is refused as a whole:
\* the page has every sample once, and every counter of every disk the kernel
\* knows, from the snapshot or from the kernel (supplementDiskStats).  The power
\* of the fans is the exception: mapChassis drops the label that tells them apart.
PageHasEachSampleOnce ==
    answer.page # None =>
        LET ms == View[answer.page].all
        IN  /\ \A sample \in Page(ms) \ {<<"chassis", "fan_power">>} :
                   Occurrences(ms, sample) = 1
            /\ \A n \in DiskCounters, dev \in KernelDevices :
                   <<"disk", n, dev>> \in Page(ms)
=============================================================================
