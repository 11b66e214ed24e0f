----------------------------- MODULE Pipeline -----------------------------
(***************************************************************************)
(* The daemon's data path: the scheduler's collector goroutines            *)
(* (internal/collector), the storage chain every batch goes through (JSONL *)
(* files of internal/storage, the tap of features/stragglerout, the        *)
(* per-component snapshots), and the order in which runDaemon starts and   *)
(* stops them.                                                             *)
(*                                                                         *)
(* A batch is the number of the collection it comes from and its lines:    *)
(* "static" for the identity metrics a collector emits once, "reading" for *)
(* the rest.  What the fault-subscription wrapper does with a batch is     *)
(* FaultSub's; here it only passes it on.  The exporter's cache, which      *)
(* nobody here reads, is Collection's.                                     *)
(***************************************************************************)
EXTENDS Naturals, Sequences, FiniteSets, SequencesExt, DeviceKeys

CONSTANTS Comps,        \* the collectors, each for the component of its name
          Npu,          \* the one of the NPU
          KpiComps,     \* components whose batches hold straggler KPIs
          Views,        \* sets of NPU readings a collection may give
          HistoryCap,   \* points a trend keeps
          MaxCollects,  \* bound: batches of each collector
          MaxFailures,  \* bound: file operations that fail
          None

ASSUME PipelineAssumption ==
    /\ IsFiniteSet(Comps) /\ Comps \cap {"shutdown", "buffer", "kpi"} = {}
    /\ Npu \in KpiComps /\ KpiComps \subseteq Comps
    /\ IsFiniteSet(UNION Views)
    /\ UNION Views \subseteq Readings
    /\ HistoryCap \in Nat \ {0}
    /\ MaxCollects \in [Comps -> Nat] /\ MaxFailures \in Nat

Flushers == Comps \cup {"shutdown"}

VARIABLES
    config,    \* enabled collectors, and which wrappers are configured
    pc,        \* where each writer is in its cycle, and the goroutine that
               \* flushes the straggler's buffer at the shutdown
    batch,     \* the batch it is storing
    err,       \* whether the call below it in the chain failed
    seq,       \* batches it collected
    jsonl,     \* the lines of each component's files
    buffer,    \* StragglerStorage.buffer
    flushed,   \* lastFlush is set
    maxChip,   \* KPIMapper.maxChip
    pending,   \* what each flusher took out of the buffer and has to append
    kpi,       \* the straggler KPI file
    stash,     \* compState.staticStash: the batch the statics came with, or 0
    hist,      \* compState.hist
    compFile,  \* snapshot_<component>.json
    wg,        \* Scheduler.wg
    main,      \* runDaemon: "run", "stopping", "closed", "exited"
    failures,
    refused,   \* history: the batches a file write failed on
    lost,      \* history: the samples an Append failed on
    widest     \* history: a chip of the last slot of all has been seen

straggler == <<buffer, flushed, maxChip, pending, kpi, lost, widest>>
snapshots == <<stash, hist, compFile>>
daemon == <<config, wg, main>>
vars == <<daemon, pc, batch, err, seq, jsonl, straggler, snapshots,
          failures, refused>>

NoBatch == [n |-> 0, lines |-> <<>>]

\* The daemon may be configured with any of the wrappers.  The straggler tap
\* is built around the cache, then the fault tap is built around the cache
\* too, which takes the straggler out of the chain.
Configs == [enabled : SUBSET Comps \ {{}}, straggler : BOOLEAN,
            faultsub : BOOLEAN, snapshot : BOOLEAN]

Tapped == config.straggler /\ ~config.faultsub

\* FaultStorage and StragglerStorage log an inner error, the others return it.
Swallows == config.straggler \/ config.faultsub

\* MUTANT of Started: the group also counts the collectors it skips.
StartedAll(enabled) == Cardinality(Comps)

\* Start: one goroutine for each enabled collector, counted before it runs.
Started(enabled) == Cardinality(enabled)

Init ==
    /\ config \in Configs
    /\ pc = [w \in Flushers |->
               CASE w \in config.enabled -> "start"
                 [] w = "shutdown" /\ config.straggler -> "armed"
                 [] OTHER -> "off"]
    /\ batch = [w \in Comps |-> NoBatch]
    /\ err = [w \in Comps |-> FALSE]
    /\ seq = [w \in Comps |-> 0]
    /\ jsonl = [w \in Comps |-> <<>>]
    /\ buffer = <<>> /\ flushed = FALSE /\ maxChip = -1 /\ widest = FALSE
    /\ pending = [w \in Flushers |-> <<>>]
    /\ kpi = <<>>
    /\ stash = [w \in Comps |-> 0]
    /\ hist = [w \in Comps |-> <<>>]
    /\ compFile = [w \in Comps |-> None]
    /\ wg = Started(config.enabled)
    /\ main = "run"
    /\ failures = 0 /\ refused = {} /\ lost = {}

Goto(w, l) == pc' = [pc EXCEPT ![w] = l]

\* A file operation succeeds, or it fails.
Outcome(ok) ==
    /\ ok \/ failures < MaxFailures
    /\ failures' = IF ok THEN failures ELSE failures + 1

-----------------------------------------------------------------------------
(* The scheduler.                                                          *)

\* A collector collects when it starts and when its ticker fires; the select
\* may take the tick although the context was cancelled.  Collect fails, or
\* the filter leaves nothing.
NothingCollected(w) ==
    /\ pc[w] = "start"
    /\ Goto(w, "wait")
    /\ UNCHANGED <<daemon, batch, err, seq, jsonl, straggler, snapshots,
                   failures, refused>>

\* Collect and filter give a batch: the statics only while the collector has
\* not emitted them.
Collect(w) ==
    /\ pc[w] \in {"start", "wait"}
    /\ seq[w] < MaxCollects[w]
    /\ seq' = [seq EXCEPT ![w] = @ + 1]
    /\ batch' = [batch EXCEPT ![w] =
           [n |-> seq[w] + 1,
            lines |-> IF seq[w] = 0 THEN <<"static", "reading">> ELSE <<"reading">>]]
    /\ Goto(w, "jsonl")
    /\ UNCHANGED <<daemon, err, jsonl, straggler, snapshots, failures, refused>>

\* ctx.Done() is taken: a collector leaves the wait group.
Leave(w) ==
    /\ pc[w] = "wait"
    /\ main # "run"
    /\ Goto(w, "done")
    /\ wg' = wg - 1
    /\ UNCHANGED <<config, main, batch, err, seq, jsonl, straggler,
                   snapshots, failures, refused>>

-----------------------------------------------------------------------------
(* The storage chain, from the inside out.                                 *)

\* The lines of the batch as JSONLStorage.Write leaves them in the file: all,
\* or those before the first that cannot be opened or written.
Line(w, k) == [n |-> batch[w].n, kind |-> batch[w].lines[k]]

\* JSONLStorage.Write, under its lock.
WriteJSONL(w) ==
    /\ pc[w] = "jsonl"
    /\ \E k \in 0..Len(batch[w].lines) :
          LET ok == k = Len(batch[w].lines)
          IN  /\ Outcome(ok)
              /\ jsonl' = [jsonl EXCEPT ![w] = @ \o [i \in 1..k |-> Line(w, i)]]
              /\ err' = [err EXCEPT ![w] = ~ok /\ ~Swallows]
              /\ refused' = IF ok THEN refused ELSE refused \cup {<<w, batch[w].n>>}
    /\ Goto(w, IF Tapped /\ w \in KpiComps THEN "extract" ELSE "snap")
    /\ UNCHANGED <<daemon, batch, seq, straggler, snapshots>>

AllReadings == UNION Views

\* Extract: a KPI sample of what the NPU collector read, keyed with the stride
\* known by now; a sample of the CPU names no device.
Sample(w, readings) ==
    /\ maxChip' = Widest(maxChip, readings)
    /\ widest' = (widest \/ \E r \in readings : \A q \in AllReadings : q.chip <= r.chip)
    /\ buffer' = Append(buffer, [comp |-> w, n |-> batch[w].n, sure |-> widest',
                                 keys |-> Keyed(maxChip, readings)])

\* StragglerStorage.Write after the inner Write: the sample joins the buffer
\* under the lock; with no flush yet, or the last long enough ago, it is due.
Extract(w) ==
    /\ pc[w] = "extract"
    /\ \E readings \in IF w = Npu THEN Views ELSE {{}} : Sample(w, readings)
    /\ \/ Goto(w, "flush")
       \/ flushed /\ Goto(w, "snap")
    /\ UNCHANGED <<daemon, batch, err, seq, jsonl, flushed, pending, kpi,
                   lost, snapshots, failures, refused>>

\* MUTANT of Take: the buffer is handed out and not cleared.
TakeKeeps(w) ==
    /\ pending' = [pending EXCEPT ![w] = buffer]
    /\ flushed' = TRUE
    /\ UNCHANGED buffer

\* Flush takes the buffer, under the lock.
Take(w) ==
    /\ pending' = [pending EXCEPT ![w] = buffer]
    /\ buffer' = <<>>
    /\ flushed' = TRUE

\* KPIWriter.Append for the next sample taken; a failed one is only logged.
AppendSample(w) ==
    /\ pending[w] # <<>>
    /\ pending' = [pending EXCEPT ![w] = Tail(@)]
    /\ \E ok \in BOOLEAN :
          /\ Outcome(ok)
          /\ kpi' = IF ok THEN Append(kpi, Head(pending[w])) ELSE kpi
          /\ lost' = IF ok THEN lost ELSE lost \cup {Head(pending[w])}
    /\ UNCHANGED <<buffer, flushed, maxChip, widest>>

\* Flush, for the tap of writer w or for the goroutine of the shutdown.
Flush(w) ==
    /\ \/ /\ pc[w] = "flush" \/ (pc[w] = "armed" /\ main # "run")
          /\ Take(w)
          /\ Goto(w, "append")
          /\ UNCHANGED <<maxChip, kpi, lost, widest, failures>>
       \/ /\ pc[w] = "append"
          /\ AppendSample(w)
          /\ UNCHANGED pc
       \/ /\ pc[w] = "append" /\ pending[w] = <<>>
          /\ Goto(w, IF w = "shutdown" THEN "done" ELSE "snap")
          /\ UNCHANGED <<straggler, failures>>
    /\ UNCHANGED <<daemon, batch, err, seq, jsonl, snapshots, refused>>

-----------------------------------------------------------------------------
(* The snapshot files.                                                     *)

HasStatic(b) == \E k \in DOMAIN b.lines : b.lines[k] = "static"

\* MUTANT of Stashed: the stash is replaced by every batch.
StashedAlways(w) == IF HasStatic(batch[w]) THEN batch[w].n ELSE 0

\* The stash is replaced only by a batch that has statics.
Stashed(w) == IF HasStatic(batch[w]) THEN batch[w].n ELSE stash[w]

\* History.Update: one more point, the oldest beyond the capacity goes.
Trend(h, n) ==
    LET longer == Append(h, n)
    IN  IF Len(longer) > HistoryCap THEN Tail(longer) ELSE longer

\* MUTANT of StopsHere: the inner error does not stop the snapshot.
StopsNever(w) == ~config.snapshot

\* No snapshots are configured, or the chain below returned an error.
StopsHere(w) == ~config.snapshot \/ err[w]

\* The rest of PerCompWriter.Write: the component's state, under the lock,
\* then the file, whose failure is only logged.  Only this goroutine and the
\* readers of the file see either.
WriteSnapshot(w) ==
    /\ pc[w] = "snap"
    /\ Goto(w, "wait")
    /\ \/ /\ StopsHere(w)
          /\ UNCHANGED <<snapshots, failures>>
       \/ /\ ~StopsHere(w)
          /\ stash' = [stash EXCEPT ![w] = Stashed(w)]
          /\ hist' = [hist EXCEPT ![w] = Trend(@, batch[w].n)]
          /\ \E ok \in BOOLEAN :
                /\ Outcome(ok)
                /\ compFile' = IF ok THEN [compFile EXCEPT ![w] =
                       [n |-> batch[w].n, static |-> stash'[w], hist |-> hist'[w]]]
                   ELSE compFile
    /\ UNCHANGED <<daemon, batch, err, seq, jsonl, straggler, refused>>

-----------------------------------------------------------------------------
(* The shutdown.                                                           *)

\* The signal: cancel wakes everyone, the goroutine of the last flush too,
\* for which nobody waits, and main goes on to Scheduler.Stop.
Cancel ==
    /\ main = "run"
    /\ main' = "stopping"
    /\ UNCHANGED <<config, wg, pc, batch, err, seq, jsonl, straggler,
                   snapshots, failures, refused>>

\* MUTANT of Stopped: Stop only cancels.
StoppedAtOnce == TRUE

\* wg.Wait has returned.
Stopped == wg = 0

\* Stop returns; the deferred Close closes the files, then the process ends
\* with every goroutine still in it.
CloseStore ==
    /\ main = "stopping" /\ Stopped
    /\ main' = "closed"
    /\ UNCHANGED <<config, wg, pc, batch, err, seq, jsonl, straggler,
                   snapshots, failures, refused>>

Exit ==
    /\ main = "closed"
    /\ main' = "exited"
    /\ UNCHANGED <<config, wg, pc, batch, err, seq, jsonl, straggler,
                   snapshots, failures, refused>>

-----------------------------------------------------------------------------
Write(w) == WriteJSONL(w) \/ Extract(w) \/ Flush(w) \/ WriteSnapshot(w)

\* A process that has exited takes no step.
Next ==
    \/ /\ main # "exited"
       /\ \/ \E w \in Comps : NothingCollected(w) \/ Collect(w) \/ Write(w) \/ Leave(w)
          \/ Flush("shutdown")
    \/ Cancel \/ CloseStore \/ Exit

Spec == Init /\ [][Next]_vars

\* A collection and the calls of the chain return; a goroutine that waits
\* finds both its ticker and ctx.Done() ready again and again, and the select
\* picks among them at random, so it leaves; main goes on.  The signal and
\* the ticks need not come.
Fairness ==
    /\ \A w \in Comps :
          /\ WF_vars(main # "exited" /\ (NothingCollected(w) \/ Write(w)))
          /\ SF_vars(main # "exited" /\ Leave(w))
    /\ WF_vars(CloseStore) /\ WF_vars(Exit)

FairSpec == Spec /\ Fairness

-----------------------------------------------------------------------------
Lines(w, n) == {jsonl[w][i].kind : i \in {j \in DOMAIN jsonl[w] : jsonl[w][j].n = n}}

\* The batch's last line is in the file.
Whole(w, n) == "reading" \in Lines(w, n)

\* Where a sample can be: in the buffer, in the hands of a flusher, in the file.
Places == Flushers \cup {"buffer", "kpi"}

Held == [p \in Places |-> CASE p = "buffer" -> buffer
                             [] p = "kpi" -> kpi
                             [] OTHER -> pending[p]]

Kept == UNION {ToSet(Held[p]) : p \in Places}

\* The batch a sample is of.
Id(s) == <<s.comp, s.n>>

\* The batches of a collector the straggler tap has been through.
Through(w) == IF pc[w] \in {"jsonl", "extract"} THEN seq[w] - 1 ELSE seq[w]

Extracted ==
    UNION {{<<w, n>> : n \in 1..Through(w)} : w \in IF Tapped THEN KpiComps ELSE {}}

\* Whoever flushes while others collect, and whatever Append fails on: the
\* sample of a batch is in the buffer, with one flusher, or in the KPI file,
\* once, or the one Append that had it failed; none is lost in between.
SampleInOnePlace ==
    /\ \A p, q \in Places : \A i \in DOMAIN Held[p], j \in DOMAIN Held[q] :
          Id(Held[p][i]) = Id(Held[q][j]) => p = q /\ i = j
    /\ \A s \in Kept, t \in lost : Id(s) # Id(t)
    /\ {Id(s) : s \in Kept \cup lost} = Extracted

\* Once a chip of the last slot has been seen, a key means the same chip in
\* every sample, whichever cards drop out later, and no two chips share one
\* (stragglerout_SPEC.md:26-27); so do the keys of readings of whole cards, and
\* those of labelled devices, each among themselves.  A whole card's key may
\* be the key of a chip of another card (stragglerout_SPEC.md:28).
KeysStable ==
    \A s, t \in {u \in Kept \cup lost : u.sure} :
        \A k \in s.keys, l \in t.keys :
            Level(k[2]) = Level(l[2])
                => (k[1] = l[1] <=> Subject(k[2]) = Subject(l[2]))

\* The statics a collector emits once are in every snapshot of its component,
\* if the batch they came with was stored (comp.go:78-82).
StaticsSurvive ==
    \A w \in Comps :
        compFile[w] # None /\ Lines(w, 1) = {"static", "reading"}
            => compFile[w].static = 1

\* Without a wrapper that swallows errors, a snapshot file never shows a
\* batch the JSONL file does not hold to its last line, neither as its
\* readings nor as a point of its trend.
PublishedIsStored ==
    \A w \in Comps :
        compFile[w] # None /\ ~Swallows =>
            \A n \in {compFile[w].n} \cup ToSet(compFile[w].hist) : Whole(w, n)

\* When the store is closed every batch a collector handed on is in its file,
\* unless a write of it failed: Stop has waited for all of them
\* (scheduler.go:118-124, main.go:152-156).
CleanExitKeepsBatches ==
    main \in {"closed", "exited"} =>
        \A w \in Comps : \A n \in 1..seq[w] : Whole(w, n) \/ <<w, n>> \in refused

\* The signal ends the daemon, whichever collectors are disabled.
ShutdownEnds == main = "stopping" ~> main = "exited"
=============================================================================
