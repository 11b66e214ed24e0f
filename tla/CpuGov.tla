------------------------------ MODULE CpuGov ------------------------------
(***************************************************************************)
(* The CPU frequency governor at work (features/cpugov controller.go and   *)
(* actuator.go, cmd/catmonitor/energysave_linux.go): the control loop, the *)
(* shutdown hook Restore that runs in the main goroutine, and the kernel's *)
(* per-core frequency limits, which the loop writes one file at a time,    *)
(* which other programs write too, and which survive a crash.  holder is   *)
(* Controller.mu; job and todo are the loop of Downclock or Restore the    *)
(* holder is in.                                                           *)
(***************************************************************************)
EXTENDS IdleRules, FiniteSets

CONSTANTS Cores,
          InfoMin, InfoMax,  \* cpuinfo_min_freq, cpuinfo_max_freq
          Override,          \* min_freq_override; 0 = none
          InitialLimits,     \* the limits a core may have when the daemon starts
          DryRun,
          ReadsFail,         \* whether reading a frequency file may fail
          MaxFaults,         \* bound: reads and writes that fail
          MaxDrifts,         \* bound: limits changed by other programs
          MaxCrashes,        \* bound: crashes
          Nil

Freq == {0} \cup (InfoMin..InfoMax)
Limits == [min : Freq, max : Freq]

ASSUME CpuGovAssumption ==
    /\ IsFiniteSet(Cores)
    /\ InfoMin \in Nat \ {0} /\ InfoMax \in Nat /\ InfoMin <= InfoMax
    /\ Override \in Nat
    /\ InitialLimits \subseteq
          {l \in Limits : InfoMin <= l.min /\ l.min <= l.max}
    /\ DryRun \in BOOLEAN /\ ReadsFail \in BOOLEAN
    /\ MaxFaults \in Nat /\ MaxDrifts \in Nat /\ MaxCrashes \in Nat
    /\ Nil \notin Cores \cup {"loop", "main"} /\ Nil \notin Limits

VARIABLES
    limits,    \* the kernel's scaling_min_freq and scaling_max_freq per core
    machine, sample,   \* the idle machine and the input it was last given
    target,    \* Actuator.target
    saved,     \* Actuator.saved
    applied,   \* Actuator.applied
    ok,        \* Actuator.ok
    active,    \* Controller.active
    loop,      \* the control loop's goroutine
    main,      \* the main goroutine
    holder,    \* who holds Controller.mu: "loop", "main" or Nil
    job,       \* the loop over the cores the holder is in
    todo,      \* the cores it has yet to visit
    half,      \* the core with its first limit written, or Nil
    fine,      \* no write of this job failed
    faults, drifts, crashes,
    original   \* history: the limits somebody else last set

\* What a crash takes away, what the steps of a job leave alone, and the rest.
memory == <<machine, sample, target, saved, applied, ok, active>>
control == <<loop, main, holder, job, todo, half, fine>>
bounds == <<faults, drifts, crashes>>
vars == <<limits, memory, control, bounds, original>>

NoneSaved == [c \in Cores |-> Nil]

\* What Run's and Downclock's RefreshTarget can leave in a target that was 0:
\* the override if it is in range, else the hardware minimum.  When reads
\* fail, the minimum may be unknown (0) or the range unverifiable (InfoMin).
Targets ==
    {IF Override \in InfoMin..InfoMax THEN Override ELSE InfoMin}
    \cup IF ReadsFail THEN {0, InfoMin} ELSE {}

\* The process starts: a new Controller, and its loop at the first wait.
Fresh(tgt) ==
    /\ machine = Cleared("Active")
    /\ sample = [cpu |-> "unknown", npu |-> "unknown"]
    /\ target = tgt
    /\ saved = NoneSaved
    /\ applied = FALSE /\ ok = FALSE /\ active = FALSE
    /\ loop = "wait" /\ main = "running"
    /\ holder = Nil /\ job = "none" /\ todo = {} /\ half = Nil /\ fine = TRUE

Init ==
    /\ limits \in [Cores -> InitialLimits]
    /\ original = limits
    /\ \E t \in Targets : Fresh(t)
    /\ faults = 0 /\ drifts = 0 /\ crashes = 0

-----------------------------------------------------------------------------
\* A tick fires: the snapshot files are read and classified, without the lock.
\* The select of Run may take a pending tick even after the context was
\* cancelled.
Sample(c, n) ==
    /\ loop = "wait"
    /\ loop' = "sampled"
    /\ sample' = [cpu |-> c, npu |-> n]
    /\ UNCHANGED <<limits, machine, target, saved, applied, ok, active, main,
                   holder, job, todo, half, fine, bounds, original>>

\* ctx.Done() is taken instead.
LoopEnds ==
    /\ loop = "wait"
    /\ main # "running"
    /\ loop' = "done"
    /\ UNCHANGED <<limits, memory, main, holder, job, todo, half, fine, bounds,
                   original>>

\* MUTANT of Saves: every Downclock saves what it reads.
SavesAlways == {limits}

\* What Downclock holds as saved frequencies once it has read them, on the
\* not-applied -> applied transition; a read that fails saves 0.
Saves ==
    IF applied THEN {saved}
    ELSE IF ReadsFail /\ faults < MaxFaults
    THEN {f \in [Cores -> Limits] : \A c \in Cores :
             f[c].min \in {0, limits[c].min} /\ f[c].max \in {0, limits[c].max}}
    ELSE {limits}

\* MUTANT of BeginJob: a Downclock that is already held visits no core.
BeginJobOnce(h, j) ==
    /\ holder' = h
    /\ job' = j
    /\ todo' = IF j = "down" THEN (IF applied THEN {} ELSE Cores)
               ELSE {c \in Cores : saved[c] # Nil}
    /\ half' = Nil
    /\ fine' = TRUE

\* The holder h enters the loop over the cores.
BeginJob(h, j) ==
    /\ holder' = h
    /\ job' = j
    /\ todo' = IF j = "down" THEN Cores ELSE {c \in Cores : saved[c] # Nil}
    /\ half' = Nil
    /\ fine' = TRUE

\* Downclock: the target is resolved first; without one (or without the list
\* of cores) it gives up with ok = FALSE.
StartDownclock ==
    \/ /\ ReadsFail /\ faults < MaxFaults
       /\ faults' = faults + 1
       /\ ok' = FALSE
       /\ active' = applied
       /\ loop' = "wait"
       /\ UNCHANGED <<target, saved, applied, holder, job, todo, half, fine>>
    \/ \E t \in IF target = 0 THEN Targets \ {0} ELSE {target} :
          /\ target' = t
          /\ saved' \in Saves
          /\ faults' = IF saved' \in {saved, limits} THEN faults ELSE faults + 1
          /\ applied' = TRUE
          /\ BeginJob("loop", "down")
          /\ UNCHANGED <<ok, active, loop>>

\* Restore, entered from the tick or from the shutdown hook.
StartRestore(h) ==
    /\ BeginJob(h, "up")
    /\ UNCHANGED <<target, saved, applied, ok, active, faults>>

\* tick, from c.mu.Lock() to the decision.
Decide ==
    /\ loop = "sampled"
    /\ holder = Nil
    /\ machine' = Advance(machine, sample.cpu, sample.npu, 1)
    /\ LET desired == Desired(machine', sample.npu, DryRun)
       IN  \/ desired /\ StartDownclock
           \/ ~desired /\ active /\ StartRestore("loop") /\ UNCHANGED loop
           \/ /\ ~desired /\ ~active
              /\ loop' = "wait"
              /\ UNCHANGED <<target, saved, applied, ok, active, holder, job,
                             todo, half, fine, faults>>
    /\ UNCHANGED <<limits, sample, main, drifts, crashes, original>>

\* The limit of core c written first and second: Downclock lowers the floor
\* before the ceiling, Restore raises the ceiling before the floor.
FirstWrite(c) ==
    IF job = "down" THEN [limits[c] EXCEPT !.min = target]
    ELSE [limits[c] EXCEPT !.max = saved[c].max]
SecondWrite(c) ==
    IF job = "down" THEN [limits[c] EXCEPT !.max = target]
    ELSE [limits[c] EXCEPT !.min = saved[c].min]

WriteFirst(c) ==
    /\ holder # Nil /\ half = Nil /\ c \in todo
    /\ limits' = [limits EXCEPT ![c] = FirstWrite(c)]
    /\ half' = c
    /\ UNCHANGED <<memory, loop, main, holder, job, todo, fine, bounds, original>>

WriteSecond(c) ==
    /\ holder # Nil /\ half = c
    /\ limits' = [limits EXCEPT ![c] = SecondWrite(c)]
    /\ half' = Nil
    /\ todo' = todo \ {c}
    /\ UNCHANGED <<memory, loop, main, holder, job, fine, bounds, original>>

\* MUTANT of WriteFails: the failure is not remembered.
WriteFailsUnnoticed(c) ==
    /\ holder # Nil /\ c \in todo
    /\ faults < MaxFaults
    /\ faults' = faults + 1
    /\ half' = Nil
    /\ todo' = todo \ {c}
    /\ UNCHANGED <<limits, memory, loop, main, holder, job, fine, drifts,
                   crashes, original>>

\* A write that is needed fails; after the first, the second is skipped.
WriteFails(c) ==
    /\ holder # Nil /\ c \in todo
    /\ faults < MaxFaults
    /\ faults' = faults + 1
    /\ \/ half = Nil /\ (FirstWrite(c) # limits[c] \/ ReadsFail)
       \/ half = c /\ (SecondWrite(c) # limits[c] \/ ReadsFail)
    /\ half' = Nil
    /\ todo' = todo \ {c}
    /\ fine' = FALSE
    /\ UNCHANGED <<limits, memory, loop, main, holder, job, drifts, crashes,
                   original>>

\* MUTANT of FinishJob: after a Restore nothing is held, whether it failed.
FinishJobForgets ==
    /\ holder # Nil /\ todo = {} /\ half = Nil
    /\ ok' = fine
    /\ IF job = "up" /\ fine
       THEN saved' = NoneSaved /\ applied' = FALSE
       ELSE UNCHANGED <<saved, applied>>
    /\ active' = (job = "down")
    /\ holder' = Nil /\ job' = "none"
    /\ IF holder = "loop"
       THEN loop' = "wait" /\ UNCHANGED main
       ELSE main' = "stopping" /\ UNCHANGED loop
    /\ UNCHANGED <<limits, machine, sample, target, todo, half, fine, bounds,
                   original>>

\* The loop over the cores is over: the bookkeeping, and the unlock.
FinishJob ==
    /\ holder # Nil /\ todo = {} /\ half = Nil
    /\ ok' = fine
    /\ IF job = "up" /\ fine
       THEN saved' = NoneSaved /\ applied' = FALSE
       ELSE UNCHANGED <<saved, applied>>
    /\ active' = applied'
    /\ holder' = Nil /\ job' = "none"
    /\ IF holder = "loop"
       THEN loop' = "wait" /\ UNCHANGED main
       ELSE main' = "stopping" /\ UNCHANGED loop
    /\ UNCHANGED <<limits, machine, sample, target, todo, half, fine, bounds,
                   original>>

-----------------------------------------------------------------------------
\* SIGTERM: main cancels the context, without waiting for the loop, ...
Cancel ==
    /\ main = "running"
    /\ main' = "cancelled"
    /\ UNCHANGED <<limits, memory, loop, holder, job, todo, half, fine, bounds,
                   original>>

\* ... calls Restore, ...
RestoreOnShutdown ==
    /\ main = "cancelled"
    /\ holder = Nil
    /\ \/ active /\ StartRestore("main") /\ main' = "restoring"
       \/ /\ ~active
          /\ main' = "stopping"
          /\ UNCHANGED <<target, saved, applied, ok, active, holder, job, todo,
                         half, fine, faults>>
    /\ UNCHANGED <<limits, machine, sample, loop, drifts, crashes, original>>

\* ... stops the scheduler and returns: the process ends, wherever the loop is.
Exit ==
    /\ main = "stopping"
    /\ main' = "exited"
    /\ loop' = "done"
    /\ holder' = Nil /\ job' = "none" /\ todo' = {} /\ half' = Nil
    /\ UNCHANGED <<limits, memory, fine, bounds, original>>

\* The process is killed and started again; the kernel keeps the limits.
CrashAndRestart ==
    /\ main # "exited"
    /\ crashes < MaxCrashes
    /\ crashes' = crashes + 1
    /\ machine' = Cleared("Active")
    /\ sample' = [cpu |-> "unknown", npu |-> "unknown"]
    /\ target' \in Targets
    /\ saved' = NoneSaved
    /\ applied' = FALSE /\ ok' = FALSE /\ active' = FALSE
    /\ loop' = "wait" /\ main' = "running"
    /\ holder' = Nil /\ job' = "none" /\ todo' = {} /\ half' = Nil /\ fine' = TRUE
    /\ UNCHANGED <<limits, faults, drifts, original>>

\* Another program changes a core's limits; while they are held down that does
\* not change what is to be restored.
Drift(c) ==
    /\ drifts < MaxDrifts
    /\ drifts' = drifts + 1
    /\ \E l \in InitialLimits :
          /\ limits' = [limits EXCEPT ![c] = l]
          /\ original' = IF applied THEN original ELSE [original EXCEPT ![c] = l]
    /\ UNCHANGED <<memory, control, faults, crashes>>

JobStep == FinishJob \/ \E c \in Cores : WriteFirst(c) \/ WriteSecond(c)

LoopStep == LoopEnds \/ Decide \/ \E c \in CPUSample, n \in NPUState : Sample(c, n)

Next ==
    \/ LoopStep
    \/ JobStep
    \/ \E c \in Cores : WriteFails(c) \/ Drift(c)
    \/ Cancel \/ RestoreOnShutdown \/ Exit
    \/ CrashAndRestart

Spec == Init /\ [][Next]_vars

\* The ticker keeps firing, a goroutine that holds the mutex goes on, and Go's
\* mutexes are starvation-free: the loop gets the lock.
FairSpec == Spec /\ WF_vars(LoopStep) /\ WF_vars(JobStep)

-----------------------------------------------------------------------------
\* The values the variables take.
TypeOK ==
    /\ limits \in [Cores -> Limits]
    /\ machine \in Machine
    /\ sample \in [cpu : CPUSample, npu : NPUState]
    /\ target \in Freq
    /\ saved \in [Cores -> Limits \cup {Nil}]
    /\ applied \in BOOLEAN /\ ok \in BOOLEAN /\ active \in BOOLEAN
    /\ loop \in {"wait", "sampled", "done"}
    /\ main \in {"running", "cancelled", "restoring", "stopping", "exited"}
    /\ holder \in {"loop", "main", Nil}
    /\ job \in {"none", "down", "up"}
    /\ todo \subseteq Cores
    /\ half \in Cores \cup {Nil}
    /\ fine \in BOOLEAN
    /\ faults \in 0..MaxFaults /\ drifts \in 0..MaxDrifts
    /\ crashes \in 0..MaxCrashes
    /\ original \in [Cores -> Limits]

\* What Restore will write back is what the administrator had set: a second
\* Downclock, a retry after a partial failure or a half-done Restore never
\* saves values this program wrote itself (actuator.go:97-98).
SavedAreOriginals == applied => saved = original

\* A core whose limits are not the original ones is remembered for Restore,
\* however writes fail.
PinnedIsRemembered == \A c \in Cores : limits[c] # original[c] => applied

\* Neither order of writes ever makes a floor exceed its ceiling
\* (actuator.go:154-157), also when a write in between fails.
MinLeqMax == \A c \in Cores : limits[c].min <= limits[c].max

\* Between ticks, cores are held down only while the CPU is confirmed idle and
\* the NPU was idle at the last tick, unless the last write failed: no sample
\* sequence leaves them pinned (controller.go:207-211).
HeldOnlyWhileIdle ==
    loop = "wait" /\ main = "running" /\ applied /\ ok =>
        machine.state = "ConfirmedIdle" /\ sample.npu = "idle"

\* A Restore that reports success has put every core back.
RestoreRestores ==
    [][job = "up" /\ job' = "none" /\ ok' /\ main' # "exited" =>
          limits' = original']_vars

\* Once the NPU stays busy the cores are released, although single writes
\* fail: a failed Restore is tried again every tick.
BusyNpuReleases ==
    <>[](sample.npu = "non-idle" /\ main = "running") => <>[](~applied)

\* While the host stays idle, a core another program moved is pinned again
\* (actuator.go:21-22), and so is one whose write failed.
DriftedCoreRepinned ==
    <>[](sample = [cpu |-> "idle", npu |-> "idle"] /\ main = "running") =>
        <>[](\A c \in Cores : limits[c] = [min |-> target, max |-> target])
=============================================================================
