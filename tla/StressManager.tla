--------------------------- MODULE StressManager ---------------------------
(***************************************************************************)
(* Stress jobs of several CATMonitor processes on one host                 *)
(* (features/stress manager.go, joblock_linux.go, handler.go, cli.go, and  *)
(* the shutdown of features/web/main.go).  Every process has a Manager;    *)
(* web processes live long and take requests, a CLI process starts one job *)
(* and polls it.  They share the report file, the history file and the     *)
(* kernel lock beside it.  Inside a process Manager.mu serialises the      *)
(* requests and the job's goroutine; a critical section that does several  *)
(* things other processes can see is several actions, and stage says which *)
(* one the goroutine is in.  report_path is set, as the web UI requires.   *)
(***************************************************************************)
EXTENDS StressReport

CONSTANTS Webs,         \* catmonitor-web processes
          Clis,         \* "catmonitor stress" processes
          Outcomes,     \* the results benchmarks have in this instance
          Past,         \* jobs that ended before the first step
          MaxJobs,      \* bound: job ids
          MaxFailures,  \* bound: file writes that fail
          MaxKills,     \* bound: processes killed
          Nil

Procs == Webs \cup Clis

ASSUME StressManagerAssumption ==
    /\ Webs \cap Clis = {}
    /\ Outcomes \subseteq Outcome \ {"cancelled", "time_limit_reached"}
    /\ Past \in 0..MaxHistory /\ Past <= MaxJobs
    /\ MaxJobs \in Nat /\ MaxFailures \in Nat /\ MaxKills \in Nat
    /\ Nil \notin Procs /\ Nil \notin Report

VARIABLES
    file,      \* the report file: the last report written to it, or Nil
    history,   \* the history file
    lock,      \* who holds the kernel lock of the report file
    life,      \* of the process: "up", "stopping" (Shutdown) or "down"
    active,    \* Manager.active.report, or Nil
    cancelled, \* the active job's context is cancelled
    last,      \* Manager.last
    stage,     \* where the start or the goroutine of the active job is
    at,        \* the benchmark the goroutine is at
    result,    \* the result runBenchmark returned
    cli,       \* of a CLI process: "new", "polling", or how it ended
    mine,      \* the job a CLI process started
    jobs, failures, kills,
    final,     \* history: job -> the report it ended with, or Nil
    spared     \* history: the benchmarks not yet started at the cancellation

disk == <<file, history>>
inner == <<active, cancelled, last, stage, at, result>>
vars == <<disk, lock, life, inner, cli, mine, jobs, failures, kills, final, spared>>

\* The report of a job that ended well before the first step.
Earlier(j) == Ended([Started(j) EXCEPT !.benchmarks = [i \in 1..Benchmarks |-> "healthy"]])

\* Nothing is running; the files are those earlier jobs left.
Init ==
    /\ file = IF Past = 0 THEN Nil ELSE Earlier(Past)
    /\ history = [i \in 1..Past |-> Earlier(Past + 1 - i)]
    /\ lock = Nil
    /\ life = [p \in Procs |-> "up"]
    /\ active = [p \in Procs |-> Nil]
    /\ cancelled = [p \in Procs |-> FALSE]
    /\ last = [p \in Procs |-> Nil]
    /\ stage = [p \in Procs |-> "none"]
    /\ at = [p \in Procs |-> 0]
    /\ result = [p \in Procs |-> "pending"]
    /\ cli = [p \in Clis |-> "new"]
    /\ mine = [p \in Clis |-> 0]
    /\ jobs = Past /\ failures = 0 /\ kills = 0
    /\ final = [j \in 1..MaxJobs |-> IF j <= Past THEN Earlier(j) ELSE Nil]
    /\ spared = [p \in Procs |-> {}]

\* Manager.mu is free: StartWithOptions holds it from the lock to the first
\* write, the goroutine from the last write to the release.
MuFree(p) == stage[p] \notin {"locked", "archiving", "releasing"}

\* May p start a job now?  A CLI process does so once, a web process when a
\* request arrives.
Starts(p) ==
    /\ life[p] = "up" /\ MuFree(p)
    /\ p \in Clis => cli[p] = "new"

\* How a CLI process ends; its exit code is 0 after "healthy" only.
CliEnds(p, how) ==
    IF p \in Clis
    THEN cli' = [cli EXCEPT ![p] = how] /\ life' = [life EXCEPT ![p] = "down"]
    ELSE UNCHANGED <<cli, life>>

-----------------------------------------------------------------------------
\* MUTANT of Lock: the lock file is opened, but not locked exclusively.
LockShared(p) ==
    /\ Starts(p) /\ active[p] = Nil
    /\ jobs < MaxJobs
    /\ lock' = p
    /\ stage' = [stage EXCEPT ![p] = "locked"]
    /\ UNCHANGED <<disk, life, active, cancelled, last, at, result, cli, mine,
                   jobs, failures, kills, final, spared>>

\* acquireJobLock succeeds.
Lock(p) ==
    /\ Starts(p) /\ active[p] = Nil
    /\ jobs < MaxJobs
    /\ lock = Nil
    /\ lock' = p
    /\ stage' = [stage EXCEPT ![p] = "locked"]
    /\ UNCHANGED <<disk, life, active, cancelled, last, at, result, cli, mine,
                   jobs, failures, kills, final, spared>>

\* The job lock is held by another process: ErrBusy, with the report in the file.
Busy(p) ==
    /\ Starts(p) /\ active[p] = Nil
    /\ lock # Nil
    /\ last' = IF p \in Webs /\ file # Nil THEN [last EXCEPT ![p] = file] ELSE last
    /\ CliEnds(p, "busy")
    /\ UNCHANGED <<disk, lock, active, cancelled, stage, at, result, mine, jobs,
                   failures, kills, final, spared>>

\* newJobID: unique across processes.
NewJob == jobs + 1

\* The initial report is persisted and the goroutine started.
Begin(p) ==
    /\ stage[p] = "locked"
    /\ jobs' = jobs + 1
    /\ LET r == Started(NewJob)
       IN  /\ file' = r
           /\ active' = [active EXCEPT ![p] = r]
           /\ last' = [last EXCEPT ![p] = r]
    /\ stage' = [stage EXCEPT ![p] = "begin"]
    /\ at' = [at EXCEPT ![p] = 1]
    /\ IF p \in Clis
       THEN /\ cli' = [cli EXCEPT ![p] = "polling"]
            /\ mine' = [mine EXCEPT ![p] = NewJob]
       ELSE UNCHANGED <<cli, mine>>
    /\ UNCHANGED <<history, lock, life, cancelled, result, failures, kills, final,
                   spared>>

\* ... or cannot be: the job is refused.
BeginFails(p) ==
    /\ stage[p] = "locked"
    /\ failures < MaxFailures
    /\ failures' = failures + 1
    /\ lock' = Nil
    /\ stage' = [stage EXCEPT ![p] = "none"]
    /\ CliEnds(p, "failed")
    /\ UNCHANGED <<disk, active, cancelled, last, at, result, mine, jobs, kills,
                   final, spared>>

\* persistReportLocked of a later report: a failure only marks the report.
Persist(p, r) ==
    \/ /\ file' = [r EXCEPT !.error = FALSE]
       /\ active' = [active EXCEPT ![p] = [r EXCEPT !.error = FALSE]]
       /\ UNCHANGED failures
    \/ /\ failures < MaxFailures
       /\ failures' = failures + 1
       /\ active' = [active EXCEPT ![p] = [r EXCEPT !.error = TRUE]]
       /\ UNCHANGED file

\* setBenchmark(name, StatusRunning).
SetRunning(p) ==
    /\ stage[p] = "begin"
    /\ Persist(p, [active[p] EXCEPT !.benchmarks[at[p]] = "running"])
    /\ last' = [last EXCEPT ![p] = active'[p]]
    /\ stage' = [stage EXCEPT ![p] = "run"]
    /\ UNCHANGED <<history, lock, life, cancelled, at, result, cli, mine, jobs,
                   kills, final, spared>>

\* The benchmark's deadline passes before it ends or is cancelled.
Deadline(p) ==
    /\ stage[p] = "run" /\ ~cancelled[p]
    /\ stage' = [stage EXCEPT ![p] = "expired"]
    /\ UNCHANGED <<disk, lock, life, active, cancelled, last, at, result, cli,
                   mine, jobs, failures, kills, final, spared>>

\* MUTANT of RunResults: a cancelled context is not looked at.
RunResultsIgnoringCancel(p) == Outcomes

\* What runBenchmark may return.  The checks of the configuration come first,
\* then the deadline (npu_burn is unhealthy then), then the cancellation.
RunResults(p) ==
    IF stage[p] = "expired"
    THEN {"time_limit_reached", "unhealthy"}
    ELSE IF cancelled[p]
    THEN {"cancelled"} \cup (Outcomes \cap {"unavailable", "unsupported"})
    ELSE Outcomes

\* runBenchmark, up to the moment its result is decided, without the lock.
RunBenchmark(p) ==
    /\ stage[p] \in {"run", "expired"}
    /\ \E o \in RunResults(p) : result' = [result EXCEPT ![p] = o]
    /\ stage' = [stage EXCEPT ![p] = "ran"]
    /\ UNCHANGED <<disk, lock, life, active, cancelled, last, at, cli, mine,
                   jobs, failures, kills, final, spared>>

\* finishBenchmark, and on to the next one.
FinishBenchmark(p) ==
    /\ stage[p] = "ran"
    /\ Persist(p, [active[p] EXCEPT !.benchmarks[at[p]] = result[p]])
    /\ last' = [last EXCEPT ![p] = active'[p]]
    /\ IF at[p] = Benchmarks
       THEN stage' = [stage EXCEPT ![p] = "final"] /\ UNCHANGED at
       ELSE /\ stage' = [stage EXCEPT ![p] = "begin"]
            /\ at' = [at EXCEPT ![p] = @ + 1]
    /\ result' = [result EXCEPT ![p] = "pending"]
    /\ UNCHANGED <<history, lock, life, cancelled, cli, mine, jobs, kills, final,
                   spared>>

\* The last critical section of run: the final report, ...
FinalReport(p) ==
    /\ stage[p] = "final"
    /\ Persist(p, Ended(active[p]))
    /\ final' = [final EXCEPT ![active[p].job] = active'[p]]
    /\ stage' = [stage EXCEPT ![p] = "archiving"]
    /\ UNCHANGED <<history, lock, life, cancelled, last, at, result, cli, mine,
                   jobs, kills, spared>>

\* ... the history, whose failure is only logged, ...
AppendHistory(p) ==
    /\ stage[p] = "archiving"
    /\ \/ history' = Archive(history, active[p]) /\ UNCHANGED failures
       \/ /\ failures < MaxFailures
          /\ failures' = failures + 1
          /\ UNCHANGED history
    /\ stage' = [stage EXCEPT ![p] = "releasing"]
    /\ UNCHANGED <<file, lock, life, active, cancelled, last, at, result, cli,
                   mine, jobs, kills, final, spared>>

\* MUTANT of Release: the lock is not released.
ReleaseKeepsLock(p) ==
    /\ stage[p] = "releasing"
    /\ last' = [last EXCEPT ![p] = active[p]]
    /\ active' = [active EXCEPT ![p] = Nil]
    /\ stage' = [stage EXCEPT ![p] = "none"]
    /\ UNCHANGED <<disk, lock, life, cancelled, at, result, cli, mine, jobs,
                   failures, kills, final, spared>>

\* ... and the release, with which the goroutine and its context are gone.
Release(p) ==
    /\ stage[p] = "releasing"
    /\ last' = [last EXCEPT ![p] = active[p]]
    /\ active' = [active EXCEPT ![p] = Nil]
    /\ lock' = Nil
    /\ stage' = [stage EXCEPT ![p] = "none"]
    /\ at' = [at EXCEPT ![p] = 0]
    /\ cancelled' = [cancelled EXCEPT ![p] = FALSE]
    /\ spared' = [spared EXCEPT ![p] = {}]
    /\ UNCHANGED <<disk, life, result, cli, mine, jobs, failures, kills, final>>

-----------------------------------------------------------------------------
NotStarted(p) ==
    {i \in 1..Benchmarks : active[p] # Nil /\ active[p].benchmarks[i] = "pending"}

\* POST .../cancel of a web process; a job of another process is not found.
Cancel(p) ==
    /\ p \in Webs /\ life[p] = "up" /\ MuFree(p)
    /\ active[p] # Nil
    /\ cancelled' = [cancelled EXCEPT ![p] = TRUE]
    /\ spared' = [spared EXCEPT ![p] = @ \cup NotStarted(p)]
    /\ UNCHANGED <<disk, lock, life, active, last, stage, at, result, cli, mine,
                   jobs, failures, kills, final>>

\* Latest: the own active report, else the file, else what is remembered.
LatestOf(p) ==
    IF active[p] # Nil THEN active[p]
    ELSE IF file # Nil THEN file ELSE last[p]

Latest(p) ==
    /\ p \in Webs /\ life[p] = "up" /\ MuFree(p)
    /\ active[p] = Nil /\ file # Nil
    /\ last' = [last EXCEPT ![p] = file]
    /\ UNCHANGED <<disk, lock, life, active, cancelled, stage, at, result, cli,
                   mine, jobs, failures, kills, final, spared>>

\* MUTANT of Poll: the report is not compared with the job the CLI started.
PollAnyJob(p) ==
    /\ p \in Clis /\ life[p] = "up" /\ cli[p] = "polling" /\ MuFree(p)
    /\ LatestOf(p).status # "running" /\ CliEnds(p, LatestOf(p).status)
    /\ last' = [last EXCEPT ![p] = Nil]
    /\ UNCHANGED <<disk, lock, active, cancelled, stage, at, result, mine, jobs,
                   failures, kills, final, spared>>

\* The CLI polls Job: nothing while the report says running; otherwise it ends,
\* with an error if the report is another job's, and its memory is gone.
Poll(p) ==
    /\ p \in Clis /\ life[p] = "up" /\ cli[p] = "polling" /\ MuFree(p)
    /\ LET r == LatestOf(p)
       IN  IF r.job # mine[p] THEN CliEnds(p, "not found")
           ELSE r.status # "running" /\ CliEnds(p, r.status)
    /\ last' = [last EXCEPT ![p] = Nil]
    /\ UNCHANGED <<disk, lock, active, cancelled, stage, at, result, mine, jobs,
                   failures, kills, final, spared>>

\* Shutdown of a web process (after its HTTP server stopped taking requests).
Shutdown(p) ==
    /\ p \in Webs /\ life[p] = "up" /\ MuFree(p)
    /\ life' = [life EXCEPT ![p] = "stopping"]
    /\ cancelled' = [cancelled EXCEPT ![p] = @ \/ active[p] # Nil]
    /\ spared' = [spared EXCEPT ![p] = @ \cup NotStarted(p)]
    /\ UNCHANGED <<disk, lock, active, last, stage, at, result, cli, mine, jobs,
                   failures, kills, final>>

\* The process is gone: its memory is lost, the kernel drops its lock.
Gone(p) ==
    /\ lock' = IF lock = p THEN Nil ELSE lock
    /\ active' = [active EXCEPT ![p] = Nil]
    /\ cancelled' = [cancelled EXCEPT ![p] = FALSE]
    /\ last' = [last EXCEPT ![p] = Nil]
    /\ stage' = [stage EXCEPT ![p] = "none"]
    /\ at' = [at EXCEPT ![p] = 0]
    /\ result' = [result EXCEPT ![p] = "pending"]
    /\ spared' = [spared EXCEPT ![p] = {}]
    /\ UNCHANGED <<disk, mine, jobs, failures, final>>

\* The job is done, and main returns.
Exit(p) ==
    /\ life[p] = "stopping" /\ active[p] = Nil
    /\ life' = [life EXCEPT ![p] = "down"]
    /\ Gone(p)
    /\ UNCHANGED <<cli, kills>>

\* A process is killed at any moment: Ctrl-C of the CLI, which installs no
\* handler, a kill, or the end of Shutdown's 5 s before the job ended.
Kill(p) ==
    /\ life[p] # "down"
    /\ kills < MaxKills
    /\ kills' = kills + 1
    /\ life' = [life EXCEPT ![p] = "down"]
    /\ Gone(p)
    /\ cli' = IF p \in Clis THEN [cli EXCEPT ![p] = "killed"] ELSE cli

\* A web process is started again.
Restart(p) ==
    /\ p \in Webs /\ life[p] = "down"
    /\ life' = [life EXCEPT ![p] = "up"]
    /\ UNCHANGED <<disk, lock, inner, cli, mine, jobs, failures, kills, final, spared>>

JobStep(p) ==
    \/ Begin(p) \/ BeginFails(p)
    \/ SetRunning(p) \/ Deadline(p) \/ RunBenchmark(p) \/ FinishBenchmark(p)
    \/ FinalReport(p) \/ AppendHistory(p) \/ Release(p)

Next ==
    \E p \in Procs :
        \/ Lock(p) \/ Busy(p) \/ JobStep(p)
        \/ Cancel(p) \/ Latest(p) \/ Poll(p)
        \/ Shutdown(p) \/ Exit(p) \/ Kill(p) \/ Restart(p)

Spec == Init /\ [][Next]_vars

\* A goroutine goes on, every benchmark ends at its deadline at the latest, the
\* CLI polls every 200 ms, and main goes on once done is closed.
FairSpec ==
    /\ Spec
    /\ \A p \in Procs : WF_vars(JobStep(p)) /\ WF_vars(Poll(p)) /\ WF_vars(Exit(p))

-----------------------------------------------------------------------------
\* The values the variables take.
TypeOK ==
    /\ file \in Report \cup {Nil}
    /\ history \in Seq(Report)
    /\ lock \in Procs \cup {Nil}
    /\ life \in [Procs -> {"up", "stopping", "down"}]
    /\ active \in [Procs -> Report \cup {Nil}]
    /\ cancelled \in [Procs -> BOOLEAN]
    /\ last \in [Procs -> Report \cup {Nil}]
    /\ stage \in [Procs -> {"none", "locked", "begin", "run", "expired", "ran",
                            "final", "archiving", "releasing"}]
    /\ at \in [Procs -> 0..Benchmarks]
    /\ result \in [Procs -> Outcome \cup {"pending"}]
    /\ cli \in [Clis -> Outcome \cup
                   {"new", "polling", "busy", "failed", "not found", "killed"}]
    /\ mine \in [Clis -> 0..MaxJobs]
    /\ jobs \in 0..MaxJobs
    /\ failures \in 0..MaxFailures /\ kills \in 0..MaxKills
    /\ final \in [1..MaxJobs -> Report \cup {Nil}]
    /\ spared \in [Procs -> SUBSET (1..Benchmarks)]

\* Two processes never run stress jobs at the same time, whatever is killed,
\* restarted or fails (STRESS_SPEC.md:369-371).
MutualExclusion ==
    \A p, q \in Procs : active[p] # Nil /\ active[q] # Nil => p = q

\* While a job is active the report file is about that job: no other process
\* can have written to it since.
FileIsOwn == \A p \in Procs : active[p] # Nil => file # Nil /\ file.job = active[p].job

\* The history holds final reports, each job once, newest first, and no more
\* than MaxHistory, across processes and failures (STRESS_SPEC.md:394-396).
HistorySound ==
    /\ Len(history) <= MaxHistory
    /\ \A i \in DOMAIN history : history[i] = final[history[i].job]
    /\ \A i, j \in DOMAIN history : i < j => history[i].job > history[j].job

\* A final report says what happened: "healthy" only if every benchmark passed,
\* "unhealthy" if one failed, and no benchmark is left pending or running.
FinalReportSound ==
    \A j \in 1..MaxJobs : final[j] # Nil =>
        LET b == final[j].benchmarks
        IN  /\ \A i \in 1..Benchmarks : b[i] \in Outcome
            /\ final[j].status = "healthy" <=>
                   \A i \in 1..Benchmarks : b[i] \in {"healthy", "time_limit_reached"}
            /\ Some(b, "unhealthy") => final[j].status = "unhealthy"

\* A benchmark that had not been started when its job was cancelled is never
\* reported as if it had run (STRESS_SPEC.md:379).
CancelStopsTheRest ==
    \A p \in Procs : active[p] # Nil =>
        \A i \in spared[p] : active[p].benchmarks[i] \notin
                {"healthy", "time_limit_reached", "unhealthy"}

\* A report in the file never goes back from its end to running, nor to an
\* earlier job.
FileNeverGoesBack ==
    [][file # Nil =>
          /\ file' # Nil /\ file'.job >= file.job
          /\ file'.job = file.job /\ file.status # "running" =>
                file'.status = file.status]_vars

\* The latest report is the source of truth for running state
\* (manager.go:615-616): as long as nothing was killed and every report could
\* be written, it says running only while somebody holds the job lock.
RunningMeansHeld ==
    file # Nil /\ file.status = "running" /\ failures = 0 /\ kills = 0 =>
        lock # Nil

\* What a CLI reports at its end is what its own job ended with, or "not found"
\* when another process has started a job since (STRESS_SPEC.md:279-280).
CliReportsOwnJob ==
    [][\A p \in Clis : cli[p] = "polling" /\ cli'[p] \notin {"polling", "killed"} =>
          \/ cli'[p] = "not found" /\ jobs > mine[p]
          \/ final[mine[p]] # Nil /\ cli'[p] = final[mine[p]].status]_vars

\* Every job ends and gives the lock back, also one that is cancelled, whose
\* reports cannot be written or whose process is killed.
JobEnds == \A p \in Procs : lock = p ~> lock # p

\* A CLI that started a job comes to an end (STRESS_SPEC.md:279-280), whatever
\* other processes do, when every report can be written.
CliEndsIfReportsAreWritten ==
    \A p \in Clis : cli[p] = "polling" ~> cli[p] # "polling" \/ failures > 0

\* The processes, the lock and the report file agree on whose job runs: jobs
\* exclude each other, the file is about the job that is active, and "running"
\* in it means that somebody holds the lock (joblock_linux.go, manager.go:615).
FileAgreesWithJobs == MutualExclusion /\ FileIsOwn /\ RunningMeansHeld

\* What was reported is what happened, in the final reports and about what a
\* cancellation spared (manager.go run, aggregateReportStatus).
ReportsSound == FinalReportSound /\ CancelStopsTheRest

\* Whoever reads the files while other processes write to them sees a sound
\* history and a job that only goes forward, and a CLI takes no other job's end
\* for its own (cli.go:64, appendHistoryFile).
PollsStayTrue == [](TypeOK /\ HistorySound) /\ FileNeverGoesBack /\ CliReportsOwnJob

\* Every job, and every CLI whose reports can be written, comes to an end.
JobsAndClisEnd == JobEnds /\ CliEndsIfReportsAreWritten
=============================================================================
