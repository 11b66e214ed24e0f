------------------------ MODULE StressManagerProofs ------------------------
(***************************************************************************)
(* Theorems about StressManager, for any processes, benchmarks, outcomes   *)
(* and bounds: the processes, the kernel lock and the report file agree on *)
(* whose job runs, reports say what happened, and so do the history and    *)
(* what a polling CLI ends with.                                           *)
(***************************************************************************)
EXTENDS StressManager, FiniteSetTheorems, TLAPS

Stage == {"none", "locked", "begin", "run", "expired", "ran", "final",
          "archiving", "releasing"}

\* The types of the variables the argument is about.
CoreType ==
    /\ file \in Report \cup {Nil}
    /\ lock \in Procs \cup {Nil}
    /\ active \in [Procs -> Report \cup {Nil}]
    /\ stage \in [Procs -> Stage]
    /\ result \in [Procs -> Outcome \cup {"pending"}]
    /\ jobs \in Nat /\ failures \in Nat /\ kills \in Nat

\* Whoever is starting or running a job holds the lock, and has an active
\* report from the first write to the release.
HolderWorks ==
    \A p \in Procs :
        /\ stage[p] # "none" => lock = p
        /\ active[p] # Nil <=> stage[p] \notin {"none", "locked"}

\* Without failures the file says "running" only before the final report.
RunningIsRun ==
    file # Nil /\ file.status = "running" /\ failures = 0 /\ kills = 0 =>
        lock # Nil /\ stage[lock] \in {"begin", "run", "expired", "ran", "final"}

JobsInv == CoreType /\ HolderWorks /\ FileIsOwn /\ RunningIsRun

core == <<file, lock, active, stage, result, jobs, failures, kills>>

-----------------------------------------------------------------------------
\* A report that has just been started is a report, and is running.
LEMMA StartedIsReport ==
    ASSUME NEW j \in Nat \ {0}
    PROVE  Started(j) \in Report /\ Started(j).job = j
  BY DEF Started, Report, Results, Status

\* The result of a benchmark goes into the report and changes nothing else.
LEMMA BenchmarkNoted ==
    ASSUME NEW r \in Report, NEW i, NEW o \in Status
    PROVE  /\ [r EXCEPT !.benchmarks[i] = o] \in Report
           /\ [r EXCEPT !.benchmarks[i] = o].job = r.job
  <1> DEFINE b == [r.benchmarks EXCEPT ![i] = o]
  <1>1. b \in Results
    BY DEF Report, Results
  <1>2. [r EXCEPT !.benchmarks[i] = o] = [r EXCEPT !.benchmarks = b]
    OBVIOUS
  <1> HIDE DEF b
  <1> QED
    BY <1>1, <1>2 DEF Report

\* A report at its end does not say "running".
LEMMA EndedIsOver ==
    ASSUME NEW r \in Report
    PROVE  /\ Ended(r) \in Report /\ Ended(r).job = r.job /\ Ended(r).status # "running"
           /\ Ended(r).benchmarks = r.benchmarks
           /\ Ended(r).status = Aggregate(r.benchmarks)
  <1>1. Aggregate(r.benchmarks) \in Outcome
    BY DEF Aggregate, Outcome
  <1> QED
    BY <1>1 DEF Ended, Report, Status, Outcome

\* The file is the report of the active job once it is persisted, and the old
\* one when the write failed.
LEMMA Persisted ==
    ASSUME JobsInv, NEW p \in Procs, NEW r \in Report,
           active[p] # Nil, r.job = active[p].job, Persist(p, r)
    PROVE  /\ file' \in Report \cup {Nil}
           /\ active' \in [Procs -> Report \cup {Nil}] /\ active'[p] # Nil
           /\ \A q \in Procs \ {p} : active'[q] = active[q]
           /\ file' # Nil /\ file'.job = active'[p].job
           /\ active'[p].benchmarks = r.benchmarks /\ active'[p].status = r.status
           /\ failures' \in Nat
           /\ failures' = 0 => file'.status = r.status /\ failures = 0
  <1>1. file # Nil /\ file.job = active[p].job
    BY DEF JobsInv, FileIsOwn
  <1>2. ASSUME NEW e \in BOOLEAN
        PROVE  /\ [r EXCEPT !.error = e] \in Report
               /\ [r EXCEPT !.error = e].job = r.job
               /\ [r EXCEPT !.error = e].status = r.status
               /\ [r EXCEPT !.error = e].benchmarks = r.benchmarks
               /\ [r EXCEPT !.error = e] # Nil
    <2>1. [r EXCEPT !.error = e] \in Report
      BY DEF Report
    <2>2. [r EXCEPT !.error = e] # Nil
      BY <2>1, StressManagerAssumption
    <2> QED
      BY <2>1, <2>2 DEF Report
  <1> DEFINE good == [r EXCEPT !.error = FALSE]
             bad == [r EXCEPT !.error = TRUE]
  <1>3. /\ good \in Report /\ good.job = r.job /\ good.status = r.status /\ good # Nil
        /\ good.benchmarks = r.benchmarks
    BY <1>2
  <1>4. /\ bad \in Report /\ bad.job = r.job /\ bad.status = r.status /\ bad # Nil
        /\ bad.benchmarks = r.benchmarks
    BY <1>2
  <1>5. \/ /\ file' = good
           /\ active' = [active EXCEPT ![p] = good]
           /\ failures' = failures
        \/ /\ failures' = failures + 1
           /\ active' = [active EXCEPT ![p] = bad]
           /\ file' = file
    BY DEF Persist
  <1> HIDE DEF good, bad
  <1> QED
    BY <1>1, <1>3, <1>4, <1>5 DEF JobsInv, CoreType

-----------------------------------------------------------------------------
\* The report of a job that ended before the first step.
LEMMA EarlierIsHealthy ==
    ASSUME NEW j \in Nat \ {0}
    PROVE  /\ Earlier(j) \in Report /\ Earlier(j).status = "healthy"
           /\ \A i \in 1..Benchmarks : Earlier(j).benchmarks[i] = "healthy"
  <1> DEFINE b == [i \in 1..Benchmarks |-> "healthy"]
             r == [Started(j) EXCEPT !.benchmarks = b]
  <1>1. Started(j) \in Report
    BY StartedIsReport
  <1>2. b \in Results /\ \A i \in 1..Benchmarks : b[i] = "healthy"
    BY DEF Results, Status, Outcome
  <1> HIDE DEF b
  <1>3. r \in Report /\ r.benchmarks = b
    BY <1>1, <1>2 DEF Report
  <1>4. Aggregate(b) = "healthy"
    BY <1>2 DEF Aggregate
  <1>5. Ended(r) \in Report /\ Ended(r).status = "healthy" /\ Ended(r).benchmarks = b
    BY <1>3, <1>4, EndedIsOver
  <1> QED
    BY <1>2, <1>5 DEF Earlier, b

\* Before the first step nothing runs and the file holds an ended report.
LEMMA JobsInvInit == Init => JobsInv
  <1> SUFFICES ASSUME Init PROVE JobsInv
    OBVIOUS
  <1>1. ASSUME Past # 0
        PROVE  Earlier(Past) \in Report /\ Earlier(Past).status # "running"
    <2>1. Past \in Nat \ {0}
      BY <1>1, StressManagerAssumption, StressReportAssumption
    <2> QED
      BY <2>1, EarlierIsHealthy
  <1>2. CoreType
    BY <1>1, StressManagerAssumption, StressReportAssumption DEF Init, CoreType, Stage
  <1>3. HolderWorks /\ FileIsOwn
    BY DEF Init, HolderWorks, FileIsOwn
  <1>4. RunningIsRun
    BY <1>1 DEF Init, RunningIsRun
  <1> QED
    BY <1>2, <1>3, <1>4 DEF JobsInv

\* Steps that touch no report and no lock, and at most move the goroutine on.
LEMMA QuietKeepsJobs ==
    ASSUME JobsInv, NEW p \in Procs,
           UNCHANGED <<file, lock, active, jobs, failures, kills>>,
           \/ UNCHANGED stage
           \/ \E st \in {"expired", "ran"} :
                 /\ stage[p] \in {"run", "expired"}
                 /\ stage' = [stage EXCEPT ![p] = st],
           result' \in [Procs -> Outcome \cup {"pending"}]
    PROVE  JobsInv'
  <1>1. stage' \in [Procs -> Stage]
    BY DEF JobsInv, CoreType, Stage
  <1>2. CoreType'
    BY <1>1 DEF JobsInv, CoreType
  <1>3. HolderWorks'
    BY DEF JobsInv, CoreType, HolderWorks
  <1>4. FileIsOwn'
    BY DEF JobsInv, FileIsOwn
  <1>5. RunningIsRun'
    BY DEF JobsInv, CoreType, RunningIsRun
  <1> QED
    BY <1>2, <1>3, <1>4, <1>5 DEF JobsInv

\* A step of the goroutine that persists a report of its own job, and stays in
\* the job unless the report says that the job is over.
LEMMA WriteKeepsJobs ==
    ASSUME JobsInv, NEW p \in Procs, active[p] # Nil, NEW r \in Report,
           r.job = active[p].job, Persist(p, r),
           NEW st \in {"begin", "run", "final", "archiving"},
           r.status = "running" => st # "archiving",
           stage' = [stage EXCEPT ![p] = st],
           UNCHANGED <<lock, jobs, kills>>,
           result' \in [Procs -> Outcome \cup {"pending"}]
    PROVE  JobsInv'
  <1>1. /\ file' \in Report \cup {Nil}
        /\ active' \in [Procs -> Report \cup {Nil}] /\ active'[p] # Nil
        /\ \A q \in Procs \ {p} : active'[q] = active[q]
        /\ file' # Nil /\ file'.job = active'[p].job
        /\ failures' \in Nat
        /\ failures' = 0 => file'.status = r.status /\ failures = 0
    BY Persisted
  <1>2. stage' \in [Procs -> Stage]
    BY DEF JobsInv, CoreType, Stage
  <1>3. CoreType'
    BY <1>1, <1>2 DEF JobsInv, CoreType
  <1>4. lock = p /\ \A q \in Procs \ {p} : stage[q] = "none" /\ active[q] = Nil
    BY DEF JobsInv, HolderWorks
  <1>5. HolderWorks'
    BY <1>1, <1>4 DEF JobsInv, CoreType, HolderWorks
  <1>6. FileIsOwn'
    BY <1>1, <1>4 DEF FileIsOwn
  <1>7. RunningIsRun'
    BY <1>1, <1>4, StressManagerAssumption DEF JobsInv, CoreType, RunningIsRun
  <1> QED
    BY <1>3, <1>5, <1>6, <1>7 DEF JobsInv

\* A process that gives the lock back, or goes, leaves no job of its own behind.
LEMMA LeavingKeepsJobs ==
    ASSUME JobsInv, NEW p \in Procs,
           lock' = IF lock = p THEN Nil ELSE lock,
           active' = [active EXCEPT ![p] = Nil],
           stage' = [stage EXCEPT ![p] = "none"],
           file' = file, jobs' = jobs, failures' \in Nat, kills' \in Nat,
           failures' = 0 => failures = 0, kills' = 0 => kills = 0,
           result' \in [Procs -> Outcome \cup {"pending"}],
           failures' = 0 /\ kills' = 0 =>
               stage[p] \notin {"begin", "run", "expired", "ran", "final"}
    PROVE  JobsInv'
  <1>1. lock' \in Procs \cup {Nil}
    BY DEF JobsInv, CoreType
  <1>2. stage' \in [Procs -> Stage] /\ active' \in [Procs -> Report \cup {Nil}]
    BY DEF JobsInv, CoreType, Stage
  <1>3. CoreType'
    BY <1>1, <1>2 DEF JobsInv, CoreType
  <1>4. /\ stage'[p] = "none" /\ active'[p] = Nil
        /\ \A q \in Procs \ {p} : stage'[q] = stage[q] /\ active'[q] = active[q]
    BY DEF JobsInv, CoreType
  <1>5. HolderWorks'
    BY <1>4 DEF JobsInv, HolderWorks
  <1>6. FileIsOwn'
    BY <1>4 DEF JobsInv, FileIsOwn
  <1>7. ASSUME file # Nil, file.status = "running", failures' = 0, kills' = 0
        PROVE  lock' # Nil /\ stage'[lock'] \in {"begin", "run", "expired", "ran", "final"}
    <2>1. failures = 0 /\ kills = 0
      BY <1>7 DEF JobsInv, CoreType
    <2>2. lock # Nil /\ stage[lock] \in {"begin", "run", "expired", "ran", "final"}
      BY <1>7, <2>1 DEF JobsInv, RunningIsRun
    <2>3. lock # p /\ lock \in Procs
      BY <1>7, <2>2 DEF JobsInv, CoreType
    <2> QED
      BY <1>4, <2>2, <2>3
  <1>8. RunningIsRun'
    BY <1>7 DEF RunningIsRun
  <1> QED
    BY <1>3, <1>5, <1>6, <1>8 DEF JobsInv

\* Taking the lock: nobody held it, so nobody was running and the file, if
\* nothing had failed, said so.
LEMMA LockKeepsJobs ==
    ASSUME JobsInv, NEW p \in Procs, Lock(p)
    PROVE  JobsInv'
  <1>1. /\ lock = Nil /\ lock' = p /\ stage' = [stage EXCEPT ![p] = "locked"]
        /\ UNCHANGED <<file, active, result, jobs, failures, kills>>
    BY DEF Lock, disk
  <1>2. \A q \in Procs : stage[q] = "none" /\ active[q] = Nil
    BY <1>1, StressManagerAssumption DEF JobsInv, HolderWorks
  <1>3. CoreType'
    BY <1>1 DEF JobsInv, CoreType, Stage
  <1>4. HolderWorks'
    BY <1>1, <1>2 DEF JobsInv, CoreType, HolderWorks
  <1>5. FileIsOwn'
    BY <1>1, <1>2 DEF FileIsOwn
  <1>6. RunningIsRun'
    BY <1>1 DEF JobsInv, RunningIsRun
  <1> QED
    BY <1>3, <1>4, <1>5, <1>6 DEF JobsInv

\* The first report of a job: the process holds the lock, so nobody else has
\* one.
LEMMA BeginKeepsJobs ==
    ASSUME JobsInv, NEW p \in Procs, Begin(p)
    PROVE  JobsInv'
  <1> DEFINE r == Started(NewJob)
  <1>1. /\ stage[p] = "locked" /\ jobs' = jobs + 1
        /\ file' = r /\ active' = [active EXCEPT ![p] = r]
        /\ stage' = [stage EXCEPT ![p] = "begin"]
        /\ UNCHANGED <<lock, result, failures, kills>>
    BY DEF Begin
  <1>2. jobs + 1 \in Nat \ {0}
    BY DEF JobsInv, CoreType
  <1>3. r \in Report /\ r # Nil
    BY <1>2, StartedIsReport, StressManagerAssumption DEF NewJob
  <1> HIDE DEF r
  <1>4. lock = p /\ \A q \in Procs \ {p} : stage[q] = "none" /\ active[q] = Nil
    BY <1>1 DEF JobsInv, HolderWorks
  <1>5. stage' \in [Procs -> Stage]
    BY <1>1 DEF JobsInv, CoreType, Stage
  <1>6. CoreType'
    BY <1>1, <1>2, <1>3, <1>5 DEF JobsInv, CoreType
  <1>7. HolderWorks'
    BY <1>1, <1>3, <1>4 DEF JobsInv, CoreType, HolderWorks
  <1>8. FileIsOwn'
    BY <1>1, <1>3, <1>4 DEF JobsInv, CoreType, FileIsOwn
  <1>9. RunningIsRun'
    BY <1>1, <1>4, StressManagerAssumption DEF JobsInv, CoreType, RunningIsRun
  <1> QED
    BY <1>6, <1>7, <1>8, <1>9 DEF JobsInv

\* The history is not the report file; the final report was written, or failed.
LEMMA ArchivingKeepsJobs ==
    ASSUME JobsInv, NEW p \in Procs, AppendHistory(p)
    PROVE  JobsInv'
  <1>1. /\ stage[p] = "archiving" /\ stage' = [stage EXCEPT ![p] = "releasing"]
        /\ failures' = failures \/ failures' = failures + 1
        /\ UNCHANGED <<file, lock, active, result, jobs, kills>>
    BY DEF AppendHistory
  <1>2. stage' \in [Procs -> Stage]
    BY <1>1 DEF JobsInv, CoreType, Stage
  <1>3. CoreType'
    BY <1>1, <1>2 DEF JobsInv, CoreType
  <1>4. HolderWorks'
    BY <1>1 DEF JobsInv, CoreType, HolderWorks
  <1>5. FileIsOwn'
    BY <1>1 DEF JobsInv, FileIsOwn
  <1>6. lock = p
    BY <1>1 DEF JobsInv, HolderWorks
  <1>7. RunningIsRun'
    BY <1>1, <1>6 DEF JobsInv, CoreType, RunningIsRun
  <1> QED
    BY <1>3, <1>4, <1>5, <1>7 DEF JobsInv

\* Every step of the start and of the goroutine of a job.
LEMMA JobStepKeepsJobs ==
    ASSUME JobsInv, NEW p \in Procs, JobStep(p)
    PROVE  JobsInv'
  <1>1. CASE Begin(p)
    BY <1>1, BeginKeepsJobs
  <1>2. CASE BeginFails(p)
    <2>1. /\ stage[p] = "locked" /\ failures' = failures + 1 /\ lock' = Nil
          /\ stage' = [stage EXCEPT ![p] = "none"]
          /\ UNCHANGED <<file, active, result, jobs, kills>>
      BY <1>2 DEF BeginFails, disk
    <2>2. lock = p /\ active[p] = Nil
      BY <2>1 DEF JobsInv, HolderWorks
    <2>3. active' = [active EXCEPT ![p] = Nil]
      BY <2>1, <2>2 DEF JobsInv, CoreType
    <2>4. failures \in Nat /\ kills \in Nat /\ result \in [Procs -> Outcome \cup {"pending"}]
      BY DEF JobsInv, CoreType
    <2>5. failures' \in Nat /\ failures' # 0 /\ kills' \in Nat
      BY <2>1, <2>4
    <2>6. lock' = IF lock = p THEN Nil ELSE lock
      BY <2>1, <2>2
    <2> QED
      BY <2>1, <2>3, <2>4, <2>5, <2>6, LeavingKeepsJobs
  <1>3. CASE SetRunning(p)
    <2> DEFINE r == [active[p] EXCEPT !.benchmarks[at[p]] = "running"]
    <2>1. /\ stage[p] = "begin" /\ Persist(p, r)
          /\ stage' = [stage EXCEPT ![p] = "run"]
          /\ UNCHANGED <<lock, result, jobs, kills>>
      BY <1>3 DEF SetRunning
    <2>2. active[p] # Nil /\ active[p] \in Report
      BY <2>1 DEF JobsInv, CoreType, HolderWorks
    <2>3. r \in Report /\ r.job = active[p].job
      BY <2>2, BenchmarkNoted DEF Status
    <2> HIDE DEF r
    <2>4. result' \in [Procs -> Outcome \cup {"pending"}]
      BY <2>1 DEF JobsInv, CoreType
    <2> QED
      BY <2>1, <2>2, <2>3, <2>4, WriteKeepsJobs
  <1>4. CASE Deadline(p)
    BY <1>4, QuietKeepsJobs DEF Deadline, disk, JobsInv, CoreType
  <1>5. CASE RunBenchmark(p)
    <2>1. RunResults(p) \subseteq Outcome
      BY StressManagerAssumption DEF RunResults, Outcome
    <2>2. result' \in [Procs -> Outcome \cup {"pending"}]
      BY <1>5, <2>1 DEF RunBenchmark, JobsInv, CoreType
    <2> QED
      BY <1>5, <2>2, QuietKeepsJobs DEF RunBenchmark, disk
  <1>6. CASE FinishBenchmark(p)
    <2> DEFINE r == [active[p] EXCEPT !.benchmarks[at[p]] = result[p]]
    <2>1. /\ stage[p] = "ran" /\ Persist(p, r)
          /\ \/ stage' = [stage EXCEPT ![p] = "final"]
             \/ stage' = [stage EXCEPT ![p] = "begin"]
          /\ result' = [result EXCEPT ![p] = "pending"]
          /\ UNCHANGED <<lock, jobs, kills>>
      BY <1>6 DEF FinishBenchmark
    <2>2. active[p] # Nil /\ active[p] \in Report /\ result[p] \in Status
      BY <2>1 DEF JobsInv, CoreType, HolderWorks, Status
    <2>3. r \in Report /\ r.job = active[p].job
      BY <2>2, BenchmarkNoted
    <2> HIDE DEF r
    <2>4. result' \in [Procs -> Outcome \cup {"pending"}]
      BY <2>1 DEF JobsInv, CoreType
    <2>5. CASE stage' = [stage EXCEPT ![p] = "final"]
      BY <2>1, <2>2, <2>3, <2>4, <2>5, WriteKeepsJobs
    <2>6. CASE stage' = [stage EXCEPT ![p] = "begin"]
      BY <2>1, <2>2, <2>3, <2>4, <2>6, WriteKeepsJobs
    <2> QED
      BY <2>1, <2>5, <2>6
  <1>7. CASE FinalReport(p)
    <2> DEFINE r == Ended(active[p])
    <2>1. /\ stage[p] = "final" /\ Persist(p, r)
          /\ stage' = [stage EXCEPT ![p] = "archiving"]
          /\ UNCHANGED <<lock, result, jobs, kills>>
      BY <1>7 DEF FinalReport
    <2>2. active[p] # Nil /\ active[p] \in Report
      BY <2>1 DEF JobsInv, CoreType, HolderWorks
    <2>3. r \in Report /\ r.job = active[p].job /\ r.status # "running"
      BY <2>2, EndedIsOver
    <2> HIDE DEF r
    <2>4. result' \in [Procs -> Outcome \cup {"pending"}]
      BY <2>1 DEF JobsInv, CoreType
    <2> QED
      BY <2>1, <2>2, <2>3, <2>4, WriteKeepsJobs
  <1>8. CASE AppendHistory(p)
    BY <1>8, ArchivingKeepsJobs
  <1>9. CASE Release(p)
    <2>1. /\ stage[p] = "releasing" /\ lock' = Nil
          /\ active' = [active EXCEPT ![p] = Nil]
          /\ stage' = [stage EXCEPT ![p] = "none"]
          /\ UNCHANGED <<file, result, jobs, failures, kills>>
      BY <1>9 DEF Release, disk
    <2>2. lock = p
      BY <2>1 DEF JobsInv, HolderWorks
    <2>3. failures \in Nat /\ kills \in Nat /\ result \in [Procs -> Outcome \cup {"pending"}]
      BY DEF JobsInv, CoreType
    <2>4. lock' = IF lock = p THEN Nil ELSE lock
      BY <2>1, <2>2
    <2> QED
      BY <2>1, <2>3, <2>4, LeavingKeepsJobs
  <1> QED
    BY <1>1, <1>2, <1>3, <1>4, <1>5, <1>6, <1>7, <1>8, <1>9 DEF JobStep

\* Every step of the system keeps the invariant.
LEMMA JobsInvNext == JobsInv /\ [Next]_vars => JobsInv'
  <1> SUFFICES ASSUME JobsInv, [Next]_vars PROVE JobsInv'
    OBVIOUS
  <1>1. CASE UNCHANGED vars
    BY <1>1 DEF vars, disk, inner, JobsInv, CoreType, HolderWorks, FileIsOwn, RunningIsRun
  <1>2. ASSUME NEW p \in Procs,
               Busy(p) \/ Cancel(p) \/ Latest(p) \/ Poll(p) \/ Shutdown(p) \/ Restart(p)
        PROVE  JobsInv'
    <2>1. UNCHANGED <<file, lock, active, stage, result, jobs, failures, kills>>
      BY <1>2 DEF Busy, Cancel, Latest, Poll, Shutdown, Restart, disk, inner
    <2>2. result' \in [Procs -> Outcome \cup {"pending"}]
      BY <2>1 DEF JobsInv, CoreType
    <2> QED
      BY <2>1, <2>2, QuietKeepsJobs
  <1>3. ASSUME NEW p \in Procs, Exit(p) \/ Kill(p)
        PROVE  JobsInv'
    <2>1. /\ lock' = IF lock = p THEN Nil ELSE lock
          /\ active' = [active EXCEPT ![p] = Nil]
          /\ stage' = [stage EXCEPT ![p] = "none"]
          /\ result' = [result EXCEPT ![p] = "pending"]
          /\ UNCHANGED <<file, jobs, failures>>
      BY <1>3 DEF Exit, Kill, Gone, disk
    <2>2. \/ kills' = kills /\ active[p] = Nil
          \/ kills' = kills + 1
      BY <1>3 DEF Exit, Kill
    <2>3. failures' \in Nat /\ kills' \in Nat /\ (kills' = 0 => kills = 0 /\ active[p] = Nil)
      BY <2>1, <2>2 DEF JobsInv, CoreType
    <2>4. result' \in [Procs -> Outcome \cup {"pending"}]
      BY <2>1 DEF JobsInv, CoreType
    <2>5. failures' = 0 /\ kills' = 0 =>
              stage[p] \notin {"begin", "run", "expired", "ran", "final"}
      BY <2>2, <2>3 DEF JobsInv, HolderWorks
    <2> QED
      BY <2>1, <2>3, <2>4, <2>5, LeavingKeepsJobs
  <1>4. ASSUME NEW p \in Procs, Lock(p) PROVE JobsInv'
    BY <1>4, LockKeepsJobs
  <1>5. ASSUME NEW p \in Procs, JobStep(p) PROVE JobsInv'
    BY <1>5, JobStepKeepsJobs
  <1> QED
    BY <1>1, <1>2, <1>3, <1>4, <1>5 DEF Next

-----------------------------------------------------------------------------
\* The processes, the kernel lock and the report file agree: never two jobs,
\* the file is about the active one, and "running" means that the lock is held.
THEOREM FileFollowsTheLock == Spec => []FileAgreesWithJobs
  <1>1. JobsInv => FileAgreesWithJobs
    <2> SUFFICES ASSUME JobsInv PROVE FileAgreesWithJobs
      OBVIOUS
    <2>1. MutualExclusion
      BY DEF JobsInv, HolderWorks, MutualExclusion
    <2>2. RunningMeansHeld
      BY DEF JobsInv, RunningIsRun, RunningMeansHeld
    <2> QED
      BY <2>1, <2>2 DEF JobsInv, FileAgreesWithJobs
  <1> QED
    BY <1>1, JobsInvInit, JobsInvNext, PTL DEF Spec

\* The same with fairness, as the run checks it.
COROLLARY FairFileFollowsTheLock == FairSpec => []FileAgreesWithJobs
  BY FileFollowsTheLock, PTL DEF FairSpec

-----------------------------------------------------------------------------
\* The reports.  Progress says how far the report of an active job is, Spared
\* what is known of the benchmarks a cancellation was in time for.
MoreType ==
    /\ at \in [Procs -> Nat]
    /\ cancelled \in [Procs -> BOOLEAN]
    /\ final \in [1..MaxJobs -> Report \cup {Nil}]
    /\ spared \in [Procs -> SUBSET (1..Benchmarks)]

Progress(b, st, n, o) ==
    /\ st = "begin" =>
          /\ n \in 1..Benchmarks
          /\ \A i \in 1..(n - 1) : b[i] \in Outcome
          /\ \A i \in n..Benchmarks : b[i] = "pending"
    /\ st \in {"run", "expired", "ran"} =>
          /\ n \in 1..Benchmarks
          /\ \A i \in 1..(n - 1) : b[i] \in Outcome
          /\ b[n] = "running"
          /\ \A i \in (n + 1)..Benchmarks : b[i] = "pending"
    /\ st = "ran" => o \in Outcome
    /\ st \in {"final", "archiving", "releasing"} =>
          \A i \in 1..Benchmarks : b[i] \in Outcome

Ran == {"healthy", "time_limit_reached", "unhealthy"}

Spared(b, st, n, o, c, s) ==
    /\ s # {} => c = TRUE
    /\ \A i \in s : b[i] \notin Ran
    /\ st = "expired" => n \notin s
    /\ st = "ran" /\ n \in s => o \notin Ran

JobSound(p) ==
    /\ active[p] # Nil =>
          /\ Progress(active[p].benchmarks, stage[p], at[p], result[p])
          /\ Spared(active[p].benchmarks, stage[p], at[p], result[p], cancelled[p], spared[p])
    /\ active[p] = Nil => spared[p] = {}

ReportsInv == JobsInv /\ MoreType /\ FinalReportSound /\ \A p \in Procs : JobSound(p)

\* The benchmarks of a report with a result noted.
LEMMA NotedBenchmarks ==
    ASSUME NEW r \in Report, NEW i, NEW o \in Status
    PROVE  [r EXCEPT !.benchmarks[i] = o].benchmarks = [r.benchmarks EXCEPT ![i] = o]
  BY DEF Report

\* A benchmark starts.
LEMMA ProgressStarts ==
    ASSUME NEW b \in Results, NEW n, NEW o, NEW c, NEW s \in SUBSET (1..Benchmarks),
           Progress(b, "begin", n, o), Spared(b, "begin", n, o, c, s)
    PROVE  /\ Progress([b EXCEPT ![n] = "running"], "run", n, o)
           /\ Spared([b EXCEPT ![n] = "running"], "run", n, o, c, s)
  BY StressReportAssumption DEF Progress, Spared, Results, Ran

\* A benchmark ends, and there is another one or not.
LEMMA ProgressEnds ==
    ASSUME NEW b \in Results, NEW n, NEW o, NEW c, NEW s \in SUBSET (1..Benchmarks),
           Progress(b, "ran", n, o), Spared(b, "ran", n, o, c, s), NEW x,
           NEW d, d = [b EXCEPT ![n] = o]
    PROVE  /\ n = Benchmarks => Progress(d, "final", n, x) /\ Spared(d, "final", n, x, c, s)
           /\ n # Benchmarks =>
                  Progress(d, "begin", n + 1, x) /\ Spared(d, "begin", n + 1, x, c, s)
  <1>1. /\ n \in 1..Benchmarks /\ o \in Outcome /\ d[n] = o
        /\ \A i \in 1..Benchmarks : i # n => d[i] = b[i]
        /\ \A i \in 1..(n - 1) : b[i] \in Outcome
        /\ \A i \in (n + 1)..Benchmarks : b[i] = "pending"
    BY DEF Progress, Results
  <1>2. s # {} => c = TRUE
    BY DEF Spared
  <1>3. \A i \in s : d[i] \notin Ran
    BY <1>1 DEF Spared
  <1>4. n = Benchmarks => Progress(d, "final", n, x)
    BY <1>1, StressReportAssumption DEF Progress
  <1>5. n # Benchmarks => Progress(d, "begin", n + 1, x)
    BY <1>1, StressReportAssumption DEF Progress
  <1>6. Spared(d, "final", n, x, c, s) /\ Spared(d, "begin", n + 1, x, c, s)
    BY <1>2, <1>3 DEF Spared
  <1> QED
    BY <1>4, <1>5, <1>6

\* A cancellation spares what has not been started.
LEMMA CancelSpares ==
    ASSUME NEW b \in Results, NEW n, NEW o, NEW c, NEW s, NEW st,
           Progress(b, st, n, o), Spared(b, st, n, o, c, s),
           NEW t, \A i \in t : i \in s \/ b[i] = "pending"
    PROVE  Spared(b, st, n, o, TRUE, t)
  BY DEF Progress, Spared, Ran

\* The final report of a job whose benchmarks have all been looked at.
LEMMA FinalIsSound ==
    ASSUME NEW b \in Results, \A i \in 1..Benchmarks : b[i] \in Outcome
    PROVE  /\ Aggregate(b) = "healthy" <=>
                  \A i \in 1..Benchmarks : b[i] \in {"healthy", "time_limit_reached"}
           /\ Some(b, "unhealthy") => Aggregate(b) = "unhealthy"
  BY DEF Aggregate, Some

\* A step of one process keeps what is said of the others.
LEMMA OneProcessMoves ==
    ASSUME ReportsInv, JobsInv', NEW p \in Procs, MoreType', FinalReportSound',
           \A q \in Procs \ {p} :
              /\ active'[q] = active[q] /\ stage'[q] = stage[q] /\ at'[q] = at[q]
              /\ result'[q] = result[q] /\ cancelled'[q] = cancelled[q]
              /\ spared'[q] = spared[q],
           JobSound(p)'
    PROVE  ReportsInv'
  BY DEF ReportsInv, JobSound

\* What a step that persists r does to the report of its process.
LEMMA PersistedReport ==
    ASSUME JobsInv, NEW p \in Procs, NEW r \in Report,
           active[p] # Nil, r.job = active[p].job, Persist(p, r)
    PROVE  /\ active'[p] \in Report
           /\ active'[p].benchmarks = r.benchmarks /\ active'[p].status = r.status
           /\ \A q \in Procs \ {p} : active'[q] = active[q]
  BY Persisted

\* The next benchmark is started.
LEMMA SetRunningKeepsReports ==
    ASSUME ReportsInv, JobsInv', NEW p \in Procs, SetRunning(p)
    PROVE  ReportsInv'
  <1> DEFINE r == [active[p] EXCEPT !.benchmarks[at[p]] = "running"]
  <1>1. /\ stage[p] = "begin" /\ Persist(p, r)
        /\ stage' = [stage EXCEPT ![p] = "run"]
        /\ UNCHANGED <<at, result, cancelled, spared, final>>
    BY DEF SetRunning
  <1>2. active[p] \in Report /\ active[p] # Nil
    BY <1>1 DEF ReportsInv, JobsInv, CoreType, HolderWorks
  <1>3. r \in Report /\ r.job = active[p].job
    BY <1>2, BenchmarkNoted DEF Status
  <1>4. r.benchmarks = [active[p].benchmarks EXCEPT ![at[p]] = "running"]
    BY <1>2, NotedBenchmarks DEF Status
  <1> HIDE DEF r
  <1>5. /\ active'[p].benchmarks = r.benchmarks
        /\ \A q \in Procs \ {p} : active'[q] = active[q]
    BY <1>1, <1>2, <1>3, PersistedReport DEF ReportsInv
  <1>6. /\ Progress(active[p].benchmarks, "begin", at[p], result[p])
        /\ Spared(active[p].benchmarks, "begin", at[p], result[p], cancelled[p], spared[p])
    BY <1>1, <1>2 DEF ReportsInv, JobSound
  <1>7. active[p].benchmarks \in Results /\ spared[p] \in SUBSET (1..Benchmarks)
    BY <1>2 DEF Report, ReportsInv, MoreType
  <1>8. /\ Progress(r.benchmarks, "run", at[p], result[p])
        /\ Spared(r.benchmarks, "run", at[p], result[p], cancelled[p], spared[p])
    BY <1>4, <1>6, <1>7, ProgressStarts
  <1>9. stage'[p] = "run" /\ \A q \in Procs \ {p} : stage'[q] = stage[q]
    BY <1>1 DEF ReportsInv, JobsInv, CoreType
  <1>10. JobSound(p)'
    <2>1. active'[p] # Nil
      BY <1>9 DEF JobsInv, HolderWorks
    <2> QED
      BY <2>1, <1>1, <1>5, <1>8, <1>9 DEF JobSound
  <1>11. MoreType' /\ FinalReportSound'
    BY <1>1 DEF ReportsInv, MoreType, FinalReportSound
  <1> QED
    BY <1>1, <1>5, <1>9, <1>10, <1>11, OneProcessMoves

\* A benchmark's result is noted.
LEMMA FinishKeepsReports ==
    ASSUME ReportsInv, JobsInv', NEW p \in Procs, FinishBenchmark(p)
    PROVE  ReportsInv'
  <1> DEFINE r == [active[p] EXCEPT !.benchmarks[at[p]] = result[p]]
  <1>1. /\ stage[p] = "ran" /\ Persist(p, r)
        /\ \/ /\ at[p] = Benchmarks /\ at' = at
              /\ stage' = [stage EXCEPT ![p] = "final"]
           \/ /\ at[p] # Benchmarks /\ at' = [at EXCEPT ![p] = at[p] + 1]
              /\ stage' = [stage EXCEPT ![p] = "begin"]
        /\ result' = [result EXCEPT ![p] = "pending"]
        /\ UNCHANGED <<cancelled, spared, final>>
    BY DEF FinishBenchmark
  <1>2. active[p] \in Report /\ active[p] # Nil /\ result[p] \in Status
    BY <1>1 DEF ReportsInv, JobsInv, CoreType, HolderWorks, Status
  <1>3. r \in Report /\ r.job = active[p].job
    BY <1>2, BenchmarkNoted
  <1>4. r.benchmarks = [active[p].benchmarks EXCEPT ![at[p]] = result[p]]
    BY <1>2, NotedBenchmarks
  <1> HIDE DEF r
  <1>5. /\ active'[p].benchmarks = r.benchmarks
        /\ \A q \in Procs \ {p} : active'[q] = active[q]
    BY <1>1, <1>2, <1>3, PersistedReport DEF ReportsInv
  <1>6. /\ Progress(active[p].benchmarks, "ran", at[p], result[p])
        /\ Spared(active[p].benchmarks, "ran", at[p], result[p], cancelled[p], spared[p])
    BY <1>1, <1>2 DEF ReportsInv, JobSound
  <1>7. active[p].benchmarks \in Results /\ spared[p] \in SUBSET (1..Benchmarks)
    BY <1>2 DEF Report, ReportsInv, MoreType
  <1> DEFINE s == spared[p]
             c == cancelled[p]
             b == r.benchmarks
  <1>8. /\ at[p] = Benchmarks =>
              Progress(b, "final", at[p], "pending") /\ Spared(b, "final", at[p], "pending", c, s)
        /\ at[p] # Benchmarks =>
              Progress(b, "begin", at[p] + 1, "pending") /\ Spared(b, "begin", at[p] + 1, "pending", c, s)
    <2> DEFINE e == active[p].benchmarks
               o == result[p]
               n == at[p]
    <2>1. e \in Results /\ s \in SUBSET (1..Benchmarks) /\ b = [e EXCEPT ![n] = o]
      BY <1>4, <1>7
    <2>2. Progress(e, "ran", n, o) /\ Spared(e, "ran", n, o, c, s)
      BY <1>6
    <2> HIDE DEF b, c, s, e, o, n
    <2>3. /\ n = Benchmarks => Progress(b, "final", n, "pending") /\ Spared(b, "final", n, "pending", c, s)
          /\ n # Benchmarks =>
                Progress(b, "begin", n + 1, "pending") /\ Spared(b, "begin", n + 1, "pending", c, s)
      BY <2>1, <2>2, ProgressEnds
    <2> QED
      BY <2>3 DEF n
  <1>9. /\ at \in [Procs -> Nat] /\ stage \in [Procs -> Stage]
        /\ result \in [Procs -> Outcome \cup {"pending"}]
    BY DEF ReportsInv, MoreType, JobsInv, CoreType
  <1>10. /\ result'[p] = "pending"
         /\ \/ at[p] = Benchmarks /\ at'[p] = at[p] /\ stage'[p] = "final"
            \/ at[p] # Benchmarks /\ at'[p] = at[p] + 1 /\ stage'[p] = "begin"
         /\ \A q \in Procs \ {p} : /\ stage'[q] = stage[q] /\ at'[q] = at[q]
                                   /\ result'[q] = result[q]
         /\ at' \in [Procs -> Nat]
    BY <1>1, <1>9
  <1>11. JobSound(p)'
    <2>1. active'[p] # Nil
      BY <1>10 DEF JobsInv, HolderWorks
    <2>2. cancelled'[p] = c /\ spared'[p] = s
      BY <1>1
    <2>3. active'[p].benchmarks = b
      BY <1>5
    <2> HIDE DEF b, c, s
    <2> QED
      BY <2>1, <2>2, <2>3, <1>8, <1>10 DEF JobSound
  <1>12. MoreType' /\ FinalReportSound'
    BY <1>1, <1>10 DEF ReportsInv, MoreType, FinalReportSound
  <1> QED
    BY <1>1, <1>5, <1>10, <1>11, <1>12, OneProcessMoves

\* The final report of a job.
LEMMA FinalKeepsReports ==
    ASSUME ReportsInv, JobsInv', NEW p \in Procs, FinalReport(p)
    PROVE  ReportsInv'
  <1> DEFINE r == Ended(active[p])
             b == active[p].benchmarks
  <1>1. /\ stage[p] = "final" /\ Persist(p, r)
        /\ final' = [final EXCEPT ![active[p].job] = active'[p]]
        /\ stage' = [stage EXCEPT ![p] = "archiving"]
        /\ UNCHANGED <<at, result, cancelled, spared>>
    BY DEF FinalReport
  <1>2. active[p] \in Report /\ active[p] # Nil
    BY <1>1 DEF ReportsInv, JobsInv, CoreType, HolderWorks
  <1>3. r \in Report /\ r.job = active[p].job /\ r.benchmarks = b /\ r.status = Aggregate(b)
    BY <1>2, EndedIsOver
  <1> HIDE DEF r
  <1>4. /\ active'[p] \in Report
        /\ active'[p].benchmarks = b /\ active'[p].status = Aggregate(b)
        /\ \A q \in Procs \ {p} : active'[q] = active[q]
    BY <1>1, <1>2, <1>3, PersistedReport DEF ReportsInv
  <1>5. /\ Progress(b, "final", at[p], result[p])
        /\ Spared(b, "final", at[p], result[p], cancelled[p], spared[p])
    BY <1>1, <1>2 DEF ReportsInv, JobSound
  <1>6. b \in Results /\ \A i \in 1..Benchmarks : b[i] \in Outcome
    BY <1>2, <1>5 DEF Report, Progress
  <1>7. stage'[p] = "archiving" /\ \A q \in Procs \ {p} : stage'[q] = stage[q]
    BY <1>1 DEF ReportsInv, JobsInv, CoreType
  <1>8. JobSound(p)'
    <2>1. active'[p] # Nil
      BY <1>4, StressManagerAssumption
    <2>2. /\ Progress(b, "archiving", at[p], result[p])
          /\ Spared(b, "archiving", at[p], result[p], cancelled[p], spared[p])
      BY <1>5, <1>6 DEF Progress, Spared
    <2> QED
      BY <2>1, <2>2, <1>1, <1>4, <1>7 DEF JobSound
  <1>9. MoreType'
    BY <1>1, <1>4 DEF ReportsInv, MoreType
  <1>10. FinalReportSound'
    <2> SUFFICES ASSUME NEW j \in 1..MaxJobs, final'[j] # Nil
                 PROVE  /\ \A i \in 1..Benchmarks : final'[j].benchmarks[i] \in Outcome
                        /\ final'[j].status = "healthy" <=>
                               \A i \in 1..Benchmarks :
                                   final'[j].benchmarks[i] \in {"healthy", "time_limit_reached"}
                        /\ Some(final'[j].benchmarks, "unhealthy") => final'[j].status = "unhealthy"
      BY DEF FinalReportSound
    <2>1. CASE j = active[p].job
      <3>1. final'[j] = active'[p]
        BY <1>1, <2>1 DEF ReportsInv, MoreType
      <3> QED
        BY <3>1, <1>4, <1>6, FinalIsSound
    <2>2. CASE j # active[p].job
      <3>1. final'[j] = final[j]
        BY <1>1, <2>2 DEF ReportsInv, MoreType
      <3> QED
        BY <3>1 DEF ReportsInv, FinalReportSound
    <2> QED
      BY <2>1, <2>2
  <1> QED
    BY <1>1, <1>4, <1>7, <1>8, <1>9, <1>10, OneProcessMoves

\* A benchmark runs, to its deadline or its end; the history is written.
LEMMA RunKeepsReports ==
    ASSUME ReportsInv, JobsInv', NEW p \in Procs,
           Deadline(p) \/ RunBenchmark(p) \/ AppendHistory(p)
    PROVE  ReportsInv'
  <1> DEFINE b == active[p].benchmarks
             c == cancelled[p]
             s == spared[p]
  <1>1. UNCHANGED <<active, at, cancelled, spared, final>>
    BY DEF Deadline, RunBenchmark, AppendHistory
  <1>2. \A q \in Procs \ {p} : stage'[q] = stage[q] /\ result'[q] = result[q]
    BY DEF Deadline, RunBenchmark, AppendHistory, ReportsInv, JobsInv, CoreType
  <1>3. stage[p] \notin {"none", "locked"} /\ active[p] # Nil
    BY DEF Deadline, RunBenchmark, AppendHistory, ReportsInv, JobsInv, HolderWorks
  <1>4. Progress(b, stage[p], at[p], result[p]) /\ Spared(b, stage[p], at[p], result[p], c, s)
    BY <1>3 DEF ReportsInv, JobSound
  <1>5. Progress(b, stage'[p], at[p], result'[p]) /\ Spared(b, stage'[p], at[p], result'[p], c, s)
    <2>1. CASE Deadline(p)
      <3>1. stage[p] = "run" /\ c # TRUE /\ stage'[p] = "expired" /\ result'[p] = result[p]
        BY <2>1 DEF Deadline, ReportsInv, JobsInv, CoreType, MoreType
      <3> QED
        BY <3>1, <1>4 DEF Progress, Spared
    <2>2. CASE RunBenchmark(p)
      <3>1. /\ stage[p] \in {"run", "expired"} /\ stage'[p] = "ran"
            /\ result'[p] \in RunResults(p)
        BY <2>2 DEF RunBenchmark, ReportsInv, JobsInv, CoreType
      <3>2. RunResults(p) \subseteq Outcome
        BY StressManagerAssumption DEF RunResults, Outcome
      <3>3. at[p] \in s => result'[p] \notin Ran
        <4> SUFFICES ASSUME at[p] \in s PROVE result'[p] \notin Ran
          OBVIOUS
        <4>1. stage[p] = "run" /\ c = TRUE
          BY <3>1, <1>4 DEF Spared
        <4>2. RunResults(p) = {"cancelled"} \cup (Outcomes \cap {"unavailable", "unsupported"})
          BY <4>1 DEF RunResults
        <4> QED
          BY <3>1, <4>2 DEF Ran
      <3>4. Progress(b, "ran", at[p], result'[p])
        BY <3>1, <3>2, <1>4 DEF Progress
      <3>5. Spared(b, "ran", at[p], result'[p], c, s)
        BY <3>3, <1>4 DEF Spared
      <3> QED
        BY <3>1, <3>4, <3>5
    <2>3. CASE AppendHistory(p)
      <3>1. /\ stage[p] = "archiving" /\ stage'[p] = "releasing"
            /\ result'[p] = result[p]
        BY <2>3 DEF AppendHistory, ReportsInv, JobsInv, CoreType
      <3> QED
        BY <3>1, <1>4 DEF Progress, Spared
    <2> QED
      BY <2>1, <2>2, <2>3
  <1>6. JobSound(p)'
    BY <1>1, <1>3, <1>5 DEF JobSound
  <1>7. MoreType' /\ FinalReportSound'
    BY <1>1 DEF ReportsInv, MoreType, FinalReportSound
  <1> QED
    BY <1>1, <1>2, <1>6, <1>7, OneProcessMoves

\* A job begins: nothing of it was run, and nothing spared.
LEMMA BeginKeepsReports ==
    ASSUME ReportsInv, JobsInv', NEW p \in Procs, Begin(p)
    PROVE  ReportsInv'
  <1> DEFINE r == Started(NewJob)
             b == [i \in 1..Benchmarks |-> "pending"]
  <1>1. /\ stage[p] = "locked" /\ active' = [active EXCEPT ![p] = r]
        /\ stage' = [stage EXCEPT ![p] = "begin"] /\ at' = [at EXCEPT ![p] = 1]
        /\ UNCHANGED <<result, cancelled, spared, final>>
    BY DEF Begin
  <1>2. r.benchmarks = b
    BY DEF Started
  <1> HIDE DEF r
  <1>3. active[p] = Nil /\ spared[p] = {}
    BY <1>1 DEF ReportsInv, JobsInv, HolderWorks, JobSound
  <1>4. /\ active'[p] = r /\ stage'[p] = "begin" /\ at'[p] = 1
        /\ \A q \in Procs \ {p} : /\ active'[q] = active[q] /\ stage'[q] = stage[q]
                                  /\ at'[q] = at[q]
        /\ at' \in [Procs -> Nat]
    BY <1>1 DEF ReportsInv, JobsInv, CoreType, MoreType
  <1>5. Progress(b, "begin", 1, result'[p])
    BY StressReportAssumption DEF Progress
  <1>6. Spared(b, "begin", 1, result'[p], cancelled'[p], {})
    BY DEF Spared
  <1>7. JobSound(p)'
    <2>1. active'[p] # Nil
      BY <1>4 DEF JobsInv, HolderWorks
    <2>2. spared'[p] = {} /\ active'[p].benchmarks = b
      BY <1>1, <1>2, <1>3, <1>4
    <2> HIDE DEF b
    <2> QED
      BY <2>1, <2>2, <1>4, <1>5, <1>6 DEF JobSound
  <1>8. MoreType' /\ FinalReportSound'
    BY <1>1, <1>4 DEF ReportsInv, MoreType, FinalReportSound
  <1> QED
    BY <1>1, <1>4, <1>7, <1>8, OneProcessMoves

\* A cancellation spares what it is in time for.
LEMMA CancelKeepsReports ==
    ASSUME ReportsInv, JobsInv', NEW p \in Procs, Cancel(p) \/ Shutdown(p)
    PROVE  ReportsInv'
  <1> DEFINE b == active[p].benchmarks
             t == spared[p] \cup NotStarted(p)
  <1>1. /\ UNCHANGED <<active, stage, at, result, final>>
        /\ spared' = [spared EXCEPT ![p] = t]
        /\ \/ cancelled' = [cancelled EXCEPT ![p] = TRUE]
           \/ cancelled' = [cancelled EXCEPT ![p] = @ \/ active[p] # Nil]
    BY DEF Cancel, Shutdown
  <1>2. t \in SUBSET (1..Benchmarks)
    BY DEF NotStarted, ReportsInv, MoreType
  <1>3. /\ active[p] # Nil => cancelled'[p] = TRUE
        /\ cancelled' \in [Procs -> BOOLEAN]
        /\ \A q \in Procs \ {p} : cancelled'[q] = cancelled[q]
    BY <1>1, Zenon DEF ReportsInv, MoreType
  <1>4. spared'[p] = t /\ \A q \in Procs \ {p} : spared'[q] = spared[q]
    BY <1>1 DEF ReportsInv, MoreType
  <1>5. \A i \in t : i \in spared[p] \/ b[i] = "pending"
    BY DEF NotStarted
  <1>6. active[p] = Nil => t = {}
    BY DEF NotStarted, ReportsInv, JobSound
  <1>7. MoreType'
    BY <1>1, <1>2, <1>3 DEF ReportsInv, MoreType
  <1>8. JobSound(p)'
    <2>1. CASE active[p] = Nil
      BY <2>1, <1>1, <1>4, <1>6 DEF JobSound
    <2>2. CASE active[p] # Nil
      <3>1. /\ Progress(b, stage[p], at[p], result[p])
            /\ Spared(b, stage[p], at[p], result[p], cancelled[p], spared[p])
        BY <2>2 DEF ReportsInv, JobSound
      <3>2. b \in Results
        BY <2>2 DEF ReportsInv, JobsInv, CoreType, Report
      <3> HIDE DEF b, t
      <3>3. Spared(b, stage[p], at[p], result[p], TRUE, t)
        BY <3>1, <3>2, <1>5, CancelSpares
      <3> QED
        BY <2>2, <3>1, <3>3, <1>1, <1>3, <1>4 DEF JobSound, b
    <2> QED
      BY <2>1, <2>2
  <1>9. FinalReportSound'
    BY <1>1 DEF ReportsInv, FinalReportSound
  <1> QED
    BY <1>1, <1>3, <1>4, <1>7, <1>8, <1>9, OneProcessMoves

\* Steps of a process that has no job, or has none any more.
LEMMA IdleKeepsReports ==
    ASSUME ReportsInv, JobsInv', NEW p \in Procs, UNCHANGED final, MoreType',
           active'[p] = Nil /\ spared'[p] = {},
           \A q \in Procs \ {p} :
              /\ active'[q] = active[q] /\ stage'[q] = stage[q] /\ at'[q] = at[q]
              /\ result'[q] = result[q] /\ cancelled'[q] = cancelled[q]
              /\ spared'[q] = spared[q]
    PROVE  ReportsInv'
  <1>1. FinalReportSound' /\ JobSound(p)'
    BY DEF ReportsInv, FinalReportSound, JobSound
  <1> QED
    BY <1>1, OneProcessMoves

\* Nothing has been run or cancelled yet; the reports of earlier jobs are healthy.
LEMMA ReportsInvInit == Init => ReportsInv
  <1> SUFFICES ASSUME Init PROVE ReportsInv
    OBVIOUS
  <1>1. JobsInv
    BY JobsInvInit
  <1>2. ASSUME NEW j \in Nat \ {0}
        PROVE  /\ Earlier(j) \in Report /\ Earlier(j).status = "healthy"
               /\ \A i \in 1..Benchmarks : Earlier(j).benchmarks[i] = "healthy"
    BY EarlierIsHealthy
  <1>3. \A j \in 1..MaxJobs :
            \/ final[j] = Nil
            \/ /\ final[j] \in Report /\ final[j].status = "healthy"
               /\ \A i \in 1..Benchmarks : final[j].benchmarks[i] = "healthy"
    <2> TAKE j \in 1..MaxJobs
    <2>1. j \in Nat \ {0}
      BY StressManagerAssumption
    <2>2. final[j] = Nil \/ final[j] = Earlier(j)
      BY DEF Init
    <2> QED
      BY <1>2, <2>1, <2>2
  <1>4. MoreType
    <2>1. final \in [1..MaxJobs -> Report \cup {Nil}]
      BY <1>3 DEF Init
    <2> QED
      BY <2>1 DEF Init, MoreType
  <1>5. FinalReportSound
    BY <1>3, StressReportAssumption DEF FinalReportSound, Outcome, Some
  <1>6. \A p \in Procs : JobSound(p)
    BY DEF Init, JobSound
  <1> QED
    BY <1>1, <1>4, <1>5, <1>6 DEF ReportsInv

\* Every step of the system keeps the invariant of the reports.
LEMMA ReportsInvNext == ReportsInv /\ [Next]_vars => ReportsInv'
  <1> SUFFICES ASSUME ReportsInv, [Next]_vars PROVE ReportsInv'
    OBVIOUS
  <1>1. JobsInv'
    BY JobsInvNext DEF ReportsInv
  <1>2. CASE UNCHANGED vars
    BY <1>1, <1>2 DEF vars, disk, inner, ReportsInv, MoreType, FinalReportSound, JobSound
  <1>3. ASSUME NEW p \in Procs, Busy(p) \/ Latest(p) \/ Poll(p) \/ Restart(p)
        PROVE  ReportsInv'
    <2>1. UNCHANGED <<active, stage, at, result, cancelled, spared, final>>
      BY <1>3 DEF Busy, Latest, Poll, Restart, inner
    <2> QED
      BY <1>1, <2>1 DEF ReportsInv, MoreType, FinalReportSound, JobSound
  <1>4. ASSUME NEW p \in Procs, Lock(p) \/ BeginFails(p)
        PROVE  ReportsInv'
    <2>1. /\ UNCHANGED <<active, at, result, cancelled, spared, final>>
          /\ stage[p] = "locked" \/ active[p] = Nil
          /\ \E st \in Stage : stage' = [stage EXCEPT ![p] = st]
      BY <1>4 DEF Lock, BeginFails, Stage
    <2>2. active[p] = Nil /\ spared[p] = {}
      BY <2>1 DEF ReportsInv, JobsInv, HolderWorks, JobSound
    <2>3. \A q \in Procs \ {p} : stage'[q] = stage[q]
      BY <2>1 DEF ReportsInv, JobsInv, CoreType
    <2>4. MoreType'
      BY <2>1 DEF ReportsInv, MoreType
    <2> QED
      BY <1>1, <2>1, <2>2, <2>3, <2>4, IdleKeepsReports
  <1>5. ASSUME NEW p \in Procs, Release(p) \/ Exit(p) \/ Kill(p)
        PROVE  ReportsInv'
    <2>1. /\ UNCHANGED final
          /\ active' = [active EXCEPT ![p] = Nil]
          /\ spared' = [spared EXCEPT ![p] = {}]
          /\ stage' = [stage EXCEPT ![p] = "none"]
          /\ at' = [at EXCEPT ![p] = 0]
          /\ cancelled' = [cancelled EXCEPT ![p] = FALSE]
          /\ result' = result \/ result' = [result EXCEPT ![p] = "pending"]
      BY <1>5 DEF Release, Exit, Kill, Gone
    <2>2. MoreType'
      BY <2>1 DEF ReportsInv, MoreType
    <2>3. active'[p] = Nil /\ spared'[p] = {}
      BY <2>1 DEF ReportsInv, JobsInv, CoreType, MoreType
    <2>4. \A q \in Procs \ {p} :
              /\ active'[q] = active[q] /\ stage'[q] = stage[q] /\ at'[q] = at[q]
              /\ result'[q] = result[q] /\ cancelled'[q] = cancelled[q]
              /\ spared'[q] = spared[q]
      BY <2>1 DEF ReportsInv, JobsInv, CoreType, MoreType
    <2> QED
      BY <1>1, <2>1, <2>2, <2>3, <2>4, IdleKeepsReports
  <1>6. ASSUME NEW p \in Procs, Cancel(p) \/ Shutdown(p) PROVE ReportsInv'
    BY <1>1, <1>6, CancelKeepsReports
  <1>7. ASSUME NEW p \in Procs, Begin(p) PROVE ReportsInv'
    BY <1>1, <1>7, BeginKeepsReports
  <1>8. ASSUME NEW p \in Procs, SetRunning(p) PROVE ReportsInv'
    BY <1>1, <1>8, SetRunningKeepsReports
  <1>9. ASSUME NEW p \in Procs, Deadline(p) \/ RunBenchmark(p) \/ AppendHistory(p)
        PROVE  ReportsInv'
    BY <1>1, <1>9, RunKeepsReports
  <1>10. ASSUME NEW p \in Procs, FinishBenchmark(p) PROVE ReportsInv'
    BY <1>1, <1>10, FinishKeepsReports
  <1>11. ASSUME NEW p \in Procs, FinalReport(p) PROVE ReportsInv'
    BY <1>1, <1>11, FinalKeepsReports
  <1> QED
    BY <1>2, <1>3, <1>4, <1>5, <1>6, <1>7, <1>8, <1>9, <1>10, <1>11 DEF Next, JobStep

-----------------------------------------------------------------------------
\* Final reports say what their benchmarks did, and what was cancelled in time
\* is never reported as run.
THEOREM ReportsTellTheTruth == Spec => []ReportsSound
  <1>1. ReportsInv => ReportsSound
    <2> SUFFICES ASSUME ReportsInv PROVE ReportsSound
      OBVIOUS
    <2>1. CancelStopsTheRest
      BY DEF ReportsInv, JobSound, Spared, Ran, CancelStopsTheRest
    <2> QED
      BY <2>1 DEF ReportsInv, ReportsSound
  <1> QED
    BY <1>1, ReportsInvInit, ReportsInvNext, PTL DEF Spec

-----------------------------------------------------------------------------
\* What the readers of the files see.  PollType has the types the invariants
\* above do not need; Ordered says that the ids of jobs grow, Written what the
\* report file and the active report tell of a job, Archived what the history
\* holds, and Polled which job a CLI waits for.
Running == {"begin", "run", "expired", "ran", "final"}

PollType ==
    /\ history \in Seq(Report)
    /\ life \in [Procs -> {"up", "stopping", "down"}]
    /\ last \in [Procs -> Report \cup {Nil}]
    /\ at \in [Procs -> 0..Benchmarks]
    /\ cli \in [Clis -> Outcome \cup
                   {"new", "polling", "busy", "failed", "not found", "killed"}]
    /\ mine \in [Clis -> 0..MaxJobs]
    /\ jobs <= MaxJobs /\ failures <= MaxFailures /\ kills <= MaxKills

Ordered ==
    /\ \A p \in Procs : active[p] # Nil => active[p].job = jobs
    /\ \A p \in Procs : stage[p] = "locked" => jobs < MaxJobs
    /\ file # Nil => file.job <= jobs
    /\ \A i \in DOMAIN history : history[i].job <= jobs
    /\ \A j \in 1..MaxJobs : final[j] # Nil => j <= jobs /\ final[j].status \in Outcome

Written ==
    /\ \A p \in Procs : stage[p] \in Running =>
          active[p].status = "running" /\ file.status = "running"
    /\ file # Nil /\ file.status # "running" =>
          final[file.job] # Nil /\ final[file.job].status = file.status

Archived ==
    /\ HistorySound
    /\ \A p \in Procs : stage[p] \in Running \cup {"archiving"} =>
          \A i \in DOMAIN history : history[i].job < active[p].job
    /\ \A p \in Procs : stage[p] \in {"archiving", "releasing"} =>
          final[active[p].job] = active[p]

Polled ==
    \A p \in Clis :
        /\ stage[p] = "locked" => cli[p] = "new"
        /\ active[p] # Nil => cli[p] = "polling" /\ active[p].job = mine[p]
        /\ cli[p] = "polling" => mine[p] \in 1..jobs /\ file # Nil /\ file.job >= mine[p]

PollInv == ReportsInv /\ PollType /\ Ordered /\ Written /\ Archived /\ Polled

\* A new job goes to the front of the history; what was there moves back by one
\* and at most the oldest falls off.
LEMMA ArchivePrepends ==
    ASSUME NEW h \in Seq(Report), NEW r \in Report,
           \A i \in DOMAIN h : h[i].job # r.job
    PROVE  /\ Archive(h, r) \in Seq(Report)
           /\ Len(Archive(h, r)) <= MaxHistory
           /\ \A k \in DOMAIN Archive(h, r) :
                 \/ k = 1 /\ Archive(h, r)[k] = r
                 \/ k - 1 \in DOMAIN h /\ Archive(h, r)[k] = h[k - 1]
  <1> DEFINE n == Len(h) + 1
             m == IF n > MaxHistory THEN MaxHistory ELSE n
  <1>1. Others(h, r) = 1..Len(h) /\ DOMAIN h = 1..Len(h) /\ Len(h) \in Nat
    BY DEF Others
  <1>2. Cardinality(1..Len(h)) = Len(h)
    BY <1>1, FS_Interval
  <1>3. ASSUME NEW k \in 1..Len(h) PROVE Nth(1..Len(h), k) = k
    <2>1. ASSUME NEW i \in 1..Len(h)
          PROVE  Cardinality({l \in 1..Len(h) : l <= i}) = i
      <3>1. {l \in 1..Len(h) : l <= i} = 1..i
        BY <1>1
      <3>2. Cardinality(1..i) = i
        BY <1>1, FS_Interval
      <3> QED
        BY <3>1, <3>2
    <2> QED
      BY <2>1, Zenon DEF Nth
  <1>4. Archive(h, r) = [k \in 1..m |-> IF k = 1 THEN r ELSE h[Nth(1..Len(h), k - 1)]]
    BY <1>1, <1>2, Zenon DEF Archive
  <1>5. m \in Nat /\ m <= MaxHistory /\ m <= n
    BY <1>1, StressReportAssumption
  <1>6. ASSUME NEW k \in 1..m, k # 1
        PROVE  k - 1 \in 1..Len(h) /\ Nth(1..Len(h), k - 1) = k - 1
    <2>1. k - 1 \in 1..Len(h)
      BY <1>1, <1>5, <1>6
    <2> QED
      BY <2>1, <1>3
  <1> HIDE DEF m, n
  <1>7. \A k \in 1..m : \/ k = 1 /\ Archive(h, r)[k] = r
                        \/ k - 1 \in DOMAIN h /\ Archive(h, r)[k] = h[k - 1]
    BY <1>1, <1>4, <1>6
  <1>8. \A k \in 1..m : Archive(h, r)[k] \in Report
    BY <1>1, <1>7
  <1>9. Archive(h, r) \in [1..m -> Report]
    BY <1>4, <1>8
  <1>10. Archive(h, r) \in Seq(Report) /\ Len(Archive(h, r)) = m
         /\ DOMAIN Archive(h, r) = 1..m
    BY <1>5, <1>9
  <1> QED
    BY <1>5, <1>7, <1>10

\* The job a report belongs to and its status outlive a benchmark's result.
LEMMA NotedKeepsStatus ==
    ASSUME NEW r \in Report, NEW i, NEW o \in Status
    PROVE  [r EXCEPT !.benchmarks[i] = o].status = r.status
  BY DEF Report

\* The file holds what the process remembers, or what it held before.
LEMMA PersistedFile ==
    ASSUME PollInv, NEW p \in Procs, NEW r \in Report,
           active[p] # Nil, r.job = active[p].job, Persist(p, r)
    PROVE  /\ active'[p] \in Report /\ active'[p] # Nil
           /\ active'[p].job = active[p].job /\ active'[p].status = r.status
           /\ \A q \in Procs \ {p} : active'[q] = active[q]
           /\ file' = active'[p] \/ file' = file
           /\ file # Nil /\ file' # Nil
           /\ file.job = active[p].job /\ file'.job = active[p].job
           /\ failures' <= MaxFailures
  <1>1. JobsInv
    BY DEF PollInv, ReportsInv
  <1>2. /\ active' \in [Procs -> Report \cup {Nil}] /\ active'[p] # Nil
        /\ \A q \in Procs \ {p} : active'[q] = active[q]
        /\ file' # Nil /\ file'.job = active'[p].job /\ active'[p].status = r.status
    BY <1>1, Persisted
  <1>3. file # Nil /\ file.job = active[p].job
    BY <1>1 DEF JobsInv, FileIsOwn
  <1> DEFINE good == [r EXCEPT !.error = FALSE]
             bad == [r EXCEPT !.error = TRUE]
  <1>4. good.job = r.job /\ bad.job = r.job
    BY DEF Report
  <1>5. \/ /\ file' = good
           /\ active' = [active EXCEPT ![p] = good]
           /\ failures' = failures
        \/ /\ failures < MaxFailures
           /\ failures' = failures + 1
           /\ active' = [active EXCEPT ![p] = bad]
           /\ file' = file
    BY DEF Persist
  <1> HIDE DEF good, bad
  <1>6. active \in [Procs -> Report \cup {Nil}] /\ failures \in Nat
    BY <1>1 DEF JobsInv, CoreType
  <1>7. active'[p].job = active[p].job /\ (file' = active'[p] \/ file' = file)
    BY <1>4, <1>5, <1>6
  <1>8. failures <= MaxFailures /\ MaxFailures \in Nat
    BY StressManagerAssumption DEF PollInv, PollType
  <1>9. failures' <= MaxFailures
    BY <1>5, <1>6, <1>8
  <1> QED
    BY <1>2, <1>3, <1>7, <1>9

-----------------------------------------------------------------------------
\* A step that writes no report and no history and starts no job: at most its
\* process takes the lock, goes on in its job, or leaves.
Quiet(p) ==
    /\ UNCHANGED <<file, history, final, jobs, mine>>
    /\ active' = active \/ active' = [active EXCEPT ![p] = Nil]
    /\ \A q \in Procs \ {p} : stage'[q] = stage[q]
    /\ \/ stage'[p] \in {"none", stage[p]}
       \/ stage[p] \in Running /\ stage'[p] \in Running
       \/ stage'[p] = "locked" /\ jobs < MaxJobs /\ (p \in Clis => cli[p] = "new")
    /\ \/ cli' = cli
       \/ /\ p \in Clis /\ active'[p] = Nil /\ stage'[p] # "locked"
          /\ \E how : how # "polling" /\ cli' = [cli EXCEPT ![p] = how]

LEMMA QuietKeepsPolls ==
    ASSUME PollInv, ReportsInv', PollType', NEW p \in Procs, Quiet(p)
    PROVE  PollInv'
  <1>1. /\ UNCHANGED <<file, history, final, jobs, mine>>
        /\ \A q \in Procs : active'[q] # Nil => active'[q] = active[q]
        /\ \A q \in Procs \ {p} : stage'[q] = stage[q]
        /\ \/ stage'[p] \in {"none", stage[p]}
           \/ stage[p] \in Running /\ stage'[p] \in Running
           \/ stage'[p] = "locked" /\ jobs < MaxJobs /\ (p \in Clis => cli[p] = "new")
    BY DEF Quiet, PollInv, ReportsInv, JobsInv, CoreType
  <1>2. \A q \in Procs : active'[q] # Nil <=> stage'[q] \notin {"none", "locked"}
    BY DEF ReportsInv, JobsInv, HolderWorks
  <1>3. \A q \in Procs : stage'[q] \in Running => stage[q] \in Running
    BY <1>1 DEF Running
  <1>4. \A q \in Procs : stage'[q] \in {"archiving", "releasing"} => stage'[q] = stage[q]
    BY <1>1 DEF Running
  <1>5. Ordered'
    <2>1. \A q \in Procs : stage'[q] = "locked" => stage[q] = "locked" \/ jobs < MaxJobs
      BY <1>1 DEF Running
    <2>2. \A q \in Procs : active'[q] # Nil => active'[q].job = jobs
      BY <1>1 DEF PollInv, Ordered
    <2> QED
      BY <1>1, <2>1, <2>2 DEF PollInv, Ordered
  <1>6. Written'
    BY <1>1, <1>2, <1>3 DEF PollInv, Written, Running
  <1>7. Archived'
    <2>1. HistorySound'
      BY <1>1 DEF PollInv, Archived, HistorySound
    <2>2. ASSUME NEW q \in Procs, stage'[q] \in Running \cup {"archiving"}
          PROVE  \A i \in DOMAIN history' : history'[i].job < active'[q].job
      <3>1. active'[q] = active[q]
        BY <1>1, <1>2, <2>2 DEF Running
      <3> QED
        BY <3>1, <1>1, <1>3, <1>4, <2>2 DEF PollInv, Archived
    <2>3. ASSUME NEW q \in Procs, stage'[q] \in {"archiving", "releasing"}
          PROVE  final'[active'[q].job] = active'[q]
      BY <1>1, <1>2, <1>4, <2>3 DEF PollInv, Archived
    <2> QED
      BY <2>1, <2>2, <2>3 DEF Archived
  <1>8. Polled'
    <2> SUFFICES ASSUME NEW q \in Clis
                 PROVE  /\ stage'[q] = "locked" => cli'[q] = "new"
                        /\ active'[q] # Nil => cli'[q] = "polling" /\ active'[q].job = mine[q]
                        /\ cli'[q] = "polling" => /\ mine[q] \in 1..jobs
                                                  /\ file # Nil /\ file.job >= mine[q]
      BY <1>1 DEF Polled
    <2>1. /\ stage[q] = "locked" => cli[q] = "new"
          /\ active[q] # Nil => cli[q] = "polling" /\ active[q].job = mine[q]
          /\ cli[q] = "polling" => mine[q] \in 1..jobs /\ file # Nil /\ file.job >= mine[q]
          /\ q \in Procs
      BY DEF PollInv, Polled, Procs
    <2>2. stage'[q] = "locked" => stage[q] = "locked" \/ (q = p /\ cli[q] = "new")
      BY <1>1, <2>1 DEF Running
    <2>3. CASE cli' = cli
      BY <2>1, <2>2, <2>3, <1>1
    <2>4. CASE /\ p \in Clis /\ active'[p] = Nil /\ stage'[p] # "locked"
               /\ \E how : how # "polling" /\ cli' = [cli EXCEPT ![p] = how]
      <3>1. PICK how : how # "polling" /\ cli' = [cli EXCEPT ![p] = how]
        BY <2>4
      <3>2. cli'[p] = how /\ \A c \in Clis \ {p} : cli'[c] = cli[c]
        BY <2>4, <3>1 DEF PollInv, PollType
      <3> QED
        BY <3>1, <3>2, <2>1, <2>2, <2>4, <1>1
    <2> QED
      BY <2>3, <2>4 DEF Quiet
  <1> QED
    BY <1>5, <1>6, <1>7, <1>8 DEF PollInv

\* A step of the goroutine that persists a report of its running job.
LEMMA WriteKeepsPolls ==
    ASSUME PollInv, ReportsInv', PollType', NEW p \in Procs, NEW r \in Report,
           r.job = active[p].job, r.status = active[p].status, Persist(p, r),
           stage[p] \in Running, stage'[p] \in Running,
           \A q \in Procs \ {p} : stage'[q] = stage[q],
           UNCHANGED <<history, final, jobs, cli, mine>>
    PROVE  PollInv'
  <1>1. active[p] # Nil /\ active'[p] # Nil
    BY DEF PollInv, ReportsInv, JobsInv, HolderWorks, Running
  <1>2. /\ active'[p].job = active[p].job /\ active'[p].status = active[p].status
        /\ \A q \in Procs \ {p} : active'[q] = active[q]
        /\ file' = active'[p] \/ file' = file
        /\ file # Nil /\ file' # Nil
        /\ file.job = active[p].job /\ file'.job = active[p].job
    BY <1>1, PersistedFile
  <1>3. active[p].status = "running" /\ file.status = "running"
    BY DEF PollInv, Written
  <1>4. Ordered'
    BY <1>1, <1>2 DEF PollInv, Ordered, Running
  <1>5. \A q \in Procs \ {p} : stage[q] = "none" /\ active[q] = Nil
    BY DEF PollInv, ReportsInv, JobsInv, HolderWorks, Running
  <1>6. Written'
    BY <1>2, <1>3, <1>5 DEF Written, Running
  <1>7. Archived'
    <2>1. HistorySound'
      BY DEF PollInv, Archived, HistorySound
    <2>2. \A i \in DOMAIN history : history[i].job < active[p].job
      BY DEF PollInv, Archived
    <2> QED
      BY <2>1, <2>2, <1>2, <1>5 DEF Archived, Running
  <1>8. Polled'
    <2>1. p \in Clis => cli[p] = "polling" /\ active[p].job = mine[p]
      BY <1>1 DEF PollInv, Polled
    <2> QED
      BY <2>1, <1>1, <1>2, <1>5 DEF PollInv, Polled, Procs, Running
  <1> QED
    BY <1>4, <1>6, <1>7, <1>8 DEF PollInv

\* The reports in the history are of jobs that have been started.
LEMMA HistoryJobs ==
    ASSUME PollInv
    PROVE  \A i \in DOMAIN history :
              /\ history[i] \in Report /\ history[i].job \in Nat \ {0}
              /\ history[i].job <= jobs
              /\ history[i] = final[history[i].job]
  <1> TAKE i \in DOMAIN history
  <1>1. history \in Seq(Report)
    BY DEF PollInv, PollType
  <1>2. history[i] \in Report
    BY <1>1
  <1>3. history[i].job \in Nat \ {0}
    BY <1>2 DEF Report
  <1> QED
    BY <1>2, <1>3 DEF PollInv, Ordered, Archived, HistorySound

\* A new job: its id is beyond all others, and the file is about it.
LEMMA BeginKeepsPolls ==
    ASSUME PollInv, ReportsInv', PollType', NEW p \in Procs, Begin(p)
    PROVE  PollInv'
  <1> DEFINE r == Started(NewJob)
  <1>1. /\ stage[p] = "locked" /\ jobs' = jobs + 1
        /\ file' = r /\ active' = [active EXCEPT ![p] = r]
        /\ stage' = [stage EXCEPT ![p] = "begin"]
        /\ UNCHANGED <<history, final>>
        /\ IF p \in Clis
           THEN /\ cli' = [cli EXCEPT ![p] = "polling"]
                /\ mine' = [mine EXCEPT ![p] = NewJob]
           ELSE UNCHANGED <<cli, mine>>
    BY DEF Begin
  <1>2. jobs \in Nat /\ NewJob = jobs + 1 /\ NewJob \in Nat \ {0}
    BY DEF PollInv, ReportsInv, JobsInv, CoreType, NewJob
  <1>3. r \in Report /\ r.job = NewJob /\ r # Nil /\ r.status = "running"
    BY <1>2, StartedIsReport, StressManagerAssumption DEF Started
  <1> HIDE DEF r
  <1>4. \A q \in Procs \ {p} : stage[q] = "none" /\ active[q] = Nil
    BY <1>1 DEF PollInv, ReportsInv, JobsInv, HolderWorks
  <1>5. /\ active'[p] = r /\ stage'[p] = "begin"
        /\ \A q \in Procs \ {p} : stage'[q] = "none" /\ active'[q] = Nil
    BY <1>1, <1>4 DEF PollInv, ReportsInv, JobsInv, CoreType
  <1>6. \A i \in DOMAIN history : history[i].job \in Nat /\ history[i].job <= jobs
    BY HistoryJobs
  <1>7. Ordered'
    <2>1. \A i \in DOMAIN history : history[i].job <= jobs + 1
      BY <1>2, <1>6
    <2>2. \A j \in 1..MaxJobs : final[j] # Nil => j <= jobs + 1 /\ final[j].status \in Outcome
      BY <1>2 DEF PollInv, Ordered
    <2> QED
      BY <2>1, <2>2, <1>1, <1>2, <1>3, <1>5, StressManagerAssumption DEF Ordered
  <1>8. Written'
    BY <1>1, <1>3, <1>5 DEF Written, Running
  <1>9. Archived'
    <2>1. HistorySound'
      BY <1>1 DEF PollInv, Archived, HistorySound
    <2>2. \A i \in DOMAIN history : history[i].job < NewJob
      BY <1>2, <1>6
    <2> QED
      BY <2>1, <2>2, <1>1, <1>3, <1>5 DEF Archived, Running
  <1>10. Polled'
    <2> SUFFICES ASSUME NEW q \in Clis
                 PROVE  /\ stage'[q] = "locked" => cli'[q] = "new"
                        /\ active'[q] # Nil => cli'[q] = "polling" /\ active'[q].job = mine'[q]
                        /\ cli'[q] = "polling" =>
                              mine'[q] \in 1..jobs' /\ file' # Nil /\ file'.job >= mine'[q]
      BY DEF Polled
    <2>1. q \in Procs
      BY DEF Procs
    <2>2. CASE q = p
      <3>1. cli'[q] = "polling" /\ mine'[q] = NewJob
        BY <2>2, <1>1 DEF PollInv, PollType
      <3> QED
        BY <3>1, <2>2, <1>1, <1>2, <1>3, <1>5
    <2>3. CASE q # p
      <3>1. cli'[q] = cli[q] /\ mine'[q] = mine[q]
        BY <2>3, <1>1 DEF PollInv, PollType
      <3>2. cli[q] = "polling" => mine[q] \in 1..jobs
        BY DEF PollInv, Polled
      <3> QED
        BY <3>1, <3>2, <2>1, <2>3, <1>1, <1>2, <1>3, <1>5
    <2> QED
      BY <2>2, <2>3
  <1> QED
    BY <1>7, <1>8, <1>9, <1>10 DEF PollInv

\* The final report of a job: whether it can be written or not, it is what the
\* process archives next.
LEMMA FinalKeepsPolls ==
    ASSUME PollInv, ReportsInv', PollType', NEW p \in Procs, FinalReport(p)
    PROVE  PollInv'
  <1> DEFINE r == Ended(active[p])
  <1>1. /\ stage[p] = "final" /\ Persist(p, r)
        /\ final' = [final EXCEPT ![active[p].job] = active'[p]]
        /\ stage' = [stage EXCEPT ![p] = "archiving"]
        /\ UNCHANGED <<history, jobs, cli, mine>>
    BY DEF FinalReport
  <1>2. active[p] \in Report /\ active[p] # Nil
    BY <1>1 DEF PollInv, ReportsInv, JobsInv, CoreType, HolderWorks
  <1>3. r \in Report /\ r.job = active[p].job /\ r.status = Aggregate(active[p].benchmarks)
    BY <1>2, EndedIsOver
  <1>4. r.status \in Outcome
    BY <1>3 DEF Aggregate, Outcome
  <1> HIDE DEF r
  <1>5. /\ active'[p] \in Report /\ active'[p] # Nil
        /\ active'[p].job = active[p].job /\ active'[p].status = r.status
        /\ \A q \in Procs \ {p} : active'[q] = active[q]
        /\ file' = active'[p] \/ file' = file
        /\ file # Nil /\ file' # Nil
        /\ file.job = active[p].job /\ file'.job = active[p].job
    BY <1>1, <1>2, <1>3, PersistedFile
  <1>6. file.status = "running"
    BY <1>1 DEF PollInv, Written, Running
  <1>7. active[p].job = jobs /\ jobs \in 1..MaxJobs
    <2>1. active[p].job = jobs /\ jobs <= MaxJobs /\ active[p].job \in Nat \ {0}
      BY <1>2 DEF PollInv, PollType, Ordered, Report
    <2> QED
      BY <2>1, StressManagerAssumption
  <1>8. final'[jobs] = active'[p] /\ \A j \in 1..MaxJobs : j # jobs => final'[j] = final[j]
    BY <1>1, <1>7 DEF PollInv, ReportsInv, MoreType
  <1>9. \A q \in Procs \ {p} : stage[q] = "none" /\ active[q] = Nil
    BY <1>1 DEF PollInv, ReportsInv, JobsInv, HolderWorks
  <1>10. stage'[p] = "archiving" /\ \A q \in Procs \ {p} : stage'[q] = "none" /\ active'[q] = Nil
    BY <1>1, <1>5, <1>9 DEF PollInv, ReportsInv, JobsInv, CoreType
  <1>11. Ordered'
    <2>1. \A j \in 1..MaxJobs : final'[j] # Nil => j <= jobs /\ final'[j].status \in Outcome
      BY <1>4, <1>5, <1>7, <1>8 DEF PollInv, Ordered
    <2> QED
      BY <2>1, <1>1, <1>5, <1>7, <1>10 DEF PollInv, Ordered
  <1>12. Written'
    BY <1>5, <1>6, <1>7, <1>8, <1>10 DEF Written, Running
  <1>13. Archived'
    <2>1. \A i \in DOMAIN history : history[i].job < active[p].job
      BY <1>1 DEF PollInv, Archived, Running
    <2>2. \A i \in DOMAIN history : history[i] = final[history[i].job]
                                    /\ history[i].job \in Nat \ {0}
      BY HistoryJobs
    <2>3. \A i \in DOMAIN history : history[i].job \in 1..MaxJobs /\ history[i].job # jobs
      BY <2>1, <2>2, <1>7, StressManagerAssumption
    <2>4. HistorySound'
      BY <2>2, <2>3, <1>1, <1>8 DEF PollInv, Archived, HistorySound
    <2>5. final'[active'[p].job] = active'[p]
      BY <1>5, <1>7, <1>8
    <2> QED
      BY <2>1, <2>4, <2>5, <1>1, <1>5, <1>10 DEF Archived, Running
  <1>14. Polled'
    <2>1. p \in Clis => cli[p] = "polling" /\ active[p].job = mine[p]
      BY <1>2 DEF PollInv, Polled
    <2> QED
      BY <2>1, <1>1, <1>5, <1>10 DEF PollInv, Polled, Procs
  <1> QED
    BY <1>11, <1>12, <1>13, <1>14 DEF PollInv

\* The history takes the final report in front, or is left as it was.
LEMMA ArchiveKeepsPolls ==
    ASSUME PollInv, ReportsInv', PollType', NEW p \in Procs, AppendHistory(p)
    PROVE  PollInv'
  <1> DEFINE r == active[p]
  <1>1. /\ stage[p] = "archiving" /\ stage' = [stage EXCEPT ![p] = "releasing"]
        /\ history' = Archive(history, r) \/ history' = history
        /\ UNCHANGED <<file, active, final, jobs, cli, mine>>
    BY DEF AppendHistory
  <1>2. r \in Report /\ r # Nil
    BY <1>1 DEF PollInv, ReportsInv, JobsInv, CoreType, HolderWorks
  <1>3. /\ \A i \in DOMAIN history : history[i].job < r.job
        /\ final[r.job] = r /\ r.job = jobs
    BY <1>1, <1>2 DEF PollInv, Archived, Ordered
  <1>4. /\ history \in Seq(Report) /\ HistorySound
        /\ \A i \in DOMAIN history : history[i].job \in Nat
    BY HistoryJobs DEF PollInv, PollType, Archived
  <1>5. r.job \in Nat
    BY <1>2 DEF Report
  <1>6. stage'[p] = "releasing" /\ \A q \in Procs \ {p} : stage'[q] = "none"
    BY <1>1 DEF PollInv, ReportsInv, JobsInv, CoreType, HolderWorks
  <1> HIDE DEF r
  <1>7. HistorySound' /\ \A i \in DOMAIN history' : history'[i].job <= jobs
    <2>1. CASE history' = history
      BY <2>1, <1>1, <1>4 DEF PollInv, Ordered, HistorySound
    <2>2. CASE history' = Archive(history, r)
      <3>1. \A i \in DOMAIN history : history[i].job # r.job
        BY <1>3, <1>4, <1>5
      <3>2. /\ history' \in Seq(Report) /\ Len(history') <= MaxHistory
            /\ \A k \in DOMAIN history' :
                  \/ k = 1 /\ history'[k] = r
                  \/ k - 1 \in DOMAIN history /\ history'[k] = history[k - 1]
        BY <3>1, <2>2, <1>2, <1>4, ArchivePrepends
      <3>3. \A k \in DOMAIN history' : history'[k] = final[history'[k].job]
        BY <3>2, <1>3, <1>4 DEF HistorySound
      <3>4. ASSUME NEW i \in DOMAIN history', NEW j \in DOMAIN history', i < j
            PROVE  history'[i].job > history'[j].job
        <4>1. i \in Nat \ {0} /\ j \in Nat \ {0} /\ j # 1
          BY <3>2, <3>4
        <4>2. j - 1 \in DOMAIN history /\ history'[j] = history[j - 1]
          BY <3>2, <4>1
        <4>3. CASE i = 1 /\ history'[i] = r
          BY <4>2, <4>3, <1>3, <1>4, <1>5
        <4>4. CASE i - 1 \in DOMAIN history /\ history'[i] = history[i - 1]
          <5>1. i - 1 < j - 1
            BY <4>1, <3>4
          <5> QED
            BY <5>1, <4>2, <4>4, <1>4 DEF HistorySound
        <4> QED
          BY <3>2, <4>3, <4>4
      <3>5. \A k \in DOMAIN history' : history'[k].job <= jobs
        BY <3>2, <1>3, <1>5 DEF PollInv, Ordered
      <3> QED
        BY <3>2, <3>3, <3>4, <3>5, <1>1 DEF HistorySound
    <2> QED
      BY <2>1, <2>2, <1>1
  <1>8. Ordered'
    BY <1>1, <1>6, <1>7 DEF PollInv, Ordered
  <1>9. Written'
    BY <1>1, <1>6 DEF PollInv, Written, Running
  <1>10. Archived'
    BY <1>1, <1>3, <1>6, <1>7 DEF Archived, Running, r
  <1>11. Polled'
    BY <1>1, <1>6 DEF PollInv, Polled, Procs
  <1> QED
    BY <1>8, <1>9, <1>10, <1>11 DEF PollInv

-----------------------------------------------------------------------------
\* The report a polling CLI ends with: without a job of its own it reads the
\* file, which has not gone back behind that job, and what the file says of the
\* job is what it ended with.
LEMMA PollReads ==
    ASSUME PollInv, NEW p \in Procs, Poll(p)
    PROVE  /\ p \in Clis /\ active[p] = Nil /\ stage[p] # "locked"
           /\ \/ CliEnds(p, "not found") /\ jobs > mine[p]
              \/ /\ CliEnds(p, final[mine[p]].status)
                 /\ final[mine[p]] # Nil /\ final[mine[p]].status \in Outcome
           /\ last' = [last EXCEPT ![p] = Nil]
           /\ UNCHANGED <<disk, lock, active, stage, at, mine, jobs, failures, kills, final>>
  <1> DEFINE r == LatestOf(p)
  <1>1. /\ p \in Clis /\ cli[p] = "polling"
        /\ stage[p] \notin {"locked", "archiving", "releasing"}
        /\ last' = [last EXCEPT ![p] = Nil]
        /\ UNCHANGED <<disk, lock, active, stage, at, mine, jobs, failures, kills, final>>
        /\ IF r.job # mine[p] THEN CliEnds(p, "not found")
           ELSE r.status # "running" /\ CliEnds(p, r.status)
    BY DEF Poll, MuFree
  <1>2. active[p] = Nil
    <2> SUFFICES ASSUME active[p] # Nil PROVE FALSE
      OBVIOUS
    <2>1. r = active[p]
      BY DEF LatestOf
    <2>2. r.job = mine[p]
      BY <2>1, <1>1 DEF PollInv, Polled
    <2>3. stage[p] \in Running
      BY <1>1 DEF PollInv, ReportsInv, JobsInv, CoreType, HolderWorks, Stage, Running
    <2>4. r.status = "running"
      BY <2>1, <2>3 DEF PollInv, Written
    <2> HIDE DEF r
    <2> QED
      BY <2>2, <2>4, <1>1
  <1>3. mine[p] \in 1..jobs /\ file # Nil /\ file.job >= mine[p]
    BY <1>1 DEF PollInv, Polled
  <1>4. r = file
    BY <1>2, <1>3 DEF LatestOf
  <1>5. file \in Report /\ file.job \in Nat /\ file.job <= jobs
    <2>1. file \in Report
      BY <1>3 DEF PollInv, ReportsInv, JobsInv, CoreType
    <2> QED
      BY <2>1, <1>3 DEF PollInv, Ordered, Report
  <1>6. jobs \in Nat /\ mine[p] \in 1..MaxJobs
    <2>1. jobs \in Nat /\ jobs <= MaxJobs
      BY DEF PollInv, PollType, ReportsInv, JobsInv, CoreType
    <2> QED
      BY <2>1, <1>3, StressManagerAssumption
  <1> HIDE DEF r
  <1>7. CASE file.job # mine[p]
    <2>1. jobs > mine[p]
      BY <1>3, <1>5, <1>6, <1>7
    <2> QED
      BY <2>1, <1>1, <1>2, <1>4, <1>7
  <1>8. CASE file.job = mine[p]
    <2>1. file.status # "running" /\ CliEnds(p, file.status)
      BY <1>1, <1>4, <1>8
    <2>2. final[mine[p]] # Nil /\ final[mine[p]].status = file.status
      BY <2>1, <1>3, <1>8 DEF PollInv, Written
    <2>3. final[mine[p]].status \in Outcome
      BY <2>2, <1>6 DEF PollInv, Ordered
    <2> QED
      BY <2>1, <2>2, <2>3, <1>1, <1>2
  <1> QED
    BY <1>7, <1>8

\* How a CLI ends is one of the ways there are.
LEMMA CliEndsType ==
    ASSUME PollInv, NEW p \in Procs, CliEnds(p, "busy") \/ CliEnds(p, "failed")
               \/ CliEnds(p, "not found") \/ \E o \in Outcome : CliEnds(p, o)
    PROVE  /\ cli' \in [Clis -> Outcome \cup
                   {"new", "polling", "busy", "failed", "not found", "killed"}]
           /\ life' \in [Procs -> {"up", "stopping", "down"}]
           /\ \/ cli' = cli
              \/ p \in Clis /\ \E how : how # "polling" /\ cli' = [cli EXCEPT ![p] = how]
  BY DEF PollInv, PollType, CliEnds, Outcome

\* The steps of a job keep the types.
LEMMA JobStepKeepsType ==
    ASSUME PollInv, ReportsInv', NEW p \in Procs, JobStep(p)
    PROVE  PollType'
  <1>1. JobsInv /\ PollType /\ ReportsInv
    BY DEF PollInv, ReportsInv
  <1>2. active' \in [Procs -> Report \cup {Nil}] /\ active \in [Procs -> Report \cup {Nil}]
    BY <1>1 DEF ReportsInv, JobsInv, CoreType
  <1>3. \A q \in Procs : active'[q] \in Report \cup {Nil} /\ active[q] \in Report \cup {Nil}
    BY <1>2
  <1>4. failures \in Nat /\ MaxFailures \in Nat /\ jobs \in Nat /\ MaxJobs \in Nat
    BY <1>1, StressManagerAssumption DEF JobsInv, CoreType
  <1>5. jobs <= MaxJobs /\ failures <= MaxFailures /\ kills <= MaxKills
    BY <1>1 DEF PollType
  <1>6. at \in [Procs -> 0..Benchmarks] /\ mine \in [Clis -> 0..MaxJobs]
    BY <1>1 DEF PollType
  <1>7. Benchmarks \in Nat \ {0}
    BY StressReportAssumption
  <1>8. CASE Begin(p)
    <2> DEFINE r == Started(NewJob)
    <2>1. /\ stage[p] = "locked" /\ jobs' = jobs + 1
          /\ active' = [active EXCEPT ![p] = r]
          /\ last' = [last EXCEPT ![p] = r]
          /\ at' = [at EXCEPT ![p] = 1]
          /\ \/ cli' = cli /\ mine' = mine
             \/ /\ p \in Clis
                /\ cli' = [cli EXCEPT ![p] = "polling"]
                /\ mine' = [mine EXCEPT ![p] = jobs + 1]
          /\ UNCHANGED <<history, life, failures, kills>>
      BY <1>8 DEF Begin, NewJob
    <2>2. r \in Report
      BY <1>4, StartedIsReport DEF NewJob
    <2> HIDE DEF r
    <2>3. jobs < MaxJobs
      BY <2>1 DEF PollInv, Ordered
    <2>4. last' \in [Procs -> Report \cup {Nil}]
      BY <2>1, <2>2, <1>1 DEF PollType
    <2>5. mine' \in [Clis -> 0..MaxJobs]
      BY <2>1, <2>3, <1>4, <1>6
    <2>6. at' \in [Procs -> 0..Benchmarks]
      BY <2>1, <1>6, <1>7
    <2>7. cli' \in [Clis -> Outcome \cup
                   {"new", "polling", "busy", "failed", "not found", "killed"}]
      BY <2>1, <1>1 DEF PollType
    <2>8. jobs' <= MaxJobs
      BY <2>1, <2>3, <1>4
    <2> QED
      BY <2>1, <2>4, <2>5, <2>6, <2>7, <2>8, <1>1 DEF PollType
  <1>9. CASE BeginFails(p)
    <2>1. /\ failures < MaxFailures /\ failures' = failures + 1
          /\ CliEnds(p, "failed")
          /\ UNCHANGED <<history, last, at, mine, jobs, kills>>
      BY <1>9 DEF BeginFails, disk
    <2>2. failures' <= MaxFailures
      BY <2>1, <1>4
    <2> QED
      BY <2>1, <2>2, <1>1, CliEndsType DEF PollType
  <1>10. CASE SetRunning(p) \/ FinishBenchmark(p)
    <2>1. /\ last' = [last EXCEPT ![p] = active'[p]]
          /\ \/ at' = at
             \/ at[p] # Benchmarks /\ at' = [at EXCEPT ![p] = at[p] + 1]
          /\ \/ failures' = failures
             \/ failures < MaxFailures /\ failures' = failures + 1
          /\ UNCHANGED <<history, life, cli, mine, jobs, kills>>
      BY <1>10, Zenon DEF SetRunning, FinishBenchmark, Persist
    <2>2. failures' <= MaxFailures
      BY <2>1, <1>4, <1>5
    <2>3. last' \in [Procs -> Report \cup {Nil}]
      BY <2>1, <1>1, <1>3 DEF PollType
    <2>4. at' \in [Procs -> 0..Benchmarks]
      BY <2>1, <1>6, <1>7
    <2> QED
      BY <2>1, <2>2, <2>3, <2>4, <1>1 DEF PollType
  <1>11. CASE Deadline(p) \/ RunBenchmark(p)
    <2>1. UNCHANGED <<history, life, last, at, cli, mine, jobs, failures, kills>>
      BY <1>11 DEF Deadline, RunBenchmark, disk
    <2> QED
      BY <2>1, <1>1 DEF PollType
  <1>12. CASE FinalReport(p)
    <2>1. /\ \/ failures' = failures
             \/ failures < MaxFailures /\ failures' = failures + 1
          /\ UNCHANGED <<history, life, last, at, cli, mine, jobs, kills>>
      BY <1>12, Zenon DEF FinalReport, Persist
    <2>2. failures' <= MaxFailures
      BY <2>1, <1>4, <1>5
    <2> QED
      BY <2>1, <2>2, <1>1 DEF PollType
  <1>13. CASE AppendHistory(p)
    <2>1. /\ stage[p] = "archiving"
          /\ history' = Archive(history, active[p]) \/ history' = history
          /\ \/ failures' = failures
             \/ failures < MaxFailures /\ failures' = failures + 1
          /\ UNCHANGED <<life, last, at, cli, mine, jobs, kills>>
      BY <1>13 DEF AppendHistory
    <2>2. failures' <= MaxFailures
      BY <2>1, <1>4, <1>5
    <2>3. active[p] \in Report
      BY <2>1, <1>1, <1>3 DEF JobsInv, HolderWorks
    <2>4. active[p].job \in Nat /\ \A i \in DOMAIN history : history[i].job \in Nat
      BY <2>3, HistoryJobs DEF Report
    <2>5. \A i \in DOMAIN history : history[i].job # active[p].job
      BY <2>1, <2>4 DEF PollInv, Archived
    <2>6. history' \in Seq(Report)
      BY <2>1, <2>3, <2>5, <1>1, ArchivePrepends DEF PollType
    <2> QED
      BY <2>1, <2>2, <2>6, <1>1 DEF PollType
  <1>14. CASE Release(p)
    <2>1. /\ last' = [last EXCEPT ![p] = active[p]]
          /\ at' = [at EXCEPT ![p] = 0]
          /\ UNCHANGED <<history, life, cli, mine, jobs, failures, kills>>
      BY <1>14 DEF Release, disk
    <2>2. last' \in [Procs -> Report \cup {Nil}]
      BY <2>1, <1>1, <1>3 DEF PollType
    <2>3. at' \in [Procs -> 0..Benchmarks]
      BY <2>1, <1>6, <1>7
    <2> QED
      BY <2>1, <2>2, <2>3, <1>1 DEF PollType
  <1> QED
    BY <1>8, <1>9, <1>10, <1>11, <1>12, <1>13, <1>14 DEF JobStep

\* The steps that are not of a job keep the types, and are quiet.
LEMMA OtherStepIsQuiet ==
    ASSUME PollInv, ReportsInv', NEW p \in Procs,
           \/ Lock(p) \/ Busy(p) \/ Cancel(p) \/ Latest(p) \/ Poll(p)
           \/ Shutdown(p) \/ Exit(p) \/ Kill(p) \/ Restart(p)
    PROVE  PollType' /\ Quiet(p)
  <1>1. PollType /\ JobsInv
    BY DEF PollInv, ReportsInv
  <1>2. file \in Report \cup {Nil} /\ active \in [Procs -> Report \cup {Nil}]
        /\ stage \in [Procs -> Stage] /\ kills \in Nat
    BY <1>1 DEF JobsInv, CoreType
  <1>3. at \in [Procs -> 0..Benchmarks] /\ Benchmarks \in Nat \ {0}
        /\ life \in [Procs -> {"up", "stopping", "down"}]
        /\ last \in [Procs -> Report \cup {Nil}]
        /\ kills <= MaxKills /\ MaxKills \in Nat
    BY <1>1, StressReportAssumption, StressManagerAssumption DEF PollType
  <1>4. CASE Lock(p)
    <2>1. /\ UNCHANGED <<file, history, life, active, last, at, cli, mine, jobs, failures,
                         kills, final>>
          /\ jobs < MaxJobs /\ (p \in Clis => cli[p] = "new")
          /\ stage' = [stage EXCEPT ![p] = "locked"]
      BY <1>4 DEF Lock, Starts, disk
    <2>2. stage'[p] = "locked" /\ \A q \in Procs \ {p} : stage'[q] = stage[q]
      BY <2>1, <1>2
    <2> QED
      BY <2>1, <2>2, <1>1 DEF PollType, Quiet
  <1>5. CASE Busy(p)
    <2>1. /\ UNCHANGED <<file, history, active, stage, at, mine, jobs, failures, kills, final>>
          /\ active[p] = Nil /\ stage[p] # "locked"
          /\ last' = last \/ last' = [last EXCEPT ![p] = file]
          /\ CliEnds(p, "busy")
      BY <1>5 DEF Busy, Starts, MuFree, disk
    <2>2. last' \in [Procs -> Report \cup {Nil}]
      BY <2>1, <1>2, <1>3
    <2> QED
      BY <2>1, <2>2, <1>1, CliEndsType DEF PollType, Quiet
  <1>6. CASE Cancel(p) \/ Latest(p) \/ Shutdown(p) \/ Restart(p)
    <2>1. /\ UNCHANGED <<file, history, active, stage, at, cli, mine, jobs, failures, kills, final>>
          /\ last' = last \/ last' = [last EXCEPT ![p] = file]
          /\ \/ life' = life
             \/ \E l \in {"up", "stopping"} : life' = [life EXCEPT ![p] = l]
      BY <1>6 DEF Cancel, Latest, Shutdown, Restart, disk, inner
    <2>2. last' \in [Procs -> Report \cup {Nil}] /\ life' \in [Procs -> {"up", "stopping", "down"}]
      BY <2>1, <1>2, <1>3
    <2> QED
      BY <2>1, <2>2, <1>1 DEF PollType, Quiet
  <1>7. CASE Poll(p)
    <2>1. /\ p \in Clis /\ active[p] = Nil /\ stage[p] # "locked"
          /\ \/ CliEnds(p, "not found")
             \/ \E o \in Outcome : CliEnds(p, o)
          /\ last' = [last EXCEPT ![p] = Nil]
          /\ UNCHANGED <<file, history, active, stage, at, mine, jobs, failures, kills, final>>
      BY <1>7, PollReads DEF disk
    <2>2. last' \in [Procs -> Report \cup {Nil}]
      BY <2>1, <1>3
    <2>3. /\ cli' \in [Clis -> Outcome \cup
                   {"new", "polling", "busy", "failed", "not found", "killed"}]
          /\ life' \in [Procs -> {"up", "stopping", "down"}]
          /\ \/ cli' = cli
             \/ p \in Clis /\ \E how : how # "polling" /\ cli' = [cli EXCEPT ![p] = how]
      BY <2>1, CliEndsType
    <2> QED
      BY <2>1, <2>2, <2>3, <1>1 DEF PollType, Quiet
  <1>8. CASE Exit(p) \/ Kill(p)
    <2>1. /\ UNCHANGED <<file, history, mine, jobs, failures, final>>
          /\ active' = [active EXCEPT ![p] = Nil]
          /\ stage' = [stage EXCEPT ![p] = "none"]
          /\ last' = [last EXCEPT ![p] = Nil]
          /\ at' = [at EXCEPT ![p] = 0]
          /\ life' = [life EXCEPT ![p] = "down"]
          /\ kills' = kills \/ (kills < MaxKills /\ kills' = kills + 1)
          /\ cli' = cli \/ (p \in Clis /\ cli' = [cli EXCEPT ![p] = "killed"])
      BY <1>8 DEF Exit, Kill, Gone, disk
    <2>2. active'[p] = Nil /\ stage'[p] = "none" /\ \A q \in Procs \ {p} : stage'[q] = stage[q]
      BY <2>1, <1>2
    <2>3. /\ last' \in [Procs -> Report \cup {Nil}] /\ at' \in [Procs -> 0..Benchmarks]
          /\ life' \in [Procs -> {"up", "stopping", "down"}] /\ kills' <= MaxKills
      BY <2>1, <1>2, <1>3
    <2>4. cli' \in [Clis -> Outcome \cup
                   {"new", "polling", "busy", "failed", "not found", "killed"}]
      BY <2>1, <1>1 DEF PollType
    <2>5. PollType'
      BY <2>1, <2>3, <2>4, <1>1 DEF PollType
    <2> QED
      BY <2>1, <2>2, <2>5 DEF Quiet
  <1> QED
    BY <1>4, <1>5, <1>6, <1>7, <1>8

\* The steps of a job that write nothing are quiet, too.
LEMMA JobStepIsQuiet ==
    ASSUME PollInv, ReportsInv', NEW p \in Procs,
           BeginFails(p) \/ Deadline(p) \/ RunBenchmark(p) \/ Release(p)
    PROVE  Quiet(p)
  <1>1. active \in [Procs -> Report \cup {Nil}] /\ stage \in [Procs -> Stage]
    BY DEF PollInv, ReportsInv, JobsInv, CoreType
  <1>2. CASE BeginFails(p)
    <2>1. /\ UNCHANGED <<file, history, active, mine, jobs, final>>
          /\ stage[p] = "locked" /\ stage' = [stage EXCEPT ![p] = "none"]
          /\ CliEnds(p, "failed")
      BY <1>2 DEF BeginFails, disk
    <2>2. active[p] = Nil
      BY <2>1 DEF PollInv, ReportsInv, JobsInv, HolderWorks
    <2>3. stage'[p] = "none" /\ \A q \in Procs \ {p} : stage'[q] = stage[q]
      BY <2>1, <1>1
    <2> QED
      BY <2>1, <2>2, <2>3, CliEndsType DEF Quiet
  <1>3. CASE Deadline(p) \/ RunBenchmark(p)
    <2>1. /\ UNCHANGED <<file, history, active, cli, mine, jobs, final>>
          /\ stage[p] \in {"run", "expired"}
          /\ \E st \in {"expired", "ran"} : stage' = [stage EXCEPT ![p] = st]
      BY <1>3 DEF Deadline, RunBenchmark, disk
    <2>2. stage'[p] \in {"expired", "ran"} /\ \A q \in Procs \ {p} : stage'[q] = stage[q]
      BY <2>1, <1>1
    <2> QED
      BY <2>1, <2>2 DEF Quiet, Running
  <1>4. CASE Release(p)
    <2>1. /\ UNCHANGED <<file, history, cli, mine, jobs, final>>
          /\ active' = [active EXCEPT ![p] = Nil]
          /\ stage' = [stage EXCEPT ![p] = "none"]
      BY <1>4 DEF Release, disk
    <2>2. stage'[p] = "none" /\ \A q \in Procs \ {p} : stage'[q] = stage[q]
      BY <2>1, <1>1
    <2> QED
      BY <2>1, <2>2 DEF Quiet
  <1> QED
    BY <1>2, <1>3, <1>4

\* What starting a benchmark and noting its result have in common.
LEMMA WriteStep ==
    ASSUME PollInv, NEW p \in Procs, SetRunning(p) \/ FinishBenchmark(p)
    PROVE  /\ \E r \in Report : r.job = active[p].job /\ r.status = active[p].status
                                /\ Persist(p, r)
           /\ stage[p] \in Running /\ stage'[p] \in Running
           /\ active[p] # Nil
           /\ \A q \in Procs \ {p} : stage'[q] = stage[q]
           /\ UNCHANGED <<history, final, jobs, cli, mine>>
  <1> DEFINE noted(o) == [active[p] EXCEPT !.benchmarks[at[p]] = o]
  <1>1. /\ stage[p] \in {"begin", "ran"}
        /\ \E o \in {"running", result[p]} : Persist(p, noted(o))
        /\ \E st \in {"begin", "run", "final"} : stage' = [stage EXCEPT ![p] = st]
        /\ UNCHANGED <<history, final, jobs, cli, mine>>
    BY DEF SetRunning, FinishBenchmark
  <1>2. /\ active[p] \in Report /\ active[p] # Nil /\ result[p] \in Status
        /\ stage \in [Procs -> Stage]
    BY <1>1 DEF PollInv, ReportsInv, JobsInv, CoreType, HolderWorks, Status
  <1>3. PICK o \in {"running", result[p]} : Persist(p, noted(o))
    BY <1>1
  <1>4. o \in Status
    BY <1>2, <1>3 DEF Status
  <1>5. noted(o) \in Report /\ noted(o).job = active[p].job /\ noted(o).status = active[p].status
    <2>1. noted(o) \in Report /\ noted(o).job = active[p].job
      BY <1>2, <1>4, BenchmarkNoted
    <2>2. noted(o).status = active[p].status
      BY <1>2, <1>4, NotedKeepsStatus
    <2> QED
      BY <2>1, <2>2
  <1>6. stage'[p] \in {"begin", "run", "final"} /\ \A q \in Procs \ {p} : stage'[q] = stage[q]
    BY <1>1, <1>2
  <1> HIDE DEF noted
  <1> QED
    BY <1>1, <1>2, <1>3, <1>5, <1>6 DEF Running

\* Before the first step the files hold the reports of earlier jobs.
LEMMA PollInvInit == Init => PollInv
  <1> SUFFICES ASSUME Init PROVE PollInv
    OBVIOUS
  <1>1. ReportsInv
    BY ReportsInvInit
  <1>2. Past \in Nat /\ Past <= MaxHistory /\ Past <= MaxJobs /\ MaxJobs \in Nat
        /\ MaxHistory \in Nat
    BY StressManagerAssumption, StressReportAssumption
  <1>3. ASSUME NEW j \in Nat \ {0}
        PROVE  Earlier(j) \in Report /\ Earlier(j).job = j /\ Earlier(j).status = "healthy"
    <2> DEFINE b == [i \in 1..Benchmarks |-> "healthy"]
               r == [Started(j) EXCEPT !.benchmarks = b]
    <2>1. Started(j) \in Report /\ Started(j).job = j
      BY StartedIsReport
    <2>2. b \in Results
      BY DEF Results, Status, Outcome
    <2> HIDE DEF b
    <2>3. r \in Report /\ r.job = j
      BY <2>1, <2>2 DEF Report
    <2>4. Ended(r).job = j
      BY <2>3, EndedIsOver
    <2> QED
      BY <2>4, EarlierIsHealthy DEF Earlier, b
  <1>4. /\ history = [i \in 1..Past |-> Earlier(Past + 1 - i)]
        /\ file = IF Past = 0 THEN Nil ELSE Earlier(Past)
        /\ final = [j \in 1..MaxJobs |-> IF j <= Past THEN Earlier(j) ELSE Nil]
        /\ jobs = Past
    BY DEF Init
  <1>5. \A i \in 1..Past : /\ Past + 1 - i \in 1..Past
                           /\ history[i] = Earlier(Past + 1 - i)
                           /\ history[i] \in Report /\ history[i].job = Past + 1 - i
    BY <1>2, <1>3, <1>4
  <1>6. history \in [1..Past -> Report]
    BY <1>4, <1>5
  <1>7. history \in Seq(Report) /\ DOMAIN history = 1..Past /\ Len(history) = Past
    BY <1>2, <1>6
  <1>8. \A j \in 1..MaxJobs : \/ j > Past /\ final[j] = Nil
                              \/ j <= Past /\ final[j] = Earlier(j)
    BY <1>2, <1>4
  <1>9. \A p \in Procs : active[p] = Nil /\ stage[p] = "none"
    BY DEF Init
  <1>10. PollType
    <2>1. Clis \subseteq Procs
      BY DEF Procs
    <2>2. 0 \in 0..Benchmarks /\ 0 \in 0..MaxJobs
      BY <1>2, StressReportAssumption
    <2> QED
      BY <1>2, <1>7, <2>2, StressManagerAssumption DEF Init, PollType
  <1>11. Ordered
    <2>1. file # Nil => file.job <= jobs
      BY <1>2, <1>3, <1>4
    <2>2. \A i \in DOMAIN history : history[i].job <= jobs
      BY <1>2, <1>4, <1>5, <1>7
    <2>3. \A j \in 1..MaxJobs : final[j] # Nil => j <= jobs /\ final[j].status \in Outcome
      BY <1>2, <1>3, <1>4, <1>8 DEF Outcome
    <2> QED
      BY <1>9, <2>1, <2>2, <2>3 DEF Ordered
  <1>12. Written
    <2> SUFFICES ASSUME file # Nil
                 PROVE  final[file.job] # Nil /\ final[file.job].status = file.status
      BY <1>9 DEF Written, Running
    <2>1. Past \in 1..MaxJobs /\ file = Earlier(Past)
      BY <1>2, <1>4
    <2>2. final[Past] = Earlier(Past)
      BY <2>1, <1>2, <1>8
    <2>3. file \in Report /\ file.job = Past
      BY <2>1, <1>3
    <2> QED
      BY <2>1, <2>2, <2>3
  <1>13. Archived
    <2>1. Len(history) <= MaxHistory
      BY <1>2, <1>7
    <2>2. \A i \in DOMAIN history : history[i] = final[history[i].job]
      <3> TAKE i \in DOMAIN history
      <3>1. Past + 1 - i \in 1..MaxJobs /\ Past + 1 - i <= Past
        BY <1>2, <1>5, <1>7
      <3>2. final[Past + 1 - i] = Earlier(Past + 1 - i)
        BY <3>1, <1>2, <1>8
      <3> QED
        BY <3>2, <1>5, <1>7
    <2>3. \A i, j \in DOMAIN history : i < j => history[i].job > history[j].job
      BY <1>2, <1>5, <1>7
    <2> QED
      BY <2>1, <2>2, <2>3, <1>9 DEF Archived, HistorySound, Running
  <1>14. Polled
    <2>1. \A p \in Clis : p \in Procs /\ cli[p] = "new"
      BY DEF Init, Procs
    <2> QED
      BY <2>1, <1>9 DEF Polled
  <1> QED
    BY <1>1, <1>10, <1>11, <1>12, <1>13, <1>14 DEF PollInv

\* Every step of the system keeps the invariant of the readers.
LEMMA PollInvNext == PollInv /\ [Next]_vars => PollInv'
  <1> SUFFICES ASSUME PollInv, [Next]_vars PROVE PollInv'
    OBVIOUS
  <1>1. ReportsInv'
    BY ReportsInvNext DEF PollInv
  <1>2. CASE UNCHANGED vars
    BY <1>1, <1>2 DEF vars, disk, inner, PollInv, PollType, Ordered, Written, Archived,
                      HistorySound, Polled
  <1>3. ASSUME NEW p \in Procs,
               \/ Lock(p) \/ Busy(p) \/ Cancel(p) \/ Latest(p) \/ Poll(p)
               \/ Shutdown(p) \/ Exit(p) \/ Kill(p) \/ Restart(p)
        PROVE  PollInv'
    BY <1>1, <1>3, OtherStepIsQuiet, QuietKeepsPolls
  <1>4. ASSUME NEW p \in Procs, JobStep(p) PROVE PollInv'
    <2>1. PollType'
      BY <1>1, <1>4, JobStepKeepsType
    <2>2. CASE BeginFails(p) \/ Deadline(p) \/ RunBenchmark(p) \/ Release(p)
      BY <2>1, <2>2, <1>1, JobStepIsQuiet, QuietKeepsPolls
    <2>3. CASE SetRunning(p) \/ FinishBenchmark(p)
      BY <2>1, <2>3, <1>1, WriteStep, WriteKeepsPolls
    <2>4. CASE Begin(p)
      BY <2>1, <2>4, <1>1, BeginKeepsPolls
    <2>5. CASE FinalReport(p)
      BY <2>1, <2>5, <1>1, FinalKeepsPolls
    <2>6. CASE AppendHistory(p)
      BY <2>1, <2>6, <1>1, ArchiveKeepsPolls
    <2> QED
      BY <1>4, <2>2, <2>3, <2>4, <2>5, <2>6 DEF JobStep
  <1> QED
    BY <1>2, <1>3, <1>4 DEF Next

-----------------------------------------------------------------------------
\* The values of all variables, as the run checks them.
LEMMA PollInvTypes == PollInv => TypeOK
  <1> SUFFICES ASSUME PollInv PROVE TypeOK
    OBVIOUS
  <1>1. jobs \in 0..MaxJobs /\ failures \in 0..MaxFailures /\ kills \in 0..MaxKills
    <2>1. jobs \in Nat /\ failures \in Nat /\ kills \in Nat
      BY DEF PollInv, ReportsInv, JobsInv, CoreType
    <2>2. jobs <= MaxJobs /\ failures <= MaxFailures /\ kills <= MaxKills
      BY DEF PollInv, PollType
    <2> QED
      BY <2>1, <2>2, StressManagerAssumption
  <1> QED
    BY <1>1 DEF PollInv, PollType, ReportsInv, MoreType, JobsInv, CoreType, Stage, TypeOK

\* A step never makes the report file go back.
LEMMA FileStep ==
    ASSUME PollInv, [Next]_vars, file # Nil
    PROVE  /\ file' # Nil /\ file'.job >= file.job
           /\ file'.job = file.job /\ file.status # "running" => file'.status = file.status
  <1>1. file \in Report /\ file.job \in Nat /\ jobs \in Nat /\ file.job <= jobs
    <2>1. file \in Report /\ jobs \in Nat
      BY DEF PollInv, ReportsInv, JobsInv, CoreType
    <2> QED
      BY <2>1 DEF PollInv, Ordered, Report
  <1>2. CASE file' = file
    BY <1>1, <1>2
  <1>3. ASSUME NEW p \in Procs, Begin(p)
        PROVE  file' # Nil /\ file'.job \in Nat /\ file'.job > file.job
    <2>1. file' = Started(jobs + 1)
      BY <1>3 DEF Begin, NewJob
    <2>2. Started(jobs + 1) \in Report /\ Started(jobs + 1).job = jobs + 1
      BY <1>1, StartedIsReport
    <2> QED
      BY <2>1, <2>2, <1>1, StressManagerAssumption
  <1>4. ASSUME NEW p \in Procs, NEW r \in Report, active[p] # Nil, r.job = active[p].job,
               Persist(p, r), file.status = "running"
        PROVE  file' # Nil /\ file'.job = file.job
    BY <1>4, PersistedFile
  <1>5. ASSUME NEW p \in Procs, SetRunning(p) \/ FinishBenchmark(p)
        PROVE  file' # Nil /\ file'.job = file.job /\ file.status = "running"
    <2>1. /\ \E r \in Report : r.job = active[p].job /\ Persist(p, r)
          /\ stage[p] \in Running /\ active[p] # Nil
      BY <1>5, WriteStep
    <2>2. file.status = "running"
      BY <2>1 DEF PollInv, Written
    <2> QED
      BY <2>1, <2>2, <1>4
  <1>6. ASSUME NEW p \in Procs, FinalReport(p)
        PROVE  file' # Nil /\ file'.job = file.job /\ file.status = "running"
    <2> DEFINE r == Ended(active[p])
    <2>1. stage[p] = "final" /\ Persist(p, r)
      BY <1>6 DEF FinalReport
    <2>2. active[p] \in Report /\ active[p] # Nil
      BY <2>1 DEF PollInv, ReportsInv, JobsInv, CoreType, HolderWorks
    <2>3. r \in Report /\ r.job = active[p].job
      BY <2>2, EndedIsOver
    <2>4. file.status = "running"
      BY <2>1 DEF PollInv, Written, Running
    <2> HIDE DEF r
    <2> QED
      BY <2>1, <2>2, <2>3, <2>4, <1>4
  <1>7. ASSUME NEW p \in Procs,
               \/ BeginFails(p) \/ Deadline(p) \/ RunBenchmark(p) \/ AppendHistory(p)
               \/ Release(p) \/ Lock(p) \/ Busy(p) \/ Cancel(p) \/ Latest(p) \/ Poll(p)
               \/ Shutdown(p) \/ Exit(p) \/ Kill(p) \/ Restart(p)
        PROVE  file' = file
    BY <1>7 DEF BeginFails, Deadline, RunBenchmark, AppendHistory, Release, Lock, Busy,
                Cancel, Latest, Poll, Shutdown, Exit, Kill, Gone, Restart, disk
  <1>8. CASE UNCHANGED vars
    BY <1>2, <1>8 DEF vars, disk
  <1>9. CASE \E p \in Procs : Begin(p)
    BY <1>1, <1>3, <1>9
  <1>10. CASE \E p \in Procs : SetRunning(p) \/ FinishBenchmark(p) \/ FinalReport(p)
    BY <1>1, <1>5, <1>6, <1>10
  <1> QED
    BY <1>2, <1>7, <1>8, <1>9, <1>10 DEF Next, JobStep

\* A CLI that stops polling reports the end of its own job, or that the file is
\* another job's by now.
LEMMA CliStep ==
    ASSUME PollInv, [Next]_vars, NEW c \in Clis,
           cli[c] = "polling", cli'[c] \notin {"polling", "killed"}
    PROVE  \/ cli'[c] = "not found" /\ jobs > mine[c]
           \/ final[mine[c]] # Nil /\ cli'[c] = final[mine[c]].status
  <1>1. cli \in [Clis -> Outcome \cup
                   {"new", "polling", "busy", "failed", "not found", "killed"}]
        /\ c \in Procs
    BY DEF PollInv, PollType, Procs
  <1>2. ASSUME NEW p \in Procs, NEW how, p # c \/ how \in {"polling", "killed"}
        PROVE  cli' # [cli EXCEPT ![p] = how]
    BY <1>1, <1>2
  <1>3. cli' # cli
    OBVIOUS
  <1>4. PICK p \in Procs : Busy(p) \/ Begin(p) \/ BeginFails(p) \/ Poll(p)
    <2>1. ASSUME NEW p \in Procs,
                 \/ SetRunning(p) \/ Deadline(p) \/ RunBenchmark(p) \/ FinishBenchmark(p)
                 \/ FinalReport(p) \/ AppendHistory(p) \/ Release(p)
                 \/ Lock(p) \/ Cancel(p) \/ Latest(p) \/ Shutdown(p) \/ Restart(p)
          PROVE  cli' = cli
      BY <2>1 DEF SetRunning, Deadline, RunBenchmark, FinishBenchmark, FinalReport,
                  AppendHistory, Release, Lock, Cancel, Latest, Shutdown, Restart
    <2>2. ASSUME NEW p \in Procs, Exit(p) \/ Kill(p)
          PROVE  cli' = cli \/ cli' = [cli EXCEPT ![p] = "killed"]
      BY <2>2 DEF Exit, Kill
    <2>3. ~UNCHANGED vars
      BY <1>3 DEF vars
    <2> QED
      BY <2>1, <2>2, <2>3, <1>2, <1>3 DEF Next, JobStep
  <1>5. ~Busy(p)
    <2>1. Busy(p) => p # c /\ CliEnds(p, "busy")
      BY DEF Busy, Starts
    <2> QED
      BY <2>1, <1>2, <1>3 DEF CliEnds
  <1>6. ~Begin(p)
    <2>1. Begin(p) => cli' = cli \/ cli' = [cli EXCEPT ![p] = "polling"]
      BY DEF Begin
    <2> QED
      BY <2>1, <1>2, <1>3
  <1>7. ~BeginFails(p)
    <2>1. BeginFails(p) => p # c /\ CliEnds(p, "failed")
      BY DEF BeginFails, PollInv, Polled
    <2> QED
      BY <2>1, <1>2, <1>3 DEF CliEnds
  <1>8. Poll(p)
    BY <1>4, <1>5, <1>6, <1>7
  <1>9. /\ p \in Clis
        /\ \/ CliEnds(p, "not found") /\ jobs > mine[p]
           \/ CliEnds(p, final[mine[p]].status) /\ final[mine[p]] # Nil
    BY <1>8, PollReads
  <1>10. p = c
    BY <1>9, <1>2 DEF CliEnds
  <1> QED
    BY <1>1, <1>9, <1>10 DEF CliEnds

\* Whoever reads the files while other processes write to them sees a sound
\* history and a job that only goes forward, and a CLI that ends reports its own
\* job, or that it has been overtaken.
THEOREM ReadersSeeTheTruth == Spec => PollsStayTrue
  <1>1. PollInv => TypeOK /\ HistorySound
    BY PollInvTypes DEF PollInv, Archived
  <1>2. PollInv /\ [Next]_vars =>
            [file # Nil =>
               /\ file' # Nil /\ file'.job >= file.job
               /\ file'.job = file.job /\ file.status # "running" =>
                     file'.status = file.status]_vars
    BY FileStep
  <1>3. PollInv /\ [Next]_vars =>
            [\A p \in Clis : cli[p] = "polling" /\ cli'[p] \notin {"polling", "killed"} =>
                \/ cli'[p] = "not found" /\ jobs > mine[p]
                \/ final[mine[p]] # Nil /\ cli'[p] = final[mine[p]].status]_vars
    BY CliStep
  <1>4. Spec => [](TypeOK /\ HistorySound)
    BY <1>1, PollInvInit, PollInvNext, PTL DEF Spec
  <1>5. Spec => FileNeverGoesBack
    BY <1>2, PollInvInit, PollInvNext, PTL DEF Spec, FileNeverGoesBack
  <1>6. Spec => CliReportsOwnJob
    BY <1>3, PollInvInit, PollInvNext, PTL DEF Spec, CliReportsOwnJob
  <1> QED
    BY <1>4, <1>5, <1>6 DEF PollsStayTrue
=============================================================================
