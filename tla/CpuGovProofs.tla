---------------------------- MODULE CpuGovProofs ----------------------------
(***************************************************************************)
(* Theorems about the CPU frequency governor: about CpuGov, for any cores, *)
(* frequencies, initial limits and bounds, and about its idle machine fed  *)
(* as in IdleDetection, for any window, break, staleness and ticks.        *)
(***************************************************************************)
EXTENDS CpuGov, IdleDetection, TLAPS

USE IdleRulesAssumption, CpuGovAssumption

SavedOrNone == [Cores -> Limits \cup {Nil}]

LEMMA ClearedTyped ==
    ASSUME NEW s \in CPUState
    PROVE  Cleared(s) \in Machine /\ Cleared(s).state = s
BY DEF Cleared, Machine

LEMMA NoneSavedTyped == NoneSaved \in SavedOrNone
BY DEF NoneSaved, SavedOrNone

LEMMA TargetsTyped == Targets \subseteq Freq
BY DEF Targets, Freq

\* A sample keeps the machine well typed, a tick of one interval after the
\* last one.
LEMMA AdvanceTyped ==
    ASSUME NEW m \in Machine, NEW c \in CPUSample, NEW n \in NPUState
    PROVE  Advance(m, c, n, 1) \in Machine
<1>1. /\ m.state \in CPUState
      /\ m.streak \in 0..NonIdleBreak /\ m.idle \in 0..ObserveWindow
    BY DEF Machine
<1>2. \A s \in CPUState : Cleared(s) \in Machine
    BY ClearedTyped
<1>3. "Active" \in CPUState /\ "Observing" \in CPUState
      /\ "ConfirmedIdle" \in CPUState
    BY DEF CPUState
<1>4. AfterIdle(m, 1) \in Machine
    <2>1. CASE m.state = "Active"
        BY <1>2, <1>3, <2>1 DEF AfterIdle
    <2>2. CASE m.state = "Observing" /\ m.idle + 1 >= ObserveWindow
        BY <1>2, <1>3, <2>2 DEF AfterIdle
    <2>3. CASE m.state = "Observing" /\ ~(m.idle + 1 >= ObserveWindow)
        <3>1. AfterIdle(m, 1) = [m EXCEPT !.streak = 0, !.idle = m.idle + 1]
            BY <2>3 DEF AfterIdle
        <3>2. m.idle + 1 \in 0..ObserveWindow /\ 0 \in 0..NonIdleBreak
            BY <1>1, <2>3
        <3> QED
            BY <3>1, <3>2 DEF Machine
    <2>4. CASE m.state = "ConfirmedIdle"
        <3>1. AfterIdle(m, 1) = [m EXCEPT !.streak = 0]
            BY <2>4 DEF AfterIdle
        <3> QED
            BY <3>1 DEF Machine
    <2> QED
        BY <1>1, <2>1, <2>2, <2>3, <2>4 DEF CPUState
<1>5. AfterNonIdle(m) \in Machine
    <2>1. CASE m.state = "Active" \/ m.streak + 1 >= NonIdleBreak
        BY <1>2, <1>3, <2>1 DEF AfterNonIdle
    <2>2. CASE m.state # "Active" /\ ~(m.streak + 1 >= NonIdleBreak)
        <3>1. AfterNonIdle(m) = [m EXCEPT !.streak = m.streak + 1]
            BY <2>2 DEF AfterNonIdle
        <3>2. m.streak + 1 \in 0..NonIdleBreak
            BY <1>1, <2>2
        <3> QED
            BY <3>1, <3>2 DEF Machine
    <2> QED
        BY <2>1, <2>2
<1> QED
    BY <1>2, <1>3, <1>4, <1>5 DEF Advance

-----------------------------------------------------------------------------
\* The loop over the cores: who is in it, over which cores, and why.
JobSound ==
    /\ holder = Nil => job = "none" /\ todo = {} /\ half = Nil
    /\ holder # Nil => job \in {"down", "up"} /\ applied
    /\ half # Nil => half \in todo
    /\ job = "up" => \A c \in todo : saved[c] # Nil
    /\ holder = "loop" => loop = "sampled"
    /\ holder = "main" => main = "restoring" /\ job = "up"
    /\ main = "exited" => loop = "done"
    /\ main # "exited" /\ holder = Nil => active = applied
    /\ holder = "loop" /\ job = "down" =>
          machine.state = "ConfirmedIdle" /\ sample.npu = "idle"

IInv == TypeOK /\ JobSound /\ HeldOnlyWhileIdle

LEMMA InitIInv == Init => IInv
<1> SUFFICES ASSUME Init PROVE IInv
    OBVIOUS
<1>1. PICK t \in Targets : Fresh(t)
    BY DEF Init
<1>2. target \in Freq
    BY <1>1, TargetsTyped DEF Fresh
<1>3. machine \in Machine
    BY <1>1, ClearedTyped DEF Fresh, CPUState
<1>4. saved \in SavedOrNone
    BY <1>1, NoneSavedTyped DEF Fresh
<1>5. limits \in [Cores -> Limits] /\ original \in [Cores -> Limits]
    BY DEF Init
<1>6. faults \in 0..MaxFaults /\ drifts \in 0..MaxDrifts
      /\ crashes \in 0..MaxCrashes
    BY DEF Init
<1>7. TypeOK
    BY <1>1, <1>2, <1>3, <1>4, <1>5, <1>6
       DEF Fresh, TypeOK, SavedOrNone, CPUSample, NPUState
<1>8. /\ applied = FALSE /\ active = FALSE
      /\ holder = Nil /\ job = "none" /\ todo = {} /\ half = Nil
      /\ main = "running"
    BY <1>1 DEF Fresh
<1>9. JobSound
    BY <1>8 DEF JobSound
<1>10. HeldOnlyWhileIdle
    BY <1>8 DEF HeldOnlyWhileIdle
<1> QED
    BY <1>7, <1>9, <1>10 DEF IInv

-----------------------------------------------------------------------------
\* What the steps that begin a job do, without their LETs.
LEMMA DownclockCases ==
    ASSUME TypeOK, StartDownclock
    PROVE  \/ /\ ReadsFail
              /\ faults' \in 0..MaxFaults
              /\ ok' = FALSE /\ active' = applied /\ loop' = "wait"
              /\ UNCHANGED <<target, saved, applied, holder, job, todo, half, fine>>
           \/ /\ target' \in Freq /\ saved' \in SavedOrNone
              /\ target' # 0 /\ target' \in Targets \cup {target}
              /\ ~ReadsFail => saved' = IF applied THEN saved ELSE limits
              /\ applied' = TRUE /\ faults' \in 0..MaxFaults
              /\ holder' = "loop" /\ job' = "down" /\ todo' = Cores
              /\ half' = Nil /\ fine' = TRUE
              /\ UNCHANGED <<ok, active, loop>>
<1> USE DEF TypeOK
<1>1. CASE /\ ReadsFail /\ faults < MaxFaults
           /\ faults' = faults + 1
           /\ ok' = FALSE
           /\ active' = applied
           /\ loop' = "wait"
           /\ UNCHANGED <<target, saved, applied, holder, job, todo, half, fine>>
    BY <1>1
<1>2. ASSUME NEW t \in IF target = 0 THEN Targets \ {0} ELSE {target},
             target' = t, saved' \in Saves,
             faults' = IF saved' \in {saved, limits} THEN faults ELSE faults + 1,
             applied' = TRUE, BeginJob("loop", "down"),
             UNCHANGED <<ok, active, loop>>
      PROVE  /\ target' \in Freq /\ saved' \in SavedOrNone
             /\ target' # 0 /\ target' \in Targets \cup {target}
             /\ ~ReadsFail => saved' = IF applied THEN saved ELSE limits
             /\ applied' = TRUE /\ faults' \in 0..MaxFaults
             /\ holder' = "loop" /\ job' = "down" /\ todo' = Cores
             /\ half' = Nil /\ fine' = TRUE
             /\ UNCHANGED <<ok, active, loop>>
    <2>1. target' \in Freq /\ target' # 0 /\ target' \in Targets \cup {target}
        BY <1>2, TargetsTyped
    <2>2. saved' \in SavedOrNone
        <3>1. [Cores -> Limits] \subseteq SavedOrNone
            BY DEF SavedOrNone
        <3>2. saved \in SavedOrNone /\ limits \in SavedOrNone
            BY <3>1 DEF SavedOrNone
        <3>3. Saves \subseteq SavedOrNone
            BY <3>1, <3>2 DEF Saves
        <3> QED
            BY <1>2, <3>3
    <2>3. ~ReadsFail => saved' = IF applied THEN saved ELSE limits
        BY <1>2 DEF Saves
    <2>4. faults' \in 0..MaxFaults
        BY <1>2 DEF Saves
    <2>5. /\ holder' = "loop" /\ job' = "down" /\ todo' = Cores
          /\ half' = Nil /\ fine' = TRUE
        BY <1>2 DEF BeginJob
    <2> QED
        BY <1>2, <2>1, <2>2, <2>3, <2>4, <2>5
<1> QED
    BY <1>1, <1>2 DEF StartDownclock

LEMMA DecideCases ==
    ASSUME Decide
    PROVE  /\ loop = "sampled" /\ holder = Nil
           /\ machine' = Advance(machine, sample.cpu, sample.npu, 1)
           /\ UNCHANGED <<limits, sample, main, drifts, crashes, original>>
           /\ \/ /\ machine'.state = "ConfirmedIdle" /\ sample.npu = "idle"
                 /\ StartDownclock
              \/ active /\ StartRestore("loop") /\ UNCHANGED loop
              \/ /\ ~active
                 /\ loop' = "wait"
                 /\ UNCHANGED <<target, saved, applied, ok, active, holder, job,
                                todo, half, fine, faults>>
BY DEF Decide, Desired

LEMMA RestoreBegins ==
    ASSUME NEW h, StartRestore(h)
    PROVE  /\ holder' = h /\ job' = "up" /\ half' = Nil /\ fine' = TRUE
           /\ todo' = {c \in Cores : saved[c] # Nil}
           /\ UNCHANGED <<target, saved, applied, ok, active, faults>>
BY DEF StartRestore, BeginJob

\* What is written to a core is a pair of frequencies.
LEMMA WritesTyped ==
    ASSUME TypeOK, JobSound, NEW c \in todo, holder # Nil
    PROVE  FirstWrite(c) \in Limits /\ SecondWrite(c) \in Limits
<1>1. c \in Cores /\ limits[c] \in Limits /\ target \in Freq
    BY DEF TypeOK
<1>2. CASE job = "down"
    BY <1>1, <1>2 DEF FirstWrite, SecondWrite, Limits
<1>3. CASE job = "up"
    <2>1. saved[c] \in Limits
        BY <1>1, <1>3 DEF JobSound, TypeOK
    <2>2. saved[c].min \in Freq /\ saved[c].max \in Freq
        BY <2>1 DEF Limits
    <2> QED
        BY <1>1, <1>3, <2>2 DEF FirstWrite, SecondWrite, Limits
<1> QED
    BY <1>2, <1>3 DEF JobSound

-----------------------------------------------------------------------------
LEMMA TypeStep ==
    ASSUME TypeOK, JobSound, [Next]_vars
    PROVE  TypeOK'
<1> USE DEF TypeOK, memory, control, bounds
<1>1. ASSUME NEW c \in CPUSample, NEW n \in NPUState, Sample(c, n) PROVE TypeOK'
    BY <1>1 DEF Sample
<1>2. CASE LoopEnds
    BY <1>2 DEF LoopEnds
<1>3. CASE Decide
    <2>1. machine' \in Machine
        BY <1>3, DecideCases, AdvanceTyped
    <2>2. UNCHANGED <<limits, sample, main, drifts, crashes, original>>
          /\ loop = "sampled"
        BY <1>3, DecideCases
    <2>3. CASE StartDownclock
        BY <2>1, <2>2, <2>3, DownclockCases, ZenonT(30) DEF SavedOrNone
    <2>4. CASE StartRestore("loop") /\ UNCHANGED loop
        <3>1. /\ holder' = "loop" /\ job' = "up" /\ half' = Nil /\ fine' = TRUE
              /\ todo' \subseteq Cores
              /\ UNCHANGED <<target, saved, applied, ok, active, faults, loop>>
            BY <2>4, RestoreBegins
        <3> QED
            BY <2>1, <2>2, <3>1
    <2>5. CASE /\ loop' = "wait"
               /\ UNCHANGED <<target, saved, applied, ok, active, holder, job,
                              todo, half, fine, faults>>
        BY <2>1, <2>2, <2>5
    <2> QED
        BY <1>3, <2>3, <2>4, <2>5, DecideCases
<1>4. ASSUME NEW c \in Cores, WriteFirst(c) PROVE TypeOK'
    <2>1. FirstWrite(c) \in Limits
        BY <1>4, WritesTyped DEF WriteFirst
    <2> QED
        BY <1>4, <2>1 DEF WriteFirst
<1>5. ASSUME NEW c \in Cores, WriteSecond(c) PROVE TypeOK'
    <2>1. SecondWrite(c) \in Limits
        BY <1>5, WritesTyped DEF WriteSecond, JobSound
    <2> QED
        BY <1>5, <2>1 DEF WriteSecond
<1>6. ASSUME NEW c \in Cores, WriteFails(c) PROVE TypeOK'
    <2>1. /\ faults' \in 0..MaxFaults /\ half' = Nil /\ fine' = FALSE
          /\ todo' = todo \ {c}
          /\ UNCHANGED <<limits, memory, loop, main, holder, job, drifts, crashes,
                         original>>
        BY <1>6 DEF WriteFails
    <2>2. todo' \subseteq Cores
        BY <2>1
    <2> QED
        BY <2>1, <2>2, ZenonT(30)
<1>7. CASE FinishJob
    <2>1. saved' \in SavedOrNone /\ applied' \in BOOLEAN
        BY <1>7, NoneSavedTyped DEF FinishJob, SavedOrNone
    <2>2. loop' \in {"wait", "sampled", "done"}
          /\ main' \in {"running", "cancelled", "restoring", "stopping", "exited"}
        BY <1>7 DEF FinishJob
    <2>3. ok' \in BOOLEAN /\ active' \in BOOLEAN
        BY <1>7, <2>1 DEF FinishJob
    <2>4. /\ holder' = Nil /\ job' = "none"
          /\ UNCHANGED <<limits, machine, sample, target, todo, half, fine, bounds,
                         original>>
        BY <1>7 DEF FinishJob
    <2> QED
        BY <2>1, <2>2, <2>3, <2>4 DEF SavedOrNone
<1>8. CASE Cancel
    BY <1>8 DEF Cancel
<1>9. CASE RestoreOnShutdown
    <2>1. CASE StartRestore("main") /\ main' = "restoring"
        BY <1>9, <2>1, RestoreBegins DEF RestoreOnShutdown
    <2>2. CASE /\ main' = "stopping"
               /\ UNCHANGED <<target, saved, applied, ok, active, holder, job,
                              todo, half, fine, faults>>
        BY <1>9, <2>2 DEF RestoreOnShutdown
    <2> QED
        BY <1>9, <2>1, <2>2 DEF RestoreOnShutdown
<1>10. CASE Exit
    BY <1>10 DEF Exit
<1>11. CASE CrashAndRestart
    <2>1. machine' \in Machine /\ saved' \in SavedOrNone /\ target' \in Freq
        BY <1>11, ClearedTyped, NoneSavedTyped, TargetsTyped
           DEF CrashAndRestart, CPUState
    <2>2. crashes' \in 0..MaxCrashes
        BY <1>11 DEF CrashAndRestart
    <2>3. sample' \in [cpu : CPUSample, npu : NPUState]
        BY <1>11 DEF CrashAndRestart, CPUSample, NPUState
    <2>4. /\ applied' = FALSE /\ ok' = FALSE /\ active' = FALSE
          /\ loop' = "wait" /\ main' = "running"
          /\ holder' = Nil /\ job' = "none" /\ todo' = {} /\ half' = Nil
          /\ fine' = TRUE
          /\ UNCHANGED <<limits, faults, drifts, original>>
        BY <1>11 DEF CrashAndRestart
    <2> QED
        BY <2>1, <2>2, <2>3, <2>4 DEF SavedOrNone
<1>12. ASSUME NEW c \in Cores, Drift(c) PROVE TypeOK'
    <2>1. PICK l \in InitialLimits :
             /\ limits' = [limits EXCEPT ![c] = l]
             /\ original' = IF applied THEN original ELSE [original EXCEPT ![c] = l]
        BY <1>12 DEF Drift
    <2>2. l \in Limits
        OBVIOUS
    <2>3. limits' \in [Cores -> Limits] /\ original' \in [Cores -> Limits]
        BY <2>1, <2>2
    <2>4. drifts' \in 0..MaxDrifts /\ UNCHANGED <<memory, control, faults, crashes>>
        BY <1>12 DEF Drift
    <2> QED
        BY <2>3, <2>4
<1>13. CASE UNCHANGED vars
    BY <1>13 DEF vars
<1> QED
    BY <1>1, <1>2, <1>3, <1>4, <1>5, <1>6, <1>7, <1>8, <1>9, <1>10, <1>11,
       <1>12, <1>13 DEF Next, LoopStep, JobStep

\* Who holds the mutex is in a job for a reason.
LEMMA JobSoundStep ==
    ASSUME TypeOK, JobSound, [Next]_vars
    PROVE  JobSound'
<1> USE DEF TypeOK, memory, control, bounds
<1>1. ASSUME NEW c \in CPUSample, NEW n \in NPUState, Sample(c, n) PROVE JobSound'
    BY <1>1 DEF Sample, JobSound
<1>2. CASE LoopEnds
    BY <1>2 DEF LoopEnds, JobSound
<1>3. CASE Decide
    <2>1. /\ UNCHANGED <<limits, sample, main, drifts, crashes, original>>
          /\ loop = "sampled" /\ holder = Nil
        BY <1>3, DecideCases
    <2>2. active = applied /\ main # "exited"
        BY <2>1 DEF JobSound
    <2>3. CASE StartDownclock /\ machine'.state = "ConfirmedIdle" /\ sample.npu = "idle"
        BY <2>1, <2>2, <2>3, DownclockCases DEF JobSound
    <2>4. CASE active /\ StartRestore("loop") /\ UNCHANGED loop
        BY <2>1, <2>2, <2>4, RestoreBegins, ZenonT(30) DEF JobSound
    <2>5. CASE /\ loop' = "wait"
               /\ UNCHANGED <<target, saved, applied, ok, active, holder, job,
                              todo, half, fine, faults>>
        BY <2>1, <2>2, <2>5 DEF JobSound
    <2> QED
        BY <1>3, <2>3, <2>4, <2>5, DecideCases
<1>4. ASSUME NEW c \in Cores, WriteFirst(c) \/ WriteSecond(c) \/ WriteFails(c)
      PROVE  JobSound'
    BY <1>4 DEF WriteFirst, WriteSecond, WriteFails, JobSound
<1>5. CASE FinishJob
    <2>1. CASE holder = "loop"
        BY <1>5, <2>1 DEF FinishJob, JobSound
    <2>2. CASE holder = "main"
        BY <1>5, <2>2 DEF FinishJob, JobSound
    <2> QED
        BY <1>5, <2>1, <2>2 DEF FinishJob
<1>6. CASE Cancel
    BY <1>6 DEF Cancel, JobSound
<1>7. CASE RestoreOnShutdown
    <2>1. CASE active /\ StartRestore("main") /\ main' = "restoring"
        <3>1. applied /\ UNCHANGED loop
            BY <1>7, <2>1 DEF RestoreOnShutdown, JobSound
        <3>2. /\ holder' = "main" /\ job' = "up" /\ half' = Nil
              /\ todo' = {c \in Cores : saved[c] # Nil}
              /\ UNCHANGED <<saved, applied, active>>
            BY <2>1, RestoreBegins
        <3> QED
            BY <2>1, <3>1, <3>2 DEF JobSound
    <2>2. CASE /\ main' = "stopping"
               /\ UNCHANGED <<target, saved, applied, ok, active, holder, job,
                              todo, half, fine, faults>>
        BY <1>7, <2>2 DEF RestoreOnShutdown, JobSound
    <2> QED
        BY <1>7, <2>1, <2>2 DEF RestoreOnShutdown
<1>8. CASE Exit
    BY <1>8 DEF Exit, JobSound
<1>9. CASE CrashAndRestart
    BY <1>9 DEF CrashAndRestart, JobSound
<1>10. ASSUME NEW c \in Cores, Drift(c) PROVE JobSound'
    BY <1>10 DEF Drift, JobSound
<1>11. CASE UNCHANGED vars
    BY <1>11 DEF vars, JobSound
<1> QED
    BY <1>1, <1>2, <1>3, <1>4, <1>5, <1>6, <1>7, <1>8, <1>9, <1>10, <1>11
       DEF Next, LoopStep, JobStep

LEMMA HeldStep ==
    ASSUME TypeOK, JobSound, HeldOnlyWhileIdle, [Next]_vars
    PROVE  HeldOnlyWhileIdle'
<1> USE DEF TypeOK, memory, control, bounds, HeldOnlyWhileIdle
<1>1. ASSUME NEW c \in CPUSample, NEW n \in NPUState, Sample(c, n)
      PROVE  HeldOnlyWhileIdle'
    BY <1>1 DEF Sample
<1>2. CASE LoopEnds
    BY <1>2 DEF LoopEnds
<1>3. CASE Decide
    <2>1. UNCHANGED <<sample, main>> /\ loop = "sampled" /\ holder = Nil
        BY <1>3, DecideCases
    <2>2. active = applied
        BY <2>1 DEF JobSound
    <2>3. CASE StartDownclock
        BY <2>1, <2>3, DownclockCases
    <2>4. CASE UNCHANGED loop
        BY <2>1, <2>4
    <2>5. CASE ~active /\ UNCHANGED applied
        BY <2>2, <2>5
    <2> QED
        BY <1>3, <2>3, <2>4, <2>5, DecideCases
<1>4. ASSUME NEW c \in Cores, WriteFirst(c) \/ WriteSecond(c) \/ WriteFails(c)
      PROVE  HeldOnlyWhileIdle'
    BY <1>4 DEF WriteFirst, WriteSecond, WriteFails
<1>5. CASE FinishJob
    <2>1. CASE holder = "loop" /\ job = "down"
        BY <1>5, <2>1 DEF FinishJob, JobSound
    <2>2. CASE job = "up"
        BY <1>5, <2>2 DEF FinishJob
    <2>3. CASE holder = "main"
        BY <1>5, <2>3 DEF FinishJob
    <2> QED
        BY <1>5, <2>1, <2>2, <2>3 DEF FinishJob, JobSound
<1>6. CASE Cancel \/ Exit
    BY <1>6 DEF Cancel, Exit
<1>7. CASE RestoreOnShutdown
    BY <1>7 DEF RestoreOnShutdown
<1>8. CASE CrashAndRestart
    BY <1>8 DEF CrashAndRestart
<1>9. ASSUME NEW c \in Cores, Drift(c) PROVE HeldOnlyWhileIdle'
    BY <1>9 DEF Drift
<1>10. CASE UNCHANGED vars
    BY <1>10 DEF vars
<1> QED
    BY <1>1, <1>2, <1>3, <1>4, <1>5, <1>6, <1>7, <1>8, <1>9, <1>10
       DEF Next, LoopStep, JobStep

LEMMA AlwaysIInv == Spec => []IInv
<1>1. IInv /\ [Next]_vars => IInv'
    BY TypeStep, JobSoundStep, HeldStep DEF IInv
<1> QED
    BY <1>1, InitIInv, PTL DEF Spec

\* The type invariant: limits, memory and control of loop and shutdown stay in
\* their ranges, whatever fails (actuator.go:28-31).
THEOREM TypeCorrect == Spec => []TypeOK
<1>1. IInv => TypeOK
    BY DEF IInv
<1> QED
    BY <1>1, AlwaysIInv, PTL

\* No sequence of samples, failures, foreign changes or crashes leaves the
\* cores held down between ticks unless the host is idle
\* (controller.go:207-211).
THEOREM HeldWhileIdle == Spec => []HeldOnlyWhileIdle
<1>1. IInv => HeldOnlyWhileIdle
    BY DEF IInv
<1> QED
    BY <1>1, AlwaysIInv, PTL

-----------------------------------------------------------------------------
\* What Restore has put back, when nobody else writes the limits and reads and
\* the process do not fail: the cores a Restore without a failure has done are
\* at their original limits, so nothing is pinned once it forgets.
PutBack ==
    /\ applied => saved = original
    /\ ~applied => limits = original
    /\ job = "up" /\ fine =>
          \A c \in Cores :
             /\ c \notin todo => limits[c] = original[c]
             /\ half = c => limits[c].max = original[c].max

Undisturbed == MaxDrifts = 0 /\ MaxCrashes = 0 /\ ReadsFail = FALSE

LEMMA PutBackStep ==
    ASSUME Undisturbed, TypeOK, JobSound, PutBack, [Next]_vars
    PROVE  PutBack'
<1> USE DEF TypeOK, memory, control, bounds
<1>1. ASSUME NEW c \in CPUSample, NEW n \in NPUState, Sample(c, n) PROVE PutBack'
    BY <1>1 DEF Sample, PutBack
<1>2. CASE LoopEnds
    BY <1>2 DEF LoopEnds, PutBack
<1>3. CASE Decide
    <2>1. UNCHANGED <<limits, original>> /\ holder = Nil
        BY <1>3, DecideCases
    <2>2. CASE StartDownclock
        <3>1. /\ saved' = IF applied THEN saved ELSE limits
              /\ applied' = TRUE /\ job' = "down"
            BY <2>2, DownclockCases DEF Undisturbed
        <3> QED
            BY <2>1, <3>1 DEF PutBack
    <2>3. CASE StartRestore("loop") /\ active
        <3>1. applied
            BY <2>1, <2>3, <1>3, DecideCases DEF JobSound
        <3>2. \A c \in Cores : saved[c] # Nil
            BY <3>1 DEF PutBack
        <3>3. todo' = Cores /\ half' = Nil /\ UNCHANGED <<saved, applied>>
            BY <2>3, <3>2, RestoreBegins
        <3> QED
            BY <2>1, <3>1, <3>3 DEF PutBack
    <2>4. CASE UNCHANGED <<target, saved, applied, ok, active, holder, job,
                           todo, half, fine, faults>>
        BY <2>1, <2>4 DEF PutBack
    <2> QED
        BY <1>3, <2>2, <2>3, <2>4, DecideCases
<1>4. ASSUME NEW c \in Cores, WriteFirst(c) PROVE PutBack'
    <2>1. /\ limits' = [limits EXCEPT ![c] = FirstWrite(c)]
          /\ half = Nil /\ half' = c /\ holder # Nil /\ c \in todo
          /\ UNCHANGED <<memory, job, todo, fine, original>>
        BY <1>4 DEF WriteFirst
    <2>2. applied
        BY <2>1 DEF JobSound
    <2>3. ASSUME job = "up" PROVE FirstWrite(c).max = original[c].max
        BY <2>2, <2>3 DEF FirstWrite, PutBack, Limits
    <2> HIDE DEF TypeOK
    <2>4. \A d \in Cores : d # c => limits'[d] = limits[d]
        BY <2>1 DEF TypeOK
    <2>5. limits'[c] = FirstWrite(c)
        BY <2>1 DEF TypeOK
    <2> QED
        BY <2>1, <2>2, <2>3, <2>4, <2>5 DEF PutBack
<1>5. ASSUME NEW c \in Cores, WriteSecond(c) PROVE PutBack'
    <2>1. /\ limits' = [limits EXCEPT ![c] = SecondWrite(c)]
          /\ half = c /\ half' = Nil /\ holder # Nil /\ todo' = todo \ {c}
          /\ UNCHANGED <<memory, job, fine, original>>
        BY <1>5 DEF WriteSecond
    <2>2. applied
        BY <2>1 DEF JobSound
    <2>3. ASSUME job = "up", fine PROVE SecondWrite(c) = original[c]
        <3>1. SecondWrite(c) = [limits[c] EXCEPT !.min = original[c].min]
            BY <2>2, <2>3 DEF SecondWrite, PutBack
        <3>2. limits[c].max = original[c].max
            BY <2>1, <2>3 DEF PutBack
        <3>3. limits[c] \in Limits /\ original[c] \in Limits
            OBVIOUS
        <3> QED
            BY <3>1, <3>2, <3>3 DEF Limits
    <2> HIDE DEF TypeOK
    <2>4. \A d \in Cores : d # c => limits'[d] = limits[d]
        BY <2>1 DEF TypeOK
    <2>5. limits'[c] = SecondWrite(c)
        BY <2>1 DEF TypeOK
    <2> QED
        BY <2>1, <2>2, <2>3, <2>4, <2>5 DEF PutBack
<1>6. ASSUME NEW c \in Cores, WriteFails(c) PROVE PutBack'
    <2>1. /\ fine' = FALSE
          /\ UNCHANGED <<limits, memory, original>>
        BY <1>6 DEF WriteFails
    <2> QED
        BY <2>1 DEF PutBack
<1>7. CASE FinishJob
    <2>1. /\ todo = {} /\ holder # Nil /\ job' = "none"
          /\ UNCHANGED <<limits, original>>
        BY <1>7 DEF FinishJob
    <2>2. CASE job = "up" /\ fine
        <3>1. \A c \in Cores : limits[c] = original[c]
            BY <2>1, <2>2 DEF PutBack
        <3>2. limits = original
            BY <3>1
        <3>3. applied' = FALSE
            BY <1>7, <2>2 DEF FinishJob
        <3> QED
            BY <2>1, <3>2, <3>3 DEF PutBack
    <2>3. CASE ~(job = "up" /\ fine)
        <3>1. UNCHANGED <<saved, applied>>
            BY <1>7, <2>3 DEF FinishJob
        <3> QED
            BY <2>1, <3>1 DEF PutBack
    <2> QED
        BY <2>2, <2>3
<1>8. CASE Cancel
    BY <1>8 DEF Cancel, PutBack
<1>9. CASE RestoreOnShutdown
    <2>1. UNCHANGED <<limits, original>> /\ holder = Nil /\ main = "cancelled"
        BY <1>9 DEF RestoreOnShutdown
    <2>2. CASE StartRestore("main") /\ active
        <3>1. applied
            BY <2>1, <2>2 DEF JobSound
        <3>2. \A c \in Cores : saved[c] # Nil
            BY <3>1 DEF PutBack
        <3>3. todo' = Cores /\ half' = Nil /\ UNCHANGED <<saved, applied>>
            BY <2>2, <3>2, RestoreBegins
        <3> QED
            BY <2>1, <3>1, <3>3 DEF PutBack
    <2>3. CASE UNCHANGED <<target, saved, applied, ok, active, holder, job,
                           todo, half, fine, faults>>
        BY <2>1, <2>3 DEF PutBack
    <2> QED
        BY <1>9, <2>2, <2>3 DEF RestoreOnShutdown
<1>10. CASE Exit
    BY <1>10 DEF Exit, PutBack
<1>11. CASE CrashAndRestart
    BY <1>11 DEF CrashAndRestart, Undisturbed
<1>12. ASSUME NEW c \in Cores, Drift(c) PROVE PutBack'
    BY <1>12 DEF Drift, Undisturbed
<1>13. CASE UNCHANGED vars
    BY <1>13 DEF vars, PutBack
<1> QED
    BY <1>1, <1>2, <1>3, <1>4, <1>5, <1>6, <1>7, <1>8, <1>9, <1>10, <1>11,
       <1>12, <1>13 DEF Next, LoopStep, JobStep

LEMMA AlwaysPutBack ==
    ASSUME Undisturbed
    PROVE  Spec => []PutBack
<1>1. Init => PutBack
    BY DEF Init, Fresh, PutBack
<1>2. IInv /\ PutBack /\ [Next]_vars => PutBack'
    BY PutBackStep DEF IInv
<1> QED
    BY <1>1, <1>2, AlwaysIInv, PTL DEF Spec

\* Undisturbed (nobody else writes the limits, no crash, reads work): what is
\* kept for Restore is what the administrator had set, for any number of failing
\* writes and any shutdown (actuator.go:97-98).
THEOREM OriginalsSaved ==
    ASSUME Undisturbed
    PROVE  Spec => []SavedAreOriginals
<1>1. PutBack => SavedAreOriginals
    BY DEF PutBack, SavedAreOriginals
<1> QED
    BY <1>1, AlwaysPutBack, PTL

\* Undisturbed: however writes fail, a core whose limits this program changed is one that
\* Restore will be run for (actuator.go:182-187).
THEOREM PinnedRemembered ==
    ASSUME Undisturbed
    PROVE  Spec => []PinnedIsRemembered
<1>1. PutBack => PinnedIsRemembered
    BY DEF PutBack, PinnedIsRemembered
<1> QED
    BY <1>1, AlwaysPutBack, PTL

\* Undisturbed: a Restore that reports success has put every core back where it
\* was, also when it is the retry of one whose writes failed
\* (actuator.go:182-187).
THEOREM RestorePutsBack ==
    ASSUME Undisturbed
    PROVE  Spec => RestoreRestores
<1>1. ASSUME IInv, PutBack, [Next]_vars
      PROVE  [job = "up" /\ job' = "none" /\ ok' /\ main' # "exited" =>
                 limits' = original']_vars
    <2> SUFFICES ASSUME job = "up", job' = "none", ok', main' # "exited"
                 PROVE  limits' = original'
        OBVIOUS
    <2> USE <1>1 DEF IInv, TypeOK, memory, control, bounds
    <2>1. holder # Nil
        BY DEF JobSound
    <2>2. CASE FinishJob
        <3>1. fine /\ todo = {} /\ UNCHANGED <<limits, original>>
            BY <2>2 DEF FinishJob
        <3>2. \A c \in Cores : limits[c] = original[c]
            BY <3>1 DEF PutBack
        <3> QED
            BY <3>1, <3>2
    <2>3. CASE Decide \/ RestoreOnShutdown
        BY <2>1, <2>3, DecideCases DEF RestoreOnShutdown
    <2>4. CASE Exit
        BY <2>4 DEF Exit
    <2>5. CASE CrashAndRestart
        BY <2>5 DEF CrashAndRestart, Undisturbed
    <2>6. CASE LoopEnds \/ Cancel \/ UNCHANGED vars
        BY <2>6 DEF LoopEnds, Cancel, vars
    <2>7. ASSUME NEW c \in Cores,
                 WriteFirst(c) \/ WriteSecond(c) \/ WriteFails(c) \/ Drift(c)
          PROVE  FALSE
        BY <2>7 DEF WriteFirst, WriteSecond, WriteFails, Drift
    <2>8. ASSUME NEW c \in CPUSample, NEW n \in NPUState, Sample(c, n)
          PROVE  FALSE
        BY <2>8 DEF Sample
    <2> QED
        BY <2>2, <2>3, <2>4, <2>5, <2>6, <2>7, <2>8 DEF Next, LoopStep, JobStep
<1> QED
    BY <1>1, AlwaysIInv, AlwaysPutBack, PTL DEF Spec, RestoreRestores

-----------------------------------------------------------------------------
\* The order of the two writes: each limit is the original or the target, and
\* the core in between has the one written that keeps the floor low enough.
Ordered ==
    /\ target \in {0, InfoMin} /\ (applied => target = InfoMin)
    /\ \A c \in Cores :
          /\ original[c] \in Limits
          /\ InfoMin <= original[c].min /\ original[c].min <= original[c].max
          /\ limits[c].min \in {InfoMin, original[c].min}
          /\ limits[c].max \in {InfoMin, original[c].max}
          /\ limits[c].min <= limits[c].max
          /\ job = "down" /\ half = c => limits[c].min = InfoMin
          /\ job = "up" /\ half = c => limits[c].max = original[c].max

LEMMA OrderedStep ==
    ASSUME Undisturbed, Override = 0, TypeOK, JobSound, PutBack, Ordered,
           [Next]_vars
    PROVE  Ordered'
<1> USE DEF memory, control, bounds
<1>1. ASSUME NEW c \in CPUSample, NEW n \in NPUState, Sample(c, n) PROVE Ordered'
    BY <1>1 DEF Sample, Ordered
<1>2. CASE LoopEnds
    BY <1>2 DEF LoopEnds, Ordered
<1>3. CASE Decide
    <2>1. UNCHANGED <<limits, original>> /\ holder = Nil
        BY <1>3, DecideCases
    <2>2. CASE StartDownclock
        <3>1. target' # 0 /\ target' \in Targets \cup {target}
              /\ half' = Nil
            BY <2>2, DownclockCases DEF Undisturbed
        <3>2. Targets = {InfoMin}
            BY DEF Targets, Undisturbed
        <3>3. target' = InfoMin
            BY <3>1, <3>2 DEF Ordered
        <3> QED
            BY <2>1, <3>1, <3>3 DEF Ordered
    <2>3. CASE StartRestore("loop")
        BY <2>1, <2>3, RestoreBegins DEF Ordered
    <2>4. CASE UNCHANGED <<target, saved, applied, ok, active, holder, job,
                           todo, half, fine, faults>>
        BY <2>1, <2>4 DEF Ordered
    <2> QED
        BY <1>3, <2>2, <2>3, <2>4, DecideCases
<1>4. ASSUME NEW c \in Cores, WriteFirst(c) PROVE Ordered'
    <2>1. /\ limits' = [limits EXCEPT ![c] = FirstWrite(c)]
          /\ half = Nil /\ half' = c /\ holder # Nil /\ c \in todo
          /\ UNCHANGED <<memory, job, todo, original>>
        BY <1>4 DEF WriteFirst
    <2>2. applied /\ saved = original /\ target = InfoMin /\ job \in {"up", "down"}
        BY <2>1 DEF JobSound, PutBack, Ordered
    <2>3. /\ \A d \in Cores : d # c => limits'[d] = limits[d]
          /\ limits'[c] = FirstWrite(c)
        BY <2>1 DEF TypeOK
    <2>4. limits[c] \in Limits
        BY DEF TypeOK
    <2>5. InfoMin \in Int /\ original[c].min \in Int /\ original[c].max \in Int
        BY DEF Ordered, Limits, Freq
    <2>6. CASE job = "down"
        <3>1. FirstWrite(c).min = InfoMin /\ FirstWrite(c).max = limits[c].max
            BY <2>2, <2>4, <2>6 DEF FirstWrite, Limits
        <3>2. InfoMin <= limits[c].max
            BY <2>5 DEF Ordered
        <3> QED
            BY <2>1, <2>2, <2>3, <2>6, <3>1, <3>2 DEF Ordered
    <2>7. CASE job = "up"
        <3>1. /\ FirstWrite(c).min = limits[c].min
              /\ FirstWrite(c).max = original[c].max
            BY <2>2, <2>4, <2>7 DEF FirstWrite, Limits
        <3>2. limits[c].min <= original[c].max
            BY <2>5 DEF Ordered
        <3> QED
            BY <2>1, <2>2, <2>3, <2>7, <3>1, <3>2 DEF Ordered
    <2> QED
        BY <2>2, <2>6, <2>7
<1>5. ASSUME NEW c \in Cores, WriteSecond(c) PROVE Ordered'
    <2>1. /\ limits' = [limits EXCEPT ![c] = SecondWrite(c)]
          /\ half = c /\ half' = Nil /\ holder # Nil
          /\ UNCHANGED <<memory, job, original>>
        BY <1>5 DEF WriteSecond
    <2>2. applied /\ saved = original /\ target = InfoMin /\ job \in {"up", "down"}
        BY <2>1 DEF JobSound, PutBack, Ordered
    <2>3. /\ \A d \in Cores : d # c => limits'[d] = limits[d]
          /\ limits'[c] = SecondWrite(c)
        BY <2>1 DEF TypeOK
    <2>4. limits[c] \in Limits
        BY DEF TypeOK
    <2>5. CASE job = "down"
        <3>1. SecondWrite(c).min = InfoMin /\ SecondWrite(c).max = InfoMin
            BY <2>1, <2>2, <2>4, <2>5 DEF SecondWrite, Limits, Ordered
        <3> QED
            BY <2>1, <2>2, <2>3, <2>5, <3>1 DEF Ordered
    <2>6. CASE job = "up"
        <3>1. /\ SecondWrite(c).min = original[c].min
              /\ SecondWrite(c).max = original[c].max
            BY <2>1, <2>2, <2>4, <2>6 DEF SecondWrite, Limits, Ordered
        <3> QED
            BY <2>1, <2>2, <2>3, <2>6, <3>1 DEF Ordered
    <2> QED
        BY <2>2, <2>5, <2>6
<1>6. ASSUME NEW c \in Cores, WriteFails(c) PROVE Ordered'
    <2>1. UNCHANGED <<limits, memory, job, original>> /\ half' = Nil
        BY <1>6 DEF WriteFails
    <2> QED
        BY <2>1 DEF Ordered
<1>7. CASE FinishJob
    <2>1. /\ job' = "none"
          /\ applied' => applied
          /\ UNCHANGED <<limits, target, original>>
        BY <1>7 DEF FinishJob
    <2> QED
        BY <2>1 DEF Ordered
<1>8. CASE Cancel \/ Exit
    BY <1>8 DEF Cancel, Exit, Ordered
<1>9. CASE RestoreOnShutdown
    <2>1. UNCHANGED <<limits, original>>
        BY <1>9 DEF RestoreOnShutdown
    <2>2. CASE StartRestore("main")
        BY <2>1, <2>2, RestoreBegins DEF Ordered
    <2>3. CASE UNCHANGED <<target, saved, applied, ok, active, holder, job,
                           todo, half, fine, faults>>
        BY <2>1, <2>3 DEF Ordered
    <2> QED
        BY <1>9, <2>2, <2>3 DEF RestoreOnShutdown
<1>10. CASE CrashAndRestart
    BY <1>10 DEF CrashAndRestart, Undisturbed, TypeOK
<1>11. ASSUME NEW c \in Cores, Drift(c) PROVE Ordered'
    BY <1>11 DEF Drift, Undisturbed, TypeOK
<1>12. CASE UNCHANGED vars
    BY <1>12 DEF vars, Ordered
<1> QED
    BY <1>1, <1>2, <1>3, <1>4, <1>5, <1>6, <1>7, <1>8, <1>9, <1>10, <1>11,
       <1>12 DEF Next, LoopStep, JobStep

\* Undisturbed: neither order of the two writes makes a floor exceed its ceiling, also when
\* a write in between fails; without min_freq_override (actuator.go:154-157).
THEOREM FloorBelowCeiling ==
    ASSUME Undisturbed, Override = 0
    PROVE  Spec => []MinLeqMax
<1>1. Init => Ordered
    <2> SUFFICES ASSUME Init PROVE Ordered
        OBVIOUS
    <2>1. Targets = {InfoMin}
        BY DEF Targets, Undisturbed
    <2>2. target = InfoMin /\ job = "none"
        BY <2>1 DEF Init, Fresh
    <2>3. ASSUME NEW c \in Cores
          PROVE  /\ original[c] = limits[c] /\ limits[c] \in Limits
                 /\ InfoMin <= limits[c].min /\ limits[c].min <= limits[c].max
        BY DEF Init
    <2> QED
        BY <2>2, <2>3 DEF Ordered
<1>2. IInv /\ PutBack /\ Ordered /\ [Next]_vars => Ordered'
    BY OrderedStep DEF IInv
<1>3. Ordered => MinLeqMax
    BY DEF Ordered, MinLeqMax
<1> QED
    BY <1>1, <1>2, <1>3, AlwaysIInv, AlwaysPutBack, PTL DEF Spec

-----------------------------------------------------------------------------
USE IdleDetectionAssumption

\* The idle machine against its meaning: how its clock and streak follow from
\* the samples.  While it is Active the streak is not counted, but busyRun may
\* be anything.
Tracks ==
    /\ idleMachine \in Machine
    /\ busyRun \in 0..NonIdleBreak
    /\ sustained \in 0..(ObserveWindow + 1)
    /\ idleMachine.state # "Active" => busyRun = idleMachine.streak
    /\ idleMachine.state = "Active" => sustained = 0
    /\ idleMachine.state = "Observing" =>
          idleMachine.idle < ObserveWindow /\ sustained = idleMachine.idle + 1
    /\ idleMachine.state = "ConfirmedIdle" => sustained = ObserveWindow + 1

LEMMA ClearedIs ==
    ASSUME NEW s \in CPUState
    PROVE  /\ Cleared(s) \in Machine
           /\ Cleared(s).state = s /\ Cleared(s).streak = 0 /\ Cleared(s).idle = 0
BY DEF Cleared, Machine

LEMMA Classified ==
    ASSUME NEW r, NEW stale
    PROVE  ClassifyCPU(r, stale) \in CPUSample /\ ClassifyNPU(r, stale) \in NPUState
BY DEF ClassifyCPU, ClassifyNPU, CPUSample, NPUState

\* One sample, whatever it is, and whenever it comes.
LEMMA SampleTracked ==
    ASSUME Tracks, NEW c \in CPUSample, NEW n \in NPUState, NEW d \in Nat,
           idleMachine' = Advance(idleMachine, c, n, d), Remember(c, n, d)
    PROVE  /\ Tracks'
           /\ idleMachine.state = "ConfirmedIdle" =>
                 (idleMachine'.state = "ConfirmedIdle" <=> ~Breaks(c, n, busyRun))
<1> DEFINE Goal ==
        /\ Tracks'
        /\ idleMachine.state = "ConfirmedIdle" =>
              (idleMachine'.state = "ConfirmedIdle" <=> ~Breaks(c, n, busyRun))
<1> USE DEF Tracks
<1>1. /\ idleMachine.state \in CPUState
      /\ idleMachine.streak \in 0..NonIdleBreak /\ idleMachine.idle \in 0..ObserveWindow
    BY DEF Machine
<1>2. "Active" \in CPUState /\ "Observing" \in CPUState
      /\ "ConfirmedIdle" \in CPUState
    BY DEF CPUState
<1>3. busyRun' \in 0..NonIdleBreak /\ sustained' \in 0..(ObserveWindow + 1)
    <2>1. busyRun' \in 0..NonIdleBreak
        BY DEF Remember, Capped, CPUSample
    <2>2. sustained' \in 0..(ObserveWindow + 1)
        BY DEF Remember, Capped
    <2> QED
        BY <2>1, <2>2
<1>4. CASE n = "non-idle"
    <2>1. idleMachine' = Cleared("Active") /\ Breaks(c, n, busyRun) /\ sustained' = 0
        BY <1>4 DEF Advance, Breaks, Remember
    <2> QED
        BY <1>2, <1>3, <2>1, ClearedIs
<1>5. CASE n # "non-idle" /\ c = "idle"
    <2>1. /\ idleMachine' = AfterIdle(idleMachine, d) /\ ~Breaks(c, n, busyRun)
          /\ busyRun' = 0
          /\ sustained' = IF sustained = 0 THEN 1
                          ELSE Capped(sustained + d, ObserveWindow + 1)
        BY <1>5 DEF Advance, Breaks, Remember
    <2>2. CASE idleMachine.state = "Active"
        <3>1. idleMachine' = Cleared("Observing") /\ sustained' = 1
            BY <2>1, <2>2 DEF AfterIdle
        <3> QED
            BY <1>2, <1>3, <2>1, <2>2, <3>1, ClearedIs
    <2>3. CASE idleMachine.state = "Observing" /\ idleMachine.idle + d >= ObserveWindow
        <3>1. idleMachine' = Cleared("ConfirmedIdle")
            BY <2>1, <2>3 DEF AfterIdle
        <3>2. sustained' = ObserveWindow + 1
            BY <1>1, <2>1, <2>3 DEF Capped
        <3> QED
            BY <1>2, <1>3, <2>1, <2>3, <3>1, <3>2, ClearedIs
    <2>4. CASE idleMachine.state = "Observing" /\ ~(idleMachine.idle + d >= ObserveWindow)
        <3>1. idleMachine' = [idleMachine EXCEPT !.streak = 0, !.idle = idleMachine.idle + d]
            BY <2>1, <2>4 DEF AfterIdle
        <3>2. idleMachine.idle + d \in 0..ObserveWindow /\ 0 \in 0..NonIdleBreak
            BY <1>1, <2>4
        <3>3. /\ idleMachine' \in Machine /\ idleMachine'.state = "Observing"
              /\ idleMachine'.streak = 0 /\ idleMachine'.idle = idleMachine.idle + d
            BY <2>4, <3>1, <3>2 DEF Machine
        <3>4. sustained' = idleMachine.idle + d + 1
            BY <1>1, <2>1, <2>4 DEF Capped
        <3> QED
            BY <1>1, <1>3, <2>1, <2>4, <3>3, <3>4
    <2>5. CASE idleMachine.state = "ConfirmedIdle"
        <3>1. idleMachine' = [idleMachine EXCEPT !.streak = 0]
            BY <2>1, <2>5 DEF AfterIdle
        <3>2. /\ idleMachine' \in Machine /\ idleMachine'.state = "ConfirmedIdle"
              /\ idleMachine'.streak = 0
            BY <2>5, <3>1 DEF Machine
        <3>3. sustained' = ObserveWindow + 1
            BY <2>1, <2>5 DEF Capped
        <3> QED
            BY <1>3, <2>1, <2>5, <3>2, <3>3
    <2> QED
        BY <1>1, <2>2, <2>3, <2>4, <2>5 DEF CPUState
<1>6. CASE n # "non-idle" /\ c = "non-idle"
    <2>1. /\ idleMachine' = AfterNonIdle(idleMachine)
          /\ Breaks(c, n, busyRun) <=> busyRun + 1 >= NonIdleBreak
          /\ busyRun' = Capped(busyRun + 1, NonIdleBreak)
          /\ sustained' = IF Breaks(c, n, busyRun) THEN 0 ELSE sustained
        BY <1>6 DEF Advance, Breaks, Remember
    <2>2. CASE idleMachine.state = "Active"
        <3>1. idleMachine' = idleMachine /\ sustained' = 0
            BY <2>1, <2>2 DEF AfterNonIdle
        <3> QED
            BY <1>3, <2>2, <3>1
    <2>3. CASE idleMachine.state # "Active" /\ busyRun + 1 >= NonIdleBreak
        <3>1. idleMachine' = Cleared("Active") /\ sustained' = 0
            BY <2>1, <2>3 DEF AfterNonIdle
        <3> QED
            BY <1>2, <1>3, <2>1, <2>3, <3>1, ClearedIs
    <2>4. CASE idleMachine.state # "Active" /\ ~(busyRun + 1 >= NonIdleBreak)
        <3>1. /\ idleMachine' = [idleMachine EXCEPT !.streak = idleMachine.streak + 1]
              /\ sustained' = sustained
            BY <2>1, <2>4 DEF AfterNonIdle
        <3>2. idleMachine.streak + 1 \in 0..NonIdleBreak
            BY <1>1, <2>4
        <3>3. /\ idleMachine' \in Machine /\ idleMachine'.state = idleMachine.state
              /\ idleMachine'.streak = idleMachine.streak + 1
              /\ idleMachine'.idle = idleMachine.idle
            BY <3>1, <3>2 DEF Machine
        <3>4. busyRun' = idleMachine.streak + 1
            BY <1>1, <2>1, <2>4 DEF Capped
        <3> QED
            BY <1>3, <2>1, <2>4, <3>1, <3>3, <3>4
    <2> QED
        BY <2>2, <2>3, <2>4
<1>7. CASE n # "non-idle" /\ c = "unknown"
    <2>1. /\ idleMachine' = idleMachine /\ ~Breaks(c, n, busyRun)
          /\ busyRun' = busyRun /\ sustained' = sustained
        BY <1>7 DEF Advance, Breaks, Remember
    <2> QED
        BY <2>1
<1> QED
    BY <1>4, <1>5, <1>6, <1>7 DEF CPUSample

LEMMA TickTracked ==
    ASSUME Tracks, IdleNext
    PROVE  /\ Tracks'
           /\ idleMachine.state = "ConfirmedIdle" =>
                 (idleMachine'.state = "ConfirmedIdle" <=>
                     ~Breaks(ClassifyCPU(cpu', CpuStale),
                             ClassifyNPU(npu', NpuStale), busyRun))
<1>1. PICK d \in Deltas :
         /\ idleMachine' = Advance(idleMachine, ClassifyCPU(cpu', CpuStale),
                                   ClassifyNPU(npu', NpuStale), d)
         /\ Remember(ClassifyCPU(cpu', CpuStale), ClassifyNPU(npu', NpuStale), d)
    BY DEF IdleNext, Tick
<1>2. d \in Nat
    OBVIOUS
<1> QED
    BY <1>1, <1>2, Classified, SampleTracked

LEMMA AlwaysTracks == IdleSpec => []Tracks
<1>1. IdleInit => Tracks
    BY ClearedIs DEF IdleInit, Tracks, CPUState
<1>2. Tracks /\ [IdleNext]_idleVars => Tracks'
    <2>1. ASSUME Tracks, UNCHANGED idleVars PROVE Tracks'
        BY <2>1 DEF Tracks, idleVars
    <2> QED
        BY <2>1, TickTracked
<1> QED
    BY <1>1, <1>2, PTL DEF IdleSpec

\* The machine confirms an idle CPU exactly when the samples since the last
\* break add up to the observation window (state.go:79-82).
THEOREM ConfirmedIsSustained == IdleSpec => []ConfirmedIffSustained
<1>1. Tracks => ConfirmedIffSustained
    BY DEF Tracks, ConfirmedIffSustained, Machine, CPUState
<1> QED
    BY <1>1, AlwaysTracks, PTL

\* A confirmed idle CPU is given up at a break, and at nothing else
\* (state.go:166-168).
THEOREM OnlyABreakEnds == IdleSpec => ConfirmedUntilBreak
<1> DEFINE Keeps ==
        idleMachine.state = "ConfirmedIdle" =>
          (idleMachine'.state = "ConfirmedIdle" <=>
              ~Breaks(ClassifyCPU(cpu', CpuStale), ClassifyNPU(npu', NpuStale),
                      busyRun))
<1>1. Tracks /\ [IdleNext]_idleVars => [Keeps]_idleVars
    BY TickTracked
<1> QED
    BY <1>1, AlwaysTracks, PTL DEF IdleSpec, ConfirmedUntilBreak
=============================================================================
