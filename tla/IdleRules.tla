----------------------------- MODULE IdleRules -----------------------------
(***************************************************************************)
(* The decisions of the CPU frequency governor (features/cpugov): how its  *)
(* inputs are classified (controller.go), the idle state machine           *)
(* (state.go) and when the cores should be held down.  Times are in units  *)
(* of the control interval.                                                *)
(***************************************************************************)
EXTENDS Integers

CONSTANTS ObserveWindow,  \* idle time that confirms an idle CPU
          NonIdleBreak    \* non-idle samples in a row that abort

ASSUME IdleRulesAssumption ==
    /\ ObserveWindow \in Nat \ {0}
    /\ NonIdleBreak \in Nat \ {0}

CPUSample == {"idle", "non-idle", "unknown"}
NPUState == {"idle", "non-idle", "unknown"}
CPUState == {"Active", "Observing", "ConfirmedIdle"}

\* machine, without its clock: an idle sample adds the time since the tick
\* before, and a machine that counts has always had one.
Machine == [state : CPUState, streak : 0..NonIdleBreak, idle : 0..ObserveWindow]

Cleared(s) == [state |-> s, streak |-> 0, idle |-> 0]

\* classifyCPU and classifyNPU.  A reading is [seen, busy, age]; seen is FALSE
\* until the first one arrives.
ClassifyCPU(r, stale) ==
    IF ~r.seen \/ r.age > stale THEN "unknown"
    ELSE IF r.busy THEN "non-idle" ELSE "idle"

ClassifyNPU(r, stale) ==
    IF ~r.seen \/ r.age > stale THEN "unknown"
    ELSE IF r.busy THEN "non-idle" ELSE "idle"

\* MUTANT of AfterIdle: the window is compared before the sample is added, and
\* strictly.
AfterIdleLate(m, delta) ==
    CASE m.state = "Active" -> Cleared("Observing")
      [] m.state = "Observing" ->
            IF m.idle > ObserveWindow THEN Cleared("ConfirmedIdle")
            ELSE [m EXCEPT !.streak = 0, !.idle = @ + delta]
      [] OTHER -> [m EXCEPT !.streak = 0]

\* An idle sample "delta" after the tick before.
AfterIdle(m, delta) ==
    CASE m.state = "Active" -> Cleared("Observing")
      [] m.state = "Observing" ->
            IF m.idle + delta >= ObserveWindow THEN Cleared("ConfirmedIdle")
            ELSE [m EXCEPT !.streak = 0, !.idle = @ + delta]
      [] OTHER -> [m EXCEPT !.streak = 0]

\* A non-idle sample: a spike pauses the clock, NonIdleBreak in a row abort.
AfterNonIdle(m) ==
    IF m.state = "Active" THEN m
    ELSE IF m.streak + 1 >= NonIdleBreak THEN Cleared("Active")
    ELSE [m EXCEPT !.streak = @ + 1]

\* machine.Tick: a busy NPU overrides the CPU samples.
Advance(m, cpu, npu, delta) ==
    IF npu = "non-idle" THEN Cleared("Active")
    ELSE CASE cpu = "idle"     -> AfterIdle(m, delta)
           [] cpu = "non-idle" -> AfterNonIdle(m)
           [] OTHER            -> m

\* MUTANT of Desired: an NPU of unknown state counts as idle.
DesiredOnUnknown(m, npu, dryRun) ==
    m.state = "ConfirmedIdle" /\ npu # "non-idle" /\ ~dryRun

\* tick: the cores should be held at the target frequency.  (Availability of
\* cpufreq is assumed: without it the governor never acts.)
Desired(m, npu, dryRun) == m.state = "ConfirmedIdle" /\ npu = "idle" /\ ~dryRun
=============================================================================
