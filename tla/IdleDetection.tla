--------------------------- MODULE IdleDetection ---------------------------
(***************************************************************************)
(* The input side of the CPU frequency governor: every control tick reads  *)
(* the snapshot files of the cpu and npu collectors, ages what it could    *)
(* not refresh, classifies both and advances the idle machine.  The two    *)
(* history variables follow the samples alone and say what "idle for the   *)
(* observation window" means independently of the machine.                 *)
(***************************************************************************)
EXTENDS IdleRules

CONSTANTS CpuStale,  \* 2 * interval
          NpuStale,  \* npu_stale_sec
          Deltas     \* time between two ticks: late and dropped ticks

ASSUME IdleDetectionAssumption ==
    /\ CpuStale \in Nat
    /\ NpuStale \in Nat
    /\ Deltas \subseteq Nat

VARIABLES
    cpu, npu,   \* latestSnapshot: the readings and their age
    idleMachine,
    sustained,  \* history: idle time counted since the last break
    busyRun     \* history: non-idle samples since the last idle one

idleVars == <<cpu, npu, idleMachine, sustained, busyRun>>

NoReading == [seen |-> FALSE, busy |-> FALSE, age |-> 0]

\* An age beyond the threshold is kept just beyond it.
Age(r, d, stale) ==
    IF ~r.seen THEN r
    ELSE [r EXCEPT !.age = IF @ + d > stale THEN stale + 1 ELSE @ + d]

\* refreshFromSnapshot and OnCollect: a missing or corrupt file leaves the
\* last reading, which grows older by d; a file holds a reading of some age.
Readings(r, d, stale) ==
    {Age(r, d, stale)} \cup [seen : {TRUE}, busy : BOOLEAN, age : 0..(stale + 1)]

IdleInit ==
    /\ cpu = NoReading
    /\ npu = NoReading
    /\ idleMachine = Cleared("Active")
    /\ sustained = 0
    /\ busyRun = 0

\* What ends an idle period: a busy NPU, or NonIdleBreak non-idle samples
\* without an idle one in between.
Breaks(c, n, run) == n = "non-idle" \/ (c = "non-idle" /\ run + 1 >= NonIdleBreak)

Capped(x, cap) == IF x > cap THEN cap ELSE x

\* The first idle sample after a break only opens the observation (1 stands
\* for "opened"), later ones add the time since the tick before.
Remember(c, n, d) ==
    /\ busyRun' = CASE c = "idle"     -> 0
                    [] c = "non-idle" -> Capped(busyRun + 1, NonIdleBreak)
                    [] OTHER          -> busyRun
    /\ sustained' =
          IF Breaks(c, n, busyRun) THEN 0
          ELSE IF c # "idle" THEN sustained
          ELSE IF sustained = 0 THEN 1
          ELSE Capped(sustained + d, ObserveWindow + 1)

\* Controller.tick up to the decision.
Tick(d) ==
    \E r \in Readings(cpu, d, CpuStale), s \in Readings(npu, d, NpuStale) :
        /\ cpu' = r
        /\ npu' = s
        /\ LET c == ClassifyCPU(r, CpuStale)
               n == ClassifyNPU(s, NpuStale)
           IN  /\ idleMachine' = Advance(idleMachine, c, n, d)
               /\ Remember(c, n, d)

IdleNext == \E d \in Deltas : Tick(d)

IdleSpec == IdleInit /\ [][IdleNext]_idleVars

-----------------------------------------------------------------------------
Reading(stale) == [seen : BOOLEAN, busy : BOOLEAN, age : 0..(stale + 1)]

\* The values the variables take; the idle clock runs only in Observing and
\* stays below the window, the streak below the break.
IdleTypeOK ==
    /\ cpu \in Reading(CpuStale)
    /\ npu \in Reading(NpuStale)
    /\ idleMachine \in Machine
    /\ idleMachine.idle < ObserveWindow /\ idleMachine.streak < NonIdleBreak
    /\ idleMachine.state # "Observing" => idleMachine.idle = 0
    /\ idleMachine.state = "Active" => idleMachine.streak = 0
    /\ sustained \in 0..(ObserveWindow + 1)
    /\ busyRun \in 0..NonIdleBreak

\* The machine confirms an idle CPU exactly when the samples since the last
\* break add up to the observation window: a single spike neither resets nor
\* advances it, and unknown samples neither (state.go:79-82).
ConfirmedIffSustained ==
    idleMachine.state = "ConfirmedIdle" <=> sustained = ObserveWindow + 1

\* A confirmed idle CPU is given up only by a break: never because data is
\* missing (state.go:166-168), and never later than the break.
ConfirmedUntilBreak ==
    [][idleMachine.state = "ConfirmedIdle" =>
          (idleMachine'.state = "ConfirmedIdle" <=>
              ~Breaks(ClassifyCPU(cpu', CpuStale), ClassifyNPU(npu', NpuStale),
                      busyRun))]_idleVars
=============================================================================
