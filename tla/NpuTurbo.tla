------------------------------ MODULE NpuTurbo ------------------------------
(***************************************************************************)
(* The NPU boost loop (features/nputurbo/controller.go, actuator.go) and   *)
(* the part of main it meets at shutdown.  A tick fetches the slow cards,  *)
(* and brings the cards in line: one command per card to boost, a single   *)
(* command for all of them to restore.  The command and the note of it in  *)
(* lastApplied are two steps, since main restores concurrently.            *)
(* A failed fetch leaves everything as it was and is a stuttering step.    *)
(***************************************************************************)
EXTENDS TurboFormula

CONSTANTS Cards,
          Scores,      \* scores a list may give a card; 0: it is not listed
          MaxFaults,   \* bound: failing commands
          MaxCrashes,  \* bound: kills of the daemon
          Nil

ASSUME NpuTurboAssumption ==
    /\ Scores \subseteq Nat
    /\ MaxFaults \in Nat /\ MaxCrashes \in Nat
    /\ Nil \notin Cards

VARIABLES freq,     \* the cards: frequency they are boosted to, 0 for baseline
          applied,  \* Actuator.lastApplied, 0 for absent
          desired,  \* the targets of the last plan, 0 for none
          loop,     \* the control loop's place in tick
          redo,     \* the tick re-injects after a clean
          todo,     \* cards the tick has still to visit
          cur,      \* the card whose inject is being noted
          main,     \* the shutdown of runDaemon
          restore,  \* Config.RestoreOnShutdown
          atomic,   \* a command that fails has done nothing
          quiet,    \* no tick overlaps the shutdown, and its clean worked
          untold,   \* cards a failed inject or a crash left unaccounted for
          faults, crashes

tick == <<loop, redo, todo, cur>>
env == <<restore, atomic>>
counts == <<faults, crashes>>
vars == <<freq, applied, desired, tick, main, env, quiet, untold, counts>>

NoBoost == [c \in Cards |-> 0]

Init ==
    /\ freq = NoBoost /\ applied = NoBoost /\ desired = NoBoost
    /\ loop = "wait" /\ redo = FALSE /\ todo = {} /\ cur = Nil
    /\ main = "running"
    /\ restore \in BOOLEAN /\ atomic \in BOOLEAN
    /\ quiet = TRUE
    /\ untold = {}
    /\ faults = 0 /\ crashes = 0

-----------------------------------------------------------------------------
\* A boosted card is no longer to be boosted.
SomeRecovered(targets) == \E c \in Cards : applied[c] # 0 /\ targets[c] = 0

\* What ParseSlowCards makes of a list: a score per card id; when several hosts
\* have a card of that id, the last score that warrants a boost counts.
SlowLists == [Cards -> Scores]

\* planBoosts: the target of each card, 0 for none.
Targets(list) == [c \in Cards |-> TargetB(list[c])]

\* The fetch and parse succeed: the targets, and the branch of tick.
Plan ==
    /\ loop = "wait" /\ main # "exited"
    /\ \E list \in SlowLists :
          LET targets == Targets(list)
          IN  /\ desired' = targets
              /\ todo' = {c \in Cards : targets[c] # 0}
              /\ redo' = SomeRecovered(targets)
              /\ loop' = IF SomeRecovered(targets) THEN "clean" ELSE "inject"
    /\ quiet' = (quiet /\ main = "running")
    /\ UNCHANGED <<freq, applied, cur, main, env, untold, counts>>

CleanWorks ==
    /\ loop = "clean"
    /\ loop' = "cleaned"
    /\ freq' = NoBoost
    /\ untold' = {}
    /\ UNCHANGED <<applied, desired, redo, todo, cur, main, env, quiet, counts>>

NoteClean ==
    /\ loop = "cleaned"
    /\ loop' = "inject"
    /\ applied' = NoBoost
    /\ UNCHANGED <<freq, desired, redo, todo, cur, main, env, quiet, untold,
                   counts>>

\* What a command for the cards in S may have done when it reports an error.
PartlyCleaned ==
    IF atomic THEN {freq}
    ELSE {[c \in Cards |-> IF c \in S THEN 0 ELSE freq[c]] : S \in SUBSET Cards}

\* MUTANT of CleanFails: a failed clean forgets what is boosted.
CleanFailsForgets ==
    /\ loop = "clean"
    /\ faults < MaxFaults
    /\ faults' = faults + 1
    /\ loop' = "inject"
    /\ freq' \in PartlyCleaned
    /\ applied' = NoBoost
    /\ UNCHANGED <<desired, redo, todo, cur, main, env, quiet, untold, crashes>>

\* The clean fails; tick goes on with the injects, lastApplied is kept.
CleanFails ==
    /\ loop = "clean"
    /\ faults < MaxFaults
    /\ faults' = faults + 1
    /\ loop' = "inject"
    /\ freq' \in PartlyCleaned
    /\ UNCHANGED <<applied, desired, redo, todo, cur, main, env, quiet, untold,
                   crashes>>

\* MUTANT of Due: a boosted card is passed over whatever its target.
DueIfNew(c) == c \in todo /\ (redo \/ applied[c] = 0)

\* Without a clean, a card already at its target is passed over.
Due(c) == c \in todo /\ (redo \/ applied[c] # desired[c])

PassOver(c) ==
    /\ loop = "inject" /\ c \in todo /\ ~Due(c)
    /\ todo' = todo \ {c}
    /\ UNCHANGED <<freq, applied, desired, loop, redo, cur, main, env, quiet,
                   untold, counts>>

InjectWorks(c) ==
    /\ loop = "inject" /\ Due(c)
    /\ loop' = "injected" /\ cur' = c
    /\ todo' = todo \ {c}
    /\ freq' = [freq EXCEPT ![c] = desired[c]]
    /\ untold' = untold \ {c}
    /\ UNCHANGED <<applied, desired, redo, main, env, quiet, counts>>

NoteInject ==
    /\ loop = "injected"
    /\ loop' = "inject" /\ cur' = Nil
    /\ applied' = [applied EXCEPT ![cur] = desired[cur]]
    /\ UNCHANGED <<freq, desired, redo, todo, main, env, quiet, untold, counts>>

\* The inject reports an error, with or without an effect; nothing is noted.
InjectFails(c) ==
    /\ loop = "inject" /\ Due(c)
    /\ faults < MaxFaults
    /\ faults' = faults + 1
    /\ todo' = todo \ {c}
    /\ \/ UNCHANGED freq
       \/ ~atomic /\ freq' = [freq EXCEPT ![c] = desired[c]]
    /\ untold' = untold \cup {c}
    /\ UNCHANGED <<applied, desired, loop, redo, cur, main, env, quiet, crashes>>

TickEnds ==
    /\ loop = "inject" /\ todo = {}
    /\ loop' = "wait"
    /\ UNCHANGED <<freq, applied, desired, redo, todo, cur, main, env, quiet,
                   untold, counts>>

\* Run returns once it sees the cancelled context.
LoopEnds ==
    /\ loop = "wait" /\ main \notin {"running", "exited"}
    /\ loop' = "done"
    /\ UNCHANGED <<freq, applied, desired, redo, todo, cur, main, env, quiet,
                   untold, counts>>

-----------------------------------------------------------------------------
\* SIGTERM: main cancels the context and does not wait for the loop.
Cancel ==
    /\ main = "running"
    /\ main' = "cancelled"
    /\ quiet' = (loop = "wait")
    /\ UNCHANGED <<freq, applied, desired, tick, env, untold, counts>>

\* Controller.Restore: nothing when it is disabled.
NoRestore ==
    /\ main = "cancelled" /\ ~restore
    /\ main' = "stopping"
    /\ UNCHANGED <<freq, applied, desired, tick, env, quiet, untold, counts>>

RestoreWorks ==
    /\ main = "cancelled" /\ restore
    /\ main' = "cleaned"
    /\ freq' = NoBoost
    /\ untold' = {}
    /\ UNCHANGED <<applied, desired, tick, env, quiet, counts>>

NoteRestore ==
    /\ main = "cleaned"
    /\ main' = "stopping"
    /\ applied' = NoBoost
    /\ UNCHANGED <<freq, desired, tick, env, quiet, untold, counts>>

RestoreFails ==
    /\ main = "cancelled" /\ restore
    /\ faults < MaxFaults
    /\ faults' = faults + 1
    /\ main' = "stopping"
    /\ freq' \in PartlyCleaned
    /\ quiet' = FALSE
    /\ UNCHANGED <<applied, desired, tick, env, untold, crashes>>

\* A command the loop has started outlives the process.
AfterInFlight ==
    {freq} \cup (IF loop = "clean" THEN {NoBoost} ELSE {})
           \cup {[freq EXCEPT ![c] = desired[c]] :
                    c \in {d \in Cards : loop = "inject" /\ Due(d)}}

\* main returns, wherever the loop is.
Exit ==
    /\ main = "stopping"
    /\ main' = "exited"
    /\ freq' \in AfterInFlight
    /\ loop' = "done" /\ redo' = FALSE /\ todo' = {} /\ cur' = Nil
    /\ UNCHANGED <<applied, desired, env, quiet, untold, counts>>

\* The daemon is killed and started again: lastApplied is gone.
CrashAndRestart ==
    /\ main # "exited"
    /\ crashes < MaxCrashes
    /\ crashes' = crashes + 1
    /\ freq' \in AfterInFlight
    /\ untold' = {c \in Cards : freq'[c] # 0}
    /\ applied' = NoBoost /\ desired' = NoBoost
    /\ loop' = "wait" /\ redo' = FALSE /\ todo' = {} /\ cur' = Nil
    /\ main' = "running" /\ quiet' = TRUE
    /\ UNCHANGED <<env, faults>>

LoopStep ==
    \/ Plan \/ CleanWorks \/ NoteClean \/ NoteInject \/ TickEnds
    \/ \E c \in Cards : PassOver(c) \/ InjectWorks(c)

Next ==
    \/ LoopStep
    \/ CleanFails \/ \E c \in Cards : InjectFails(c)
    \/ LoopEnds
    \/ Cancel \/ NoRestore \/ RestoreWorks \/ RestoreFails \/ NoteRestore \/ Exit
    \/ CrashAndRestart

Spec == Init /\ [][Next]_vars

\* The ticker keeps firing, commands end at their timeout, and the straggler
\* service answers again and again; neither failures nor shutdown are fair.
FairSpec == Spec /\ WF_vars(LoopStep)

-----------------------------------------------------------------------------
Freqs == {0} \cup (Base + 1)..MaxM

\* The values the variables take: in particular no card is ever sent beyond
\* max_freq_mhz, or to a target that is no boost, whatever score it is given.
TypeOK ==
    /\ freq \in [Cards -> Freqs]
    /\ applied \in [Cards -> Freqs]
    /\ desired \in [Cards -> Freqs]
    /\ loop \in {"wait", "clean", "cleaned", "inject", "injected", "done"}
    /\ redo \in BOOLEAN
    /\ todo \subseteq Cards
    /\ cur \in Cards \cup {Nil}
    /\ loop = "injected" => cur \in Cards
    /\ main \in {"running", "cancelled", "cleaned", "stopping", "exited"}
    /\ restore \in BOOLEAN /\ atomic \in BOOLEAN /\ quiet \in BOOLEAN
    /\ untold \subseteq Cards
    /\ faults \in 0..MaxFaults /\ crashes \in 0..MaxCrashes

\* A boosted card is known to be boosted, so that its recovery is noticed,
\* however cleans fail: only a failed inject and a crash may hide one, and the
\* next clean brings that one back too (actuator.go:88-89).
BoostedIsRemembered ==
    main = "running" =>
        \A c \in Cards : freq[c] # 0 /\ c # cur => applied[c] # 0 \/ c \in untold

\* When commands fail without effect, lastApplied is the truth between ticks:
\* a card passed over as already at its target is at its target
\* (actuator.go:61-62, controller.go:156-158).
RememberedIsTrue ==
    main = "running" /\ loop = "wait" /\ atomic =>
        \A c \in Cards : applied[c] # freq[c] => applied[c] = 0 /\ c \in untold

\* While no card recovers, a card at its target is left alone: no clean and no
\* second inject makes it flicker (controller.go:134-135).
NoFlicker ==
    [][ main = "running" /\ crashes' = crashes =>
          \A c \in Cards : freq[c] = desired[c] /\ freq[c] # freq'[c] =>
             freq[c] = 0 \/ \E d \in Cards : applied[d] # 0 /\ desired[d] = 0 ]_vars

\* A shutdown that no tick overlaps and whose clean works leaves every card at
\* the baseline, whatever failed before (controller.go:90).
CleanExitIfQuiet == main = "exited" /\ restore /\ quiet => freq = NoBoost

\* A card that stays off the list of slow cards gets its baseline back, though
\* cleans fail on the way, unless nobody knows it is boosted.
RecoveredCardReleased ==
    \A c \in Cards :
        <>[](main = "running" /\ desired[c] = 0) =>
            <>[](freq[c] = 0 \/ c \in untold)

\* A card that stays slow is boosted to its target again and again, though
\* other cards recover, injects fail and the daemon is restarted
\* (actuator.go:61-62).
SlowCardBoosted ==
    \A c \in Cards : \A b \in {TargetB(s) : s \in Scores} \ {0} :
        <>[](atomic /\ main = "running" /\ desired[c] = b) => []<>(freq[c] = b)

\* In the long run every card is where the straggler service wants it: slow
\* ones boosted, recovered ones at the baseline, though commands fail.
CardsConverge == RecoveredCardReleased /\ SlowCardBoosted
=============================================================================
