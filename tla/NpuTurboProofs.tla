--------------------------- MODULE NpuTurboProofs ---------------------------
(***************************************************************************)
(* Theorems about NpuTurbo, for any cards, scores, frequencies and number  *)
(* of failing commands and crashes.                                        *)
(***************************************************************************)
EXTENDS NpuTurbo, TLAPS

USE TurboFormulaAssumption, NpuTurboAssumption

\* A target is a boost within max_freq_mhz, or none (formula.go:16-21).
LEMMA TargetInRange ==
    ASSUME NEW score \in Nat
    PROVE  TargetB(score) \in Freqs
<1> DEFINE raw == RoundHalfUp(Base * score, 1000)
           b == Capped(RoundStep(raw))
<1>1. raw \in Int
    BY DEF RoundHalfUp
<1>2. RoundStep(raw) \in Int
    <2>1. CASE Step = 0
        BY <1>1, <2>1 DEF RoundStep
    <2>2. CASE Step # 0
        <3>1. Step \in Int /\ Step > 0 /\ Step \div 2 \in Int
            BY <2>2
        <3>2. (raw + Step \div 2) \div Step \in Int
            BY <1>1, <3>1
        <3> QED
            BY <2>2, <3>1, <3>2 DEF RoundStep
    <2> QED
        BY <2>1, <2>2
<1>3. b \in Int /\ b <= MaxM
    BY <1>2 DEF Capped
<1>4. TargetB(score) = IF score > 1000 /\ b > Base THEN b ELSE 0
    BY DEF TargetB
<1> HIDE DEF b
<1> QED
    BY <1>3, <1>4 DEF Freqs

LEMMA TargetsInRange ==
    ASSUME NEW list \in SlowLists
    PROVE  Targets(list) \in [Cards -> Freqs]
BY TargetInRange DEF SlowLists, Targets

LEMMA NoBoostTyped == NoBoost \in [Cards -> Freqs]
BY DEF NoBoost, Freqs

-----------------------------------------------------------------------------
\* What holds of the loop's own variables: the cards it still has to visit,
\* and the one it is about to note, are to be boosted.
LoopSound ==
    /\ \A c \in todo : desired[c] # 0
    /\ loop = "injected" => cur \in Cards /\ desired[cur] # 0
    /\ loop # "injected" => cur = Nil

\* While only the loop touches the cards: what a command did is still so when
\* it is noted, and cards not in between are accounted for.
Accounted ==
    main = "running" =>
        /\ loop = "clean" => \E d \in Cards : applied[d] # 0 /\ desired[d] = 0
        /\ loop = "cleaned" => freq = NoBoost
        /\ loop = "injected" => freq[cur] = desired[cur]
        /\ \A c \in Cards : freq[c] # 0 /\ c # cur => applied[c] # 0 \/ c \in untold
        /\ atomic /\ loop # "cleaned" =>
              \A c \in Cards : applied[c] # freq[c] /\ c # cur =>
                                  applied[c] = 0 /\ c \in untold

\* A quiet shutdown has the loop between ticks, and the cards at baseline once
\* they were cleaned.
QuietSound ==
    quiet =>
        /\ main # "running" => loop \in {"wait", "done"}
        /\ restore /\ main \in {"cleaned", "stopping", "exited"} => freq = NoBoost

IInv == TypeOK /\ LoopSound /\ Accounted /\ QuietSound

LEMMA InitIInv == Init => IInv
<1> SUFFICES ASSUME Init PROVE IInv
    OBVIOUS
<1> USE DEF Init
<1>1. TypeOK
    <2>1. /\ freq \in [Cards -> Freqs]
          /\ applied \in [Cards -> Freqs]
          /\ desired \in [Cards -> Freqs]
        BY NoBoostTyped
    <2>2. faults \in 0..MaxFaults /\ crashes \in 0..MaxCrashes
        OBVIOUS
    <2> QED
        BY <2>1, <2>2 DEF TypeOK
<1>2. LoopSound /\ QuietSound
    BY DEF LoopSound, QuietSound
<1>3. Accounted
    BY DEF Accounted, NoBoost
<1> QED
    BY <1>1, <1>2, <1>3 DEF IInv

-----------------------------------------------------------------------------
\* Type correctness, action by action.
LEMMA TypeStep ==
    ASSUME TypeOK, LoopSound, [Next]_vars
    PROVE  TypeOK'
<1> USE DEF TypeOK, tick, env, counts
<1>f. ASSUME freq' \in AfterInFlight
      PROVE  freq' \in [Cards -> Freqs]
    BY <1>f, NoBoostTyped DEF AfterInFlight
<1>p. ASSUME freq' \in PartlyCleaned
      PROVE  freq' \in [Cards -> Freqs]
    BY <1>p DEF PartlyCleaned, Freqs
<1>1. CASE Plan
    <2>1. PICK list \in SlowLists :
             /\ desired' = Targets(list)
             /\ todo' = {c \in Cards : Targets(list)[c] # 0}
             /\ redo' = SomeRecovered(Targets(list))
             /\ loop' = IF SomeRecovered(Targets(list)) THEN "clean" ELSE "inject"
        BY <1>1 DEF Plan
    <2>2. desired' \in [Cards -> Freqs]
        BY <2>1, TargetsInRange
    <2>3. SomeRecovered(Targets(list)) \in BOOLEAN
        BY DEF SomeRecovered
    <2>4. todo' \subseteq Cards /\ redo' \in BOOLEAN /\ loop' \in {"clean", "inject"}
        BY <2>1, <2>3
    <2>5. UNCHANGED <<freq, applied, cur, main, env, untold, counts>>
        BY <1>1 DEF Plan
    <2>6. quiet' \in BOOLEAN
        BY <1>1 DEF Plan
    <2> QED
        BY <2>2, <2>4, <2>5, <2>6
<1>2. CASE CleanWorks
    BY <1>2, NoBoostTyped DEF CleanWorks
<1>3. CASE NoteClean
    BY <1>3, NoBoostTyped DEF NoteClean
<1>4. CASE NoteInject
    BY <1>4 DEF NoteInject, LoopSound
<1>5. CASE TickEnds
    BY <1>5 DEF TickEnds
<1>6. ASSUME NEW c \in Cards, PassOver(c) PROVE TypeOK'
    BY <1>6 DEF PassOver
<1>7. ASSUME NEW c \in Cards, InjectWorks(c) PROVE TypeOK'
    BY <1>7 DEF InjectWorks
<1>8. CASE CleanFails
    BY <1>8, <1>p DEF CleanFails
<1>9. ASSUME NEW c \in Cards, InjectFails(c) PROVE TypeOK'
    BY <1>9 DEF InjectFails
<1>10. CASE LoopEnds
    BY <1>10 DEF LoopEnds
<1>11. CASE Cancel
    BY <1>11 DEF Cancel
<1>12. CASE NoRestore
    BY <1>12 DEF NoRestore
<1>13. CASE RestoreWorks
    BY <1>13, NoBoostTyped DEF RestoreWorks
<1>14. CASE RestoreFails
    <2>1. freq' \in [Cards -> Freqs]
        BY <1>14, <1>p DEF RestoreFails
    <2>2. faults' \in 0..MaxFaults
        BY <1>14 DEF RestoreFails
    <2>3. main' = "stopping" /\ quiet' = FALSE
          /\ UNCHANGED <<applied, desired, tick, env, untold, crashes>>
        BY <1>14 DEF RestoreFails
    <2> QED
        BY <2>1, <2>2, <2>3
<1>15. CASE NoteRestore
    BY <1>15, NoBoostTyped DEF NoteRestore
<1>16. CASE Exit
    <2>1. freq' \in [Cards -> Freqs]
        BY <1>16, <1>f DEF Exit
    <2>2. main' = "exited" /\ loop' = "done" /\ redo' = FALSE /\ todo' = {}
          /\ cur' = Nil /\ UNCHANGED <<applied, desired, env, quiet, untold, counts>>
        BY <1>16 DEF Exit
    <2> QED
        BY <2>1, <2>2
<1>17. CASE CrashAndRestart
    <2>1. freq' \in [Cards -> Freqs]
        BY <1>17, <1>f DEF CrashAndRestart
    <2>2. applied' \in [Cards -> Freqs] /\ desired' \in [Cards -> Freqs]
        BY <1>17, NoBoostTyped DEF CrashAndRestart
    <2>3. untold' \subseteq Cards
        BY <1>17 DEF CrashAndRestart
    <2>4. crashes' \in 0..MaxCrashes
        BY <1>17 DEF CrashAndRestart
    <2>5. main' = "running" /\ loop' = "wait" /\ redo' = FALSE /\ todo' = {}
          /\ cur' = Nil /\ quiet' = TRUE /\ UNCHANGED <<env, faults>>
        BY <1>17 DEF CrashAndRestart
    <2> QED
        BY <2>1, <2>2, <2>3, <2>4, <2>5
<1>18. CASE UNCHANGED vars
    BY <1>18 DEF vars
<1> QED
    BY <1>1, <1>2, <1>3, <1>4, <1>5, <1>6, <1>7, <1>8, <1>9, <1>10, <1>11,
       <1>12, <1>13, <1>14, <1>15, <1>16, <1>17, <1>18 DEF Next, LoopStep

-----------------------------------------------------------------------------
LEMMA LoopSoundStep ==
    ASSUME TypeOK, LoopSound, [Next]_vars
    PROVE  LoopSound'
<1> USE DEF TypeOK, LoopSound, tick, env, counts
<1>1. CASE Plan
    BY <1>1 DEF Plan
<1>2. CASE CleanWorks \/ NoteClean \/ NoteInject \/ TickEnds
    BY <1>2 DEF CleanWorks, NoteClean, NoteInject, TickEnds
<1>3. ASSUME NEW c \in Cards, PassOver(c) \/ InjectWorks(c) \/ InjectFails(c)
      PROVE  LoopSound'
    BY <1>3 DEF PassOver, InjectWorks, InjectFails, Due
<1>4. CASE CleanFails \/ LoopEnds
    BY <1>4 DEF CleanFails, LoopEnds
<1>5. CASE Cancel \/ NoRestore \/ RestoreWorks \/ RestoreFails \/ NoteRestore
    BY <1>5 DEF Cancel, NoRestore, RestoreWorks, RestoreFails, NoteRestore
<1>6. CASE Exit \/ CrashAndRestart
    BY <1>6 DEF Exit, CrashAndRestart
<1>7. CASE UNCHANGED vars
    BY <1>7 DEF vars
<1> QED
    BY <1>1, <1>2, <1>3, <1>4, <1>5, <1>6, <1>7 DEF Next, LoopStep

\* Only steps from and to "running" matter; a restart accounts for every card.
LEMMA AccountedStep ==
    ASSUME TypeOK, LoopSound, Accounted, [Next]_vars
    PROVE  Accounted'
<1> USE DEF TypeOK, Accounted, tick, env, counts
<1>1. CASE Plan
    BY <1>1 DEF Plan, SomeRecovered, LoopSound
<1>2. CASE CleanWorks
    BY <1>2 DEF CleanWorks, NoBoost
<1>3. CASE NoteClean
    BY <1>3 DEF NoteClean, NoBoost
<1>4. CASE NoteInject
    BY <1>4 DEF NoteInject, LoopSound
<1>5. CASE TickEnds
    BY <1>5 DEF TickEnds
<1>6. ASSUME NEW c \in Cards, PassOver(c) PROVE Accounted'
    BY <1>6 DEF PassOver
<1>7. ASSUME NEW c \in Cards, InjectWorks(c) PROVE Accounted'
    BY <1>7 DEF InjectWorks, LoopSound
<1>8. CASE CleanFails
    BY <1>8 DEF CleanFails, PartlyCleaned, LoopSound
<1>9. ASSUME NEW c \in Cards, InjectFails(c) PROVE Accounted'
    BY <1>9 DEF InjectFails, LoopSound
<1>10. CASE LoopEnds \/ Cancel \/ NoRestore \/ RestoreWorks \/ RestoreFails
               \/ NoteRestore \/ Exit
    BY <1>10 DEF LoopEnds, Cancel, NoRestore, RestoreWorks, RestoreFails,
                NoteRestore, Exit
<1>11. CASE CrashAndRestart
    BY <1>11 DEF CrashAndRestart, NoBoost
<1>12. CASE UNCHANGED vars
    BY <1>12 DEF vars
<1> QED
    BY <1>1, <1>2, <1>3, <1>4, <1>5, <1>6, <1>7, <1>8, <1>9, <1>10, <1>11,
       <1>12 DEF Next, LoopStep

LEMMA QuietSoundStep ==
    ASSUME TypeOK, QuietSound, [Next]_vars
    PROVE  QuietSound'
<1> USE DEF TypeOK, QuietSound, tick, env, counts
<1>1. CASE Plan
    BY <1>1 DEF Plan
<1>2. CASE CleanWorks \/ NoteClean \/ NoteInject \/ TickEnds \/ CleanFails
    BY <1>2 DEF CleanWorks, NoteClean, NoteInject, TickEnds, CleanFails
<1>3. ASSUME NEW c \in Cards, PassOver(c) \/ InjectWorks(c) \/ InjectFails(c)
      PROVE  QuietSound'
    BY <1>3 DEF PassOver, InjectWorks, InjectFails
<1>4. CASE LoopEnds \/ Cancel \/ NoRestore
    BY <1>4 DEF LoopEnds, Cancel, NoRestore
<1>5. CASE RestoreWorks \/ RestoreFails \/ NoteRestore
    BY <1>5 DEF RestoreWorks, RestoreFails, NoteRestore
<1>6. CASE Exit
    BY <1>6 DEF Exit, AfterInFlight
<1>7. CASE CrashAndRestart
    BY <1>7 DEF CrashAndRestart
<1>8. CASE UNCHANGED vars
    BY <1>8 DEF vars
<1> QED
    BY <1>1, <1>2, <1>3, <1>4, <1>5, <1>6, <1>7, <1>8 DEF Next, LoopStep

LEMMA StepIInv == IInv /\ [Next]_vars => IInv'
BY TypeStep, LoopSoundStep, AccountedStep, QuietSoundStep DEF IInv

LEMMA AlwaysIInv == Spec => []IInv
BY InitIInv, StepIInv, PTL DEF Spec

-----------------------------------------------------------------------------
\* The type invariant: every target is a boost within the limit.
THEOREM TypeCorrect == Spec => []TypeOK
<1>1. IInv => TypeOK
    BY DEF IInv
<1> QED
    BY <1>1, AlwaysIInv, PTL

\* A boosted card is remembered unless a failed inject or a crash hid it,
\* whatever failing cleans did (actuator.go:88-89).
THEOREM BoostedRemembered == Spec => []BoostedIsRemembered
<1>1. IInv => BoostedIsRemembered
    BY DEF IInv, Accounted, BoostedIsRemembered
<1> QED
    BY <1>1, AlwaysIInv, PTL

\* Between ticks lastApplied is the truth, if failing commands do nothing
\* (actuator.go:61-62).
THEOREM RememberedTrue == Spec => []RememberedIsTrue
<1>1. IInv => RememberedIsTrue
    BY DEF IInv, LoopSound, TypeOK, Accounted, RememberedIsTrue
<1> QED
    BY <1>1, AlwaysIInv, PTL

\* After a shutdown that no tick overlaps every card is at the baseline
\* (controller.go:90).
THEOREM QuietExitClean == Spec => []CleanExitIfQuiet
<1>1. IInv => CleanExitIfQuiet
    BY DEF IInv, QuietSound, CleanExitIfQuiet
<1> QED
    BY <1>1, AlwaysIInv, PTL

\* No step changes the frequency of a card at its target while no card
\* recovers (controller.go:134-135).
THEOREM NoCardFlickers == Spec => NoFlicker
<1> DEFINE Still ==
        main = "running" /\ crashes' = crashes =>
          \A c \in Cards : freq[c] = desired[c] /\ freq[c] # freq'[c] =>
             freq[c] = 0 \/ \E d \in Cards : applied[d] # 0 /\ desired[d] = 0
<1>1. ASSUME IInv, [Next]_vars
      PROVE  [Still]_vars
    <2> USE <1>1 DEF IInv, TypeOK, Accounted, tick, env, counts
    <2>1. CASE Plan \/ NoteClean \/ NoteInject \/ TickEnds \/ LoopEnds
        BY <2>1 DEF Plan, NoteClean, NoteInject, TickEnds, LoopEnds
    <2>2. CASE CleanWorks \/ CleanFails
        BY <2>2 DEF CleanWorks, CleanFails
    <2>3. ASSUME NEW c \in Cards, PassOver(c) \/ InjectWorks(c) \/ InjectFails(c)
          PROVE  Still
        BY <2>3 DEF PassOver, InjectWorks, InjectFails
    <2>4. CASE Cancel \/ NoRestore \/ RestoreWorks \/ RestoreFails \/ NoteRestore
        BY <2>4 DEF Cancel, NoRestore, RestoreWorks, RestoreFails, NoteRestore
    <2>5. CASE Exit \/ CrashAndRestart
        BY <2>5 DEF Exit, CrashAndRestart
    <2>6. CASE UNCHANGED vars
        BY <2>6
    <2> QED
        BY <2>1, <2>2, <2>3, <2>4, <2>5, <2>6 DEF Next, LoopStep
<1>2. Spec => [][IInv /\ [Next]_vars]_vars
    BY AlwaysIInv, PTL DEF Spec
<1> QED
    BY <1>1, <1>2, AlwaysIInv, PTL DEF Spec, NoFlicker
=============================================================================
