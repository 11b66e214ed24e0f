---------------------------- MODULE TurboFormula ----------------------------
(***************************************************************************)
(* The target frequency of a slow card (features/nputurbo/formula.go).     *)
(* Frequencies are MHz, scores thousandths; int(raw + 0.5) is RoundHalfUp. *)
(***************************************************************************)
EXTENDS Integers

CONSTANTS Base,   \* fixedCurrentMHz, the frequency A of every card
          MaxM,   \* max_freq_mhz
          Step    \* step_mhz

ASSUME TurboFormulaAssumption ==
    Base \in Nat \ {0} /\ MaxM \in Nat /\ Step \in Nat

RoundHalfUp(num, den) == (2 * num + den) \div (2 * den)

\* roundStep; without a step nothing is rounded.
RoundStep(v) ==
    IF Step = 0 THEN v ELSE ((v + Step \div 2) \div Step) * Step

Capped(b) == IF b > MaxM THEN MaxM ELSE b

\* ComputeTargetB; 0 stands for "no boost is warranted".
TargetB(score) ==
    LET b == Capped(RoundStep(RoundHalfUp(Base * score, 1000)))
    IN  IF score > 1000 /\ b > Base THEN b ELSE 0
=============================================================================
