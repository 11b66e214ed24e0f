---------------------------- MODULE MCFaultSub ----------------------------
(***************************************************************************)
(* Constants of the FaultSub runs.                                         *)
(***************************************************************************)
EXTENDS FaultSub

Healthy == [cardDrop |-> FALSE, errors |-> FALSE, codes |-> "none",
            health |-> "OK", hbm |-> FALSE, ddr |-> FALSE,
            roceStatus |-> FALSE, roceHealth |-> FALSE, driver |-> FALSE]
Critical == [Healthy EXCEPT !.health = "Critical"]
Failing == [Critical EXCEPT !.codes = "drop"]

TwoReadings == {Healthy, Critical}
FailingReadings == {Healthy, Critical, Failing}

AllRules == DetectedType

Everything == [types |-> {}, npus |-> {}, minSeverity |-> "",
               delivery |-> "webhook", debounce |-> 0]
Debounced == [Everything EXCEPT !.debounce = 1]
Warned == [Everything EXCEPT !.minSeverity = "warning"]

TwoRequests == {Debounced, Warned}
NoRequests == {}

HealthIngest == {<<"npu_health", n, "warning", FALSE, 0>> : n \in Npus}
NoIngest == {}
=============================================================================
