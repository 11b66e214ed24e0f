--------------------------- MODULE FaultDetector ---------------------------
(***************************************************************************)
(* The rules of features/faultsub/detector.go and the filters of           *)
(* subscription.go, as operators.  A batch handed to Detect is abstracted  *)
(* to the part the rules read: a function from the NPU ids that have at    *)
(* least one "npu" metric in the batch to their readings.  A batch of any  *)
(* other component (cpu, memory, energysave, ...) is the empty function.   *)
(***************************************************************************)
EXTENDS Integers, Sequences, FiniteSets, Functions

CONSTANTS Npus,         \* the npu_id labels that occur on this host
          EnabledRules  \* the fault types RuleConfig.Enabled accepts

\* The fault types the detector itself can emit, in the order Detect tries
\* them.  (straggler_detected exists too, but only arrives by ingestion.)
RuleOrder == << "card_drop", "npu_health", "npu_error_code", "hbm_uce",
                "ddr_uce", "roce_link_down", "driver_unhealthy" >>

DetectedType == {RuleOrder[i] : i \in 1..7}
FaultType == DetectedType \cup {"straggler_detected"}
Severity == {"warning", "critical"}

ASSUME DetectorAssumption ==
    /\ IsFiniteSet(Npus)
    /\ EnabledRules \subseteq DetectedType

\* One device's metrics in a batch (devState).  A nil metric is the benign
\* value of its field: no rule distinguishes "absent" from "fine", so a metric
\* that failed to be collected looks like a recovery.
Reading ==
    [cardDrop   : BOOLEAN,                     \* card_drop >= 1
     errors     : BOOLEAN,                     \* error_code > 0
     codes      : {"none", "other", "drop"},   \* its error_codes label
     health     : {"OK", "Alarm", "Critical"}, \* health_status label
     hbm        : BOOLEAN,                     \* hbm_double_ecc > 0
     ddr        : BOOLEAN,                     \* ddr_double_ecc > 0
     roceStatus : BOOLEAN,                     \* roce_link_status reads down
     roceHealth : BOOLEAN,                     \* roce_link_health reads down
     driver     : BOOLEAN]                     \* driver_health # 0

\* The condition of each rule.
RuleHolds(t, r) ==
    CASE t = "card_drop"        -> r.cardDrop \/ r.codes = "drop"
      [] t = "npu_health"       -> r.health \in {"Alarm", "Critical"}
      [] t = "npu_error_code"   -> r.errors
      [] t = "hbm_uce"          -> r.hbm
      [] t = "ddr_uce"          -> r.ddr
      [] t = "roce_link_down"   -> r.roceStatus \/ r.roceHealth
      [] t = "driver_unhealthy" -> r.driver

\* The severity each rule passes to fire.
RuleSeverity(t, r) ==
    IF \/ t \in {"card_drop", "hbm_uce", "ddr_uce"}
       \/ t = "npu_health" /\ r.health = "Critical"
    THEN "critical" ELSE "warning"

\* activeThisCycle: the enabled rules that hold, per NPU.  An NPU without
\* metrics in the batch has no entry, which reads as the empty set.
Active(devs) ==
    [n \in Npus |->
        IF n \in DOMAIN devs
        THEN {t \in EnabledRules : RuleHolds(t, devs[n])}
        ELSE {}]

Event == [type      : FaultType,
          npu       : Npus,
          severity  : Severity,
          recovered : BOOLEAN,
          at        : Nat]

FaultEvent(nt, sev, rec, at) ==
    [type |-> nt[2], npu |-> nt[1], severity |-> sev, recovered |-> rec, at |-> at]

\* MUTANT of NewlyActive: the previous cycle is not consulted.
ActiveNow(devs, prev) ==
    {nt \in (DOMAIN devs) \X EnabledRules : nt[2] \in Active(devs)[nt[1]]}

\* The (npu, type) pairs active in this batch and not before, and conversely.
NewlyActive(devs, prev) ==
    {nt \in (DOMAIN devs) \X EnabledRules :
        nt[2] \in Active(devs)[nt[1]] \ prev[nt[1]]}

NoLongerActive(devs, prev) ==
    {nt \in Npus \X EnabledRules : nt[2] \in prev[nt[1]] \ Active(devs)[nt[1]]}

\* The events of one Detect call at time "at": newly active faults ...
Fires(devs, prev, at) ==
    {FaultEvent(nt, RuleSeverity(nt[2], devs[nt[1]]), FALSE, at) :
        nt \in NewlyActive(devs, prev)}

\* ... and a recovery, always of severity warning, for everything active
\* before that is not active in this batch.
Recoveries(devs, prev, at) ==
    {FaultEvent(nt, "warning", TRUE, at) : nt \in NoLongerActive(devs, prev)}

\* Go iterates maps in an unspecified order: NPUs come in any order, one NPU's
\* events are contiguous, its fires follow the rule order and its recoveries
\* come in any order.
ContiguousPerNpu(s) ==
    \A i, j, k \in DOMAIN s :
        i < j /\ j < k /\ s[i].npu = s[k].npu => s[j].npu = s[i].npu

RuleIndex(t) == CHOOSE i \in 1..7 : RuleOrder[i] = t

InRuleOrder(s) ==
    \A i, j \in DOMAIN s :
        i < j /\ s[i].npu = s[j].npu => RuleIndex(s[i].type) < RuleIndex(s[j].type)

\* The sequences in which every element of the finite set S occurs once.
Arrangements(S) == Surjection(1..Cardinality(S), S)

FireOrders(fires) ==
    {s \in Arrangements(fires) : ContiguousPerNpu(s) /\ InRuleOrder(s)}

RecoveryOrders(recs) == {s \in Arrangements(recs) : ContiguousPerNpu(s)}

\* The event sequences Detect may return.
Detections(devs, prev, at) ==
    {f \o r : f \in FireOrders(Fires(devs, prev, at)),
              r \in RecoveryOrders(Recoveries(devs, prev, at))}

-----------------------------------------------------------------------------
\* Subscription filters (subscription.go, event.go).

SeverityRank(s) == CASE s = "critical" -> 2 [] s = "warning" -> 1 [] OTHER -> 0

\* MUTANT of AtLeast: the minimum itself is not accepted.
AtLeastStrict(s, min) == min = "" \/ SeverityRank(s) > SeverityRank(min)

\* Severity.AtLeast; "" accepts anything.
AtLeast(s, min) == min = "" \/ SeverityRank(s) >= SeverityRank(min)

\* Subscription.matches: an empty filter accepts everything.  The component
\* filter is left out: every event of this pipeline is of component "npu".
Matches(sub, ev) ==
    /\ sub.types # {} => ev.type \in sub.types
    /\ sub.npus # {} => ev.npu \in sub.npus
    /\ AtLeast(ev.severity, sub.minSeverity)
=============================================================================
