---- MODULE HealthRules ----
(***************************************************************************)
(* Health scoring: features/health.  Readings v map keys <<name, label>>,  *)
(* a label a tuple, to numbers; a component without readings is not        *)
(* scored.  Every rule charges a percentage of the component's weight.     *)
(* The code adds the charges up in floating point; here the arithmetic is  *)
(* exact.                                                                  *)
(***************************************************************************)
EXTENDS Integers, FiniteSets, FiniteSetsExt

Values(v, name) == {v[k] : k \in {x \in DOMAIN v : x[1] = name}}
Over(v, name, t) == \E r \in Values(v, name) : r > t
Charge(v, name, t, percent) == IF Over(v, name, t) THEN percent ELSE 0

\* Two bands of one rule: only the worse one that fires is charged.
Bands(v, name, t2, percent2, t1, percent1) ==
    IF Over(v, name, t2) THEN percent2 ELSE Charge(v, name, t1, percent1)

\* MUTANT: both bands are charged.
BothBands(v, name, t2, percent2, t1, percent1) ==
    Charge(v, name, t2, percent2) + Charge(v, name, t1, percent1)
Graded(v, name, t2, percent2, t1, percent1) == Bands(v, name, t2, percent2, t1, percent1)

\* Corrected errors are charged for the first positive entry of the batch,
\* whose order is that of a Go map: any of them.
FirstPositive(v, name) ==
    LET found == {r \in Values(v, name) : r > 0} IN IF found = {} THEN {0} ELSE found
\* MUTANT: the charges of few and of many errors are swapped.
SwappedCharges(first) == IF first >= 3 THEN 5 ELSE IF first > 0 THEN 10 ELSE 0
Corrected(first) == IF first >= 3 THEN 10 ELSE IF first > 0 THEN 5 ELSE 0

\* Twice the cores: the static core_num when the batch has it, else the
\* online count, else four.
LoadLimit(v) ==
    LET cores(name) == {r \in Values(v, name) : r > 0}
    IN  IF cores("core_num") /= {} THEN 2 * Max(cores("core_num"))
        ELSE IF cores("online_core_num") /= {} THEN 2 * Max(cores("online_core_num"))
        ELSE 8

evaluateCPU(v, first) ==
    Graded(v, "temperature", 85, 30, 75, 15) + Graded(v, "usage", 90, 20, 80, 10)
    + Charge(v, "load_average", LoadLimit(v), 20)
    + Corrected(first) + Charge(v, "cpu_uce_errors", 0, 20)

evaluateMemory(v, first) ==
    Graded(v, "usage", 90, 25, 80, 12) + Charge(v, "swap_usage", 50, 10)
    + Charge(v, "saturation", 80, 15) + Charge(v, "fragmentation", 80, 10)
    + Corrected(first) + Charge(v, "ecc_uce_errors", 0, 30)

\* Every local mount weighs 1/N: the charge comes in N-ths of a percent.
Mounts(v) == {k \in DOMAIN v : k[1] = "space_usage"}
Parts(v) == IF Mounts(v) = {} THEN 1 ELSE Cardinality(Mounts(v))
evaluateDisk(v) ==
    35 * Cardinality({k \in Mounts(v) : v[k] > 90})
    + 15 * Cardinality({k \in Mounts(v) : v[k] > 80 /\ v[k] <= 90})
    + Parts(v) * (Charge(v, "io_wait", 20, 15)
                  + IF \E r \in Values(v, "smart_status") : r < 1 THEN 50 ELSE 0)

evaluateGPU(v) ==
    Graded(v, "temperature", 90, 35, 80, 15) + Charge(v, "memory_usage", 95, 20)
    + Charge(v, "utilization", 95, 15) + Charge(v, "ecc_errors", 0, 30)

npuTempNames == {"temperature", "hbm_temp", "cluster_temp", "peri_temp", "aicore0_temp",
    "aicore1_temp", "soc_max_temp", "fp_max_temp", "ndie_temp", "hbm_max_temp"}

AnyOver(v, names, t) == \E n \in names : Over(v, n, t)

\* A double-bit error hides the single-bit ones of the same memory.
Ecc(v, double, single) ==
    IF Over(v, double, 0) THEN 15 ELSE Charge(v, single, 0, 5)

evaluateNPU(v) ==
    Charge(v, "card_drop", 0, 20)
    + (IF AnyOver(v, npuTempNames, 90) THEN 15 ELSE IF AnyOver(v, npuTempNames, 80) THEN 8 ELSE 0)
    + Graded(v, "health_status", 2, 15, 1, 8)
    + Ecc(v, "hbm_double_ecc", "hbm_single_ecc") + Ecc(v, "ddr_double_ecc", "ddr_single_ecc")
    + Charge(v, "memory_usage", 95, 8)
    + (IF AnyOver(v, {"utilization", "npu_util"}, 95) THEN 5 ELSE 0)
    + Charge(v, "error_code", 0, 7)

\* connection_count is keyed by its state.
evaluateNetwork(v) ==
    LET count(state) == [k \in DOMAIN v \cap {<<"connection_count", <<state>>>>} |-> v[k]]
    IN  Graded(v, "error_count", 100, 45, 10, 15)
        + Charge(count("TIME_WAIT"), "connection_count", 2000, 30)
        + Graded(count("ESTABLISHED"), "connection_count", 5000, 25, 3000, 10)

evaluateChassis(v) ==
    Graded(v, "inlet_temp", 40, 50, 35, 25) + Graded(v, "outlet_temp", 60, 50, 50, 25)

CPUOnlyScheme == [cpu |-> 25, memory |-> 25, disk |-> 30, gpu |-> 0, npu |-> 0, network |-> 10, chassis |-> 10]
Accelerated2CardScheme == [CPUOnlyScheme EXCEPT !.cpu = 20, !.memory = 20, !.disk = 20, !.gpu = 20, !.npu = 20]
Accelerated4CardScheme == [CPUOnlyScheme EXCEPT !.cpu = 15, !.memory = 15, !.disk = 20, !.gpu = 30, !.npu = 30]
Accelerated8CardScheme == [CPUOnlyScheme EXCEPT !.cpu = 15, !.memory = 15, !.disk = 15, !.gpu = 35, !.npu = 35]

\* The scheme follows what reports: any GPU counts as eight cards, and more
\* than eight NPU cards as two.  Cards are told apart by their npu_id; a batch
\* without any is taken to have two chips a card.
npuCardCount(ids, npuNum) == IF ids > 0 THEN ids ELSE Max({1, npuNum \div 2})
Scheme(gpu, npu, cards) ==
    CASE gpu -> Accelerated8CardScheme
      [] ~gpu /\ npu /\ cards \in 5..8 -> Accelerated8CardScheme
      [] ~gpu /\ npu /\ cards \in 3..4 -> Accelerated4CardScheme
      [] ~gpu /\ npu /\ cards \notin 3..8 -> Accelerated2CardScheme
      [] OTHER -> CPUOnlyScheme

\* What a component loses, in Parts(v)-ths of a percent of its weight.
Lost(comp, v, first) ==
    CASE comp = "cpu" -> evaluateCPU(v, first)
      [] comp = "memory" -> evaluateMemory(v, first)
      [] comp = "disk" -> evaluateDisk(v)
      [] comp = "gpu" -> evaluateGPU(v)
      [] comp = "npu" -> evaluateNPU(v)
      [] comp = "network" -> evaluateNetwork(v)
      [] comp = "chassis" -> evaluateChassis(v)

FirstCorrected(comp, v) ==
    CASE comp = "cpu" -> FirstPositive(v, "cpu_ce_errors")
      [] comp = "memory" -> FirstPositive(v, "ecc_ce_errors")
      [] OTHER -> {0}

\* Whole points, rounded down, never below zero.
Points(weight, lost, parts) == Max({0, (weight * (100 * parts - lost)) \div (100 * parts)})

\* The scores one batch may get.
Scores(comp, weight, v) ==
    {Points(weight, Lost(comp, v, first), Parts(v)) : first \in FirstCorrected(comp, v)}

gradeForScore(score) ==
    IF score >= 90 THEN "Excellent" ELSE IF score >= 75 THEN "Good"
    ELSE IF score >= 60 THEN "Warning" ELSE "Critical"
====
