----------------------------- MODULE DfeeSeries -----------------------------
(***************************************************************************)
(* The tables and pure functions of the dfee server: which metrics are     *)
(* energy metrics (filter.go), how they become chart series, and how CPU   *)
(* shares and network deltas are derived from cumulative counters          *)
(* (cpu_derive.go, net_derive.go).  A metric is a record [comp, name,      *)
(* labels, value]; its labels are a function of the label keys it has.     *)
(***************************************************************************)
EXTENDS Integers, Sequences, SequencesExt, FiniteSetsExt

CONSTANT None    \* no reading

Modes == {"user", "nice", "system", "idle", "iowait", "irq", "softirq", "steal"}

\* The counter a raw CPU time metric carries.
ModeOf == [user_time |-> "user", nice_time |-> "nice", system_time |-> "system",
           idle_time |-> "idle", iowait_time |-> "iowait", irq_time |-> "irq",
           softirq_time |-> "softirq", steal_time |-> "steal"]

NpuNames ==
    {"aicpu_freq", "aicore_rated_freq", "aicore_freq", "ctrlcpu_freq",
     "vector_core_freq", "hbm_freq", "ddr_freq", "utilization",
     "memory_usage", "npu_util", "aicpu_util", "ctrlcpu_util",
     "vector_core_util", "hbm_bandwidth_util", "ddr_util",
     "ddr_bandwidth_util", "vdec_util", "vpc_util", "venc_util", "jpege_util",
     "jpegd_util", "temperature", "hbm_temp", "cluster_temp", "peri_temp",
     "aicore0_temp", "aicore1_temp", "ntc1_temp", "ntc2_temp", "ntc3_temp",
     "ntc4_temp", "soc_max_temp", "fp_max_temp", "ndie_temp", "hbm_max_temp",
     "power_draw", "voltage", "aicore_voltage", "hybrid_voltage",
     "cpu_voltage", "ddr_voltage", "acg_count", "fan_speed",
     "llc_write_hit_rate", "llc_read_hit_rate", "llc_throughput"}

\* Metrics taken whatever their labels, and those taken for some values only.
UnlabelledSpecs ==
    [npu |-> NpuNames, cpu |-> {"load_average", "power"}, memory |-> {},
     disk |-> {"throughput", "read_latency", "write_latency", "iops"},
     network |-> {"rx_bytes_total", "tx_bytes_total"},
     chassis |-> {"power", "inlet_temp", "outlet_temp", "fan_speed", "fan_power"}]

LabelledSpecs ==
    {[comp |-> "cpu", names |-> DOMAIN ModeOf, key |-> "core", vals |-> {"total"}],
     [comp |-> "memory", names |-> {"usage_detail"}, key |-> "field",
      vals |-> {"total", "free", "buffers", "cached", "sreclaimable"}],
     [comp |-> "memory", names |-> {"swap_detail"}, key |-> "field",
      vals |-> {"total", "free"}]}

MatchesEfficiencySpec(m) ==
    \/ m.comp \in DOMAIN UnlabelledSpecs /\ m.name \in UnlabelledSpecs[m.comp]
    \/ \E s \in LabelledSpecs :
          /\ m.comp = s.comp /\ m.name \in s.names
          /\ s.key \in DOMAIN m.labels /\ m.labels[s.key] \in s.vals

FilterEfficiency(ms) == {m \in ms : MatchesEfficiencySpec(m)}

IsCPUTimeMetric(m) == m.comp = "cpu" /\ m.name \in DOMAIN ModeOf

-----------------------------------------------------------------------------
\* MUTANT of SeriesId: the direction is left out of the key.
SeriesIdNoDirection(m) ==
    IF "device" \in DOMAIN m.labels THEN <<m.labels["device"], m.name>>
    ELSE <<m.name>>

\* A label, empty for a metric that does not have it.
Empty == ""
LabelOf(m, key) == IF key \in DOMAIN m.labels THEN m.labels[key] ELSE Empty

\* The labels that may name a series; the first one a metric has decides.
IdLabels == <<"npu_id", "interface", "device", "fan", "field", "interval", "cpu">>

\* The key of a series, as the sequence of its parts; the direction is a suffix.
SeriesId(m) ==
    LET has == {i \in DOMAIN IdLabels : IdLabels[i] \in DOMAIN m.labels}
        first == CHOOSE i \in has : \A j \in has : i <= j
        label == LabelOf(m, IdLabels[first])
        direction == IF "direction" \in DOMAIN m.labels
                     THEN <<m.labels["direction"]>> ELSE <<>>
        key == CASE has = {} -> <<m.name>>
                 [] has # {} /\ first = 1 -> <<label, LabelOf(m, "chip_id"), m.name>>
                 [] has # {} /\ first \in 2..4 -> <<label, m.name>>
                 [] has # {} /\ first \in 5..7 -> <<m.name, label>>
    IN  key \o direction

\* A chart of one component: names, and the direction it is for.
Chart(comp, names, direction, avg) ==
    [comp |-> comp, names |-> names, direction |-> direction, avg |-> avg]

UtilNames == {"idle_util", "non_idle_util", "user_util", "system_util",
              "iowait_util", "irq_util", "steal_util"}

NpuCharted == {"aicore_freq", "hbm_freq", "power_draw", "voltage", "npu_util",
               "utilization", "vector_core_util", "hbm_bandwidth_util",
               "memory_usage"}

ChartGroups ==
    {Chart("npu", {n}, "any", FALSE) : n \in NpuCharted}
    \cup {Chart("cpu", names, "any", FALSE) : names \in
            {UtilNames, {"load_average"}, {"power"}}}
    \cup {Chart("memory", {n}, "any", FALSE) : n \in {"usage_detail", "swap_detail"}}
    \cup {Chart("disk", {"throughput"}, d, FALSE) : d \in {"read", "write"}}
    \cup {Chart("disk", {"iops"}, d, FALSE) : d \in {"read", "write"}}
    \cup {Chart("disk", {n}, "any", FALSE) : n \in {"read_latency", "write_latency"}}
    \cup {Chart("network", {n}, "any", FALSE) :
            n \in {"rx_bytes_total", "tx_bytes_total"}}
    \cup {Chart("chassis", {"power", "fan_power"}, "any", FALSE),
          Chart("chassis", {"inlet_temp", "outlet_temp"}, "any", FALSE),
          Chart("chassis", {"fan_speed"}, "any", TRUE)}

\* groupForChart: the metrics a chart shows; a chart that averages shows one
\* series for all of them.
Shown(ms, cg) ==
    {m \in ms : /\ m.comp = cg.comp /\ m.name \in cg.names
                /\ cg.direction # "any" =>
                      /\ "direction" \in DOMAIN m.labels
                      /\ m.labels["direction"] = cg.direction}

-----------------------------------------------------------------------------
\* MUTANT of Grown: a counter that went back counts negatively.
GrownUnclamped(now, before) == now - before

\* How far a counter has moved; a counter that went back has been reset.
Grown(now, before) == IF now < before THEN 0 ELSE now - before

\* extractCPUTimes: the eight counters, or None when one is missing.
CPUTimes(ms) ==
    LET Total(m) == IsCPUTimeMetric(m) /\ "core" \in DOMAIN m.labels
                                       /\ m.labels["core"] = "total"
        Of(mode) == {m \in ms : Total(m) /\ ModeOf[m.name] = mode}
    IN  IF \E mode \in Modes : Of(mode) = {} THEN None
        ELSE [mode \in Modes |-> (CHOOSE m \in Of(mode) : TRUE).value]

\* deriveCPUUtil: each share as the jiffies it stands for, of "total"; pct
\* shows a negative sum as 0.
DeriveCPUUtil(prev, curr) ==
    LET d == [m \in Modes |-> Grown(curr[m], prev[m])]
        busy == d["user"] + d["nice"] + d["system"] + d["iowait"]
                + d["irq"] + d["softirq"] + d["steal"]
        total == busy + d["idle"]
        Jiffies(v) == IF v < 0 THEN 0 ELSE v
    IN  IF total <= 0 THEN None
        ELSE [total |-> total,
              idle_util |-> Jiffies(d["idle"]),
              non_idle_util |-> Jiffies(busy),
              user_util |-> Jiffies(d["user"] + d["nice"]),
              system_util |-> Jiffies(d["system"]),
              iowait_util |-> Jiffies(d["iowait"]),
              irq_util |-> Jiffies(d["irq"] + d["softirq"]),
              steal_util |-> Jiffies(d["steal"])]

IsNetCounter(m) ==
    m.comp = "network" /\ m.name \in {"rx_bytes_total", "tx_bytes_total"}

\* The cumulative values deriveNetworkDelta remembers.
NetTotals(ms) ==
    LET net == {m \in ms : IsNetCounter(m)}
    IN  [id \in {SeriesId(m) : m \in net} |->
            (CHOOSE m \in net : SeriesId(m) = id).value]

\* MUTANT of NetDeltas: a series seen for the first time reports its total.
NetDeltasOrTotals(totals, prev) ==
    [id \in DOMAIN totals |->
        IF id \in DOMAIN prev THEN Grown(totals[id], prev[id]) ELSE totals[id]]

\* ... and the deltas it reports: 0 for a series it has no value of.
NetDeltas(totals, prev) ==
    [id \in DOMAIN totals |->
        IF id \in DOMAIN prev THEN Grown(totals[id], prev[id]) ELSE 0]
=============================================================================
