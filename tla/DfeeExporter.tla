---------------------------- MODULE DfeeExporter ----------------------------
(***************************************************************************)
(* The Prometheus page of the dfee server (features/dfee/exporter.go): how *)
(* a snapshot metric becomes a sample, and what the page takes from the    *)
(* kernel's own disk counters.  A sample is named by the sequence of its   *)
(* metric name and label values.                                           *)
(***************************************************************************)
EXTENDS DfeeSeries

CONSTANTS DeviceFilter,  \* NPU ids to export; None: all of them
          KernelDevices  \* the devices in /proc/diskstats

NpuPromNames == {"aicore_freq", "hbm_freq", "power_draw", "voltage",
                 "utilization", "memory_usage", "hbm_bandwidth_util",
                 "vector_core_util", "npu_util"}

DiskCounters == {"read_sectors_total", "written_sectors_total",
                 "read_time_total", "write_time_total"}

\* The one metric a component's plain gauges map to, its labels left out.
PlainProm == [cpu |-> {"online_core_num"}, memory |-> {}, disk |-> {},
              chassis |-> {"power", "inlet_temp", "outlet_temp", "fan_power"}]

\* The label a metric's samples are told apart by, "none" for none, and the values
\* exported; an empty set stands for any value.
Told(key, vals) == [key |-> key, vals |-> vals]
TellingLabel(m) ==
    CASE m.comp = "cpu" /\ m.name = "load_average" -> Told("interval", {"1m", "5m", "15m"})
      [] m.comp = "memory" /\ m.name = "usage_detail" ->
            Told("field", {"total", "free", "buffers", "cached", "sreclaimable"})
      [] m.comp = "memory" /\ m.name = "swap_detail" -> Told("field", {"total", "free"})
      [] IsNetCounter(m) -> Told("interface", {})
      [] m.comp = "disk" /\ m.name \in DiskCounters -> Told("device", {})
      [] OTHER -> Told("none", {})

\* mapNodeMetrics and mapDSMIMetrics: the sample a metric becomes, <<>> for none.
PromSample(m) ==
    LET Label(key) == LabelOf(m, key)
        told == TellingLabel(m)
    IN  CASE IsCPUTimeMetric(m) /\ Label("core") = "total" ->
                <<"node_cpu_seconds_total", ModeOf[m.name]>>
          [] m.comp = "chassis" /\ m.name = "fan_speed" ->
                <<"ipmi_fan_speed_rpm", Label("fan"), Label("direction")>>
          [] /\ m.comp = "npu" /\ m.name \in NpuPromNames /\ Label("npu_id") # Empty
             /\ DeviceFilter = None \/ Label("npu_id") \in DeviceFilter ->
                <<m.comp, m.name, Label("npu_id"), Label("chip_id")>>
          [] told.key # "none" /\ (told.vals = {} \/ Label(told.key) \in told.vals) ->
                <<m.comp, m.name, Label(told.key)>>
          [] m.comp \in DOMAIN PlainProm /\ m.name \in PlainProm[m.comp] ->
                <<m.comp, m.name>>
          [] OTHER -> <<>>

\* MUTANT of Supplement: devices the snapshot covers are added again.
SupplementAll(ms) == {<<"disk", n, dev>> : n \in DiskCounters, dev \in KernelDevices}

\* supplementDiskStats: the samples of the devices the snapshot has none of.
Supplement(ms) ==
    LET covered == {m.labels["device"] :
                      m \in {x \in ms : x.comp = "disk" /\ x.name \in DiskCounters}}
    IN  {<<"disk", n, dev>> : n \in DiskCounters, dev \in KernelDevices \ covered}

\* How often the page of a snapshot has a sample (buildMetrics).
Occurrences(ms, sample) ==
    Cardinality({m \in ms : PromSample(m) = sample})
    + IF sample \in Supplement(ms) THEN 1 ELSE 0

Page(ms) == ({PromSample(m) : m \in ms} \ {<<>>}) \cup Supplement(ms)
=============================================================================
