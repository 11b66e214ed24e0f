---- MODULE Collectors ----
(***************************************************************************)
(* What the seven collectors read and emit (internal/collectors).  One     *)
(* Collect is a set of steps; a step has the list that gates it, the       *)
(* source it reads, and the metrics it emits with the way each value comes *)
(* about:                                                                  *)
(*   gauge    the value read                                               *)
(*   share    a share of the time since the last read, nothing at first    *)
(*   share0   the same, but 0 at first                                     *)
(*   delta    growth since the last read, nothing at first                 *)
(*   positive growth since the last read, 0 until a read was positive      *)
(*   quiet    the same, but nothing until a read was positive              *)
(*   event    as positive, but nothing while there is nothing to count     *)
(*   echo     growth since the read of collectIOPS a moment earlier        *)
(* A once step runs in the first Collect only, a fatal one ends the whole  *)
(* Collect when its read fails.                                            *)
(***************************************************************************)
EXTENDS Naturals, FiniteSets, Sequences, TLC

All(kind, names) == [n \in names |-> kind]
Step(id, gate, src, emits) ==
    [id |-> id, gate |-> gate, src |-> src, emits |-> emits, once |-> FALSE, fatal |-> FALSE]
Gauges(id, gate, src, names) == Step(id, gate, src, All("gauge", names))
Once(step) == [step EXCEPT !.once = TRUE]
Fatal(step) == [step EXCEPT !.fatal = TRUE]

---------------------------------------------------------------------------
\* CPU.

Times == {"user_time", "nice_time", "system_time", "idle_time", "iowait_time",
          "irq_time", "softirq_time", "steal_time"}
collectCpuTimeStats ==
    Step("collectCpuTimeStats", Times \cup {"usage"}, "stat",
         All("gauge", Times) @@ All("share0", {"usage"})
         @@ All("share", {"user_util", "system_util", "idle_util", "iowait_util"}))
collectLoadAverage == Gauges("collectLoadAverage", {"load_average", "process_count"}, "loadavg", {"load_average"})
collectProcessCount == Gauges("collectProcessCount", {"process_count"}, "loadavg", {"process_count"})
collectFrequency == Gauges("collectFrequency", {"frequency", "avg_freq"}, "cpufreq", {"frequency", "avg_freq"})
collectContextSwitches ==
    Step("collectContextSwitches", {"context_switches"}, "stat", All("positive", {"context_switches"}))
IpmiSensors == {"temperature", "mem_temperature", "power"}
collectIpmiMetrics == Gauges("collectIpmiMetrics", IpmiSensors, "ipmi", IpmiSensors)

\* Errors of these reads are ignored: the counts are then zero.
CoreStates == {"online_core_num", "offline_core_num", "isolated_core_num"}
collectCoreState == Gauges("collectCoreState", CoreStates, "none", CoreStates)
Buddies == {"numa_order_num", "numa_info"}
collectBuddyInfo == Gauges("collectBuddyInfo", Buddies, "buddyinfo", Buddies)
MachineChecks == {"cpu_ce_errors", "cpu_uce_errors"}
collectMCEErrors == Step("collectMCEErrors", MachineChecks, "mce", All("event", MachineChecks))

collectModelInfo == Once(Gauges("collectModelInfo", {"model_info"}, "cpuinfo", {"model_info"}))
Topology == {"numa_node_num", "core_num", "numa_core_num", "cpu_num"}
collectTopology == Once(Gauges("collectTopology", Topology, "lscpu", Topology))
collectFreqStats == Once(Gauges("collectFreqStats", {"min_freq", "max_freq"}, "freqinfo", {"min_freq", "max_freq"}))
Caches == {"l1d_cache_size", "l1i_cache_size", "l2_cache_size", "l3_cache_size"}
collectCacheInfo == Once(Gauges("collectCacheInfo", Caches, "cacheinfo", Caches))

CPUSteps == {collectCpuTimeStats, collectLoadAverage, collectProcessCount, collectFrequency,
    collectContextSwitches, collectIpmiMetrics, collectCoreState, collectBuddyInfo,
    collectMCEErrors, collectModelInfo, collectTopology, collectFreqStats, collectCacheInfo}

---------------------------------------------------------------------------
\* Memory.

Swaps == {"swap_usage", "swap_detail"}
collectUsage == Gauges("collectUsage", Swaps \cup {"usage", "usage_detail"}, "meminfo", {"usage", "usage_detail"})
collectSwapUsage == Gauges("collectSwapUsage", Swaps, "meminfo", Swaps)
collectSwapIO == Step("collectSwapIO", {"swap_in", "swap_out"}, "vmstat", All("delta", {"swap_in", "swap_out"}))
collectSaturation == Gauges("collectSaturation", {"saturation", "fragmentation"}, "pressure", {"saturation"})
collectFragmentation == Gauges("collectFragmentation", {"fragmentation"}, "buddyinfo", {"fragmentation"})
Edac == {"ecc_ce_errors", "ecc_uce_errors"}
collectECCErrors == Gauges("collectECCErrors", Edac, "edac", Edac)
collectOOMCount == Gauges("collectOOMCount", {"oom_count", "page_faults"}, "dmesg", {"oom_count"})
collectPageFaults == Step("collectPageFaults", {"page_faults"}, "vmstat", All("quiet", {"page_faults"}))
Pages == {"isolated_pages", "free_pages"}
collectPageCounters ==
    Gauges("collectPageCounters", Pages, "vmstat", Pages \cup {"isolated_anon_pages", "isolated_file_pages"})
collectPower == Gauges("collectPower", {"power"}, "ipmi", {"power"})
Modules == {"module_info", "module_size", "module_num"}
collectModuleInfo == Once(Gauges("collectModuleInfo", Modules, "dmidecode", Modules))

MemorySteps == {collectUsage, collectSwapUsage, collectSwapIO, collectSaturation, collectFragmentation,
    collectECCErrors, collectOOMCount, collectPageFaults, collectPageCounters, collectPower, collectModuleInfo}

---------------------------------------------------------------------------
\* Disk.

Space == {"space_usage", "space_detail"}
collectSpaceUsage == Fatal(Gauges("collectSpaceUsage", Space, "mounts", Space))
collectIOPS == Step("collectIOPS", {"iops"}, "diskstats", All("delta", {"iops"}))
collectThroughput == Step("collectThroughput", {"throughput"}, "diskstats", All("echo", {"throughput"}))
Latencies == {"read_latency", "write_latency"}
collectLatency == Step("collectLatency", Latencies, "diskstats", All("echo", Latencies))
collectIoWait == Step("collectIoWait", {"io_wait"}, "stat", All("share", {"io_wait"}))
collectIoErrors == Gauges("collectIoErrors", {"io_errors"}, "dmesg", {"io_errors"})
Smart == {"smart_status", "smart_temperature"}
collectSMART == Gauges("collectSMART", Smart, "smartctl", Smart)
RawCounters == {"read_sectors_total", "written_sectors_total", "read_time_total", "write_time_total"}
collectRawCounters == Gauges("collectRawCounters", RawCounters, "diskstats", RawCounters)

DiskSteps == {collectSpaceUsage, collectIOPS, collectThroughput, collectLatency, collectIoWait,
    collectIoErrors, collectSMART, collectRawCounters}

---------------------------------------------------------------------------
\* Network: one gate for everything, and the interfaces are read first.

NetGate == {"throughput", "packet_count", "error_count", "rx_bytes_total", "tx_bytes_total",
            "connection_count", "interface_status"}
collectInterfaces ==
    Fatal(Step("collectInterfaces", NetGate, "netdev",
               All("delta", {"throughput", "packet_count", "error_count"})
               @@ All("gauge", {"rx_bytes_total", "tx_bytes_total"})))
collectInterfaceStatus == Gauges("collectInterfaceStatus", NetGate, "operstate", {"interface_status"})
collectConnectionCount == Gauges("collectConnectionCount", NetGate, "tcp", {"connection_count"})

NetworkSteps == {collectInterfaces, collectInterfaceStatus, collectConnectionCount}

---------------------------------------------------------------------------
\* Chassis and GPU: one gate, one read.

ChassisNames == {"power", "inlet_temp", "outlet_temp", "fan_speed", "fan_power"}
ChassisSteps == {Gauges("Chassis.Collect", ChassisNames, "ipmi", ChassisNames)}

GPUNames == {"utilization", "memory_usage", "memory_detail", "temperature", "power_draw",
             "fan_speed", "ecc_errors", "clock_frequency"}
GPUSteps == {Gauges("GPU.Collect", GPUNames, "nvidia_smi", GPUNames)}

---------------------------------------------------------------------------
\* NPU: every device is collected under one gate by single reads, any of which
\* may fail; the commands have a gate of their own behind it.

DeviceGate == {"utilization", "memory_usage", "temperature", "power_draw", "voltage", "aicore_freq",
    "hbm_freq", "npu_util", "vector_core_util", "hbm_bandwidth_util", "ecc_errors", "fan_speed",
    "process_total", "process_info"}
CommandGate == {"net_tx_bandwidth", "net_rx_bandwidth", "pcie_tx_bandwidth", "pcie_rx_bandwidth",
    "roce_speed_status", "roce_link_health", "hccs_tx_bandwidth", "hccs_rx_bandwidth", "mac_tx_mac_pause_num"}

SingleReads == {"utilization", "temperature", "power_draw", "health_status", "driver_health", "error_code",
    "card_drop", "voltage", "cluster_temp", "peri_temp", "aicore0_temp", "aicore1_temp", "soc_max_temp",
    "fp_max_temp", "ndie_temp", "hbm_max_temp", "aicore_voltage", "hybrid_voltage", "cpu_voltage",
    "ddr_voltage", "acg_count", "fan_speed", "aicpu_freq", "aicore_rated_freq", "ctrlcpu_freq",
    "vector_core_freq", "hbm_freq", "ddr_freq", "aicpu_util", "ctrlcpu_util", "vector_core_util",
    "hbm_bandwidth_util", "ddr_util", "ddr_bandwidth_util", "aicore_freq", "npu_util", "roce_link_status"}
GroupReads == ("HbmInfo" :> {"memory_usage", "hbm_total_memory", "hbm_used_memory", "hbm_temp"})
    @@ ("SensorNTC" :> {"ntc1_temp", "ntc2_temp", "ntc3_temp", "ntc4_temp"})
    @@ ("DvppRatio" :> {"vdec_util", "vpc_util", "venc_util", "jpege_util", "jpegd_util"})
    @@ ("ResourceInfoFull" :> {"process_info", "process_total"})
    @@ ("LlcPerf" :> {"llc_write_hit_rate", "llc_read_hit_rate", "llc_throughput"})
CommandReads ==
    ("Bandwidth" :> {"net_tx_bandwidth", "net_rx_bandwidth", "pcie_tx_bandwidth", "pcie_rx_bandwidth"})
    @@ ("Speed" :> {"roce_speed_status"}) @@ ("Link" :> {"roce_link_health"})
    @@ ("HccsBandwidth" :> {"hccs_tx_bandwidth", "hccs_rx_bandwidth"})
    @@ ("Statistics" :> {"mac_tx_mac_pause_num"})

\* Growing error counts, and the pages isolated so far.
EccCounts(type) == {type \o "_single_ecc", type \o "_double_ecc"}
emitEccMetrics(type) ==
    Step("emitEccMetrics " \o type, DeviceGate, "ecc " \o type,
         All("positive", EccCounts(type))
         @@ All("gauge", {type \o "_single_ecc_isolated", type \o "_double_ecc_isolated"}))

collectStatic ==
    LET names == {"npu_num", "driver_version", "chip_type", "comm_topo"}
    IN  Once(Gauges("collectStatic", names, "none", names))

collectDevice ==
    {Gauges(n, DeviceGate, n, {n}) : n \in SingleReads}
    \cup {Gauges(r, DeviceGate, r, GroupReads[r]) : r \in DOMAIN GroupReads}
    \cup {emitEccMetrics("hbm"), emitEccMetrics("ddr")}
    \cup {Gauges(r, CommandGate, r, CommandReads[r]) : r \in DOMAIN CommandReads}

NPUSteps == collectDevice \cup {collectStatic}

---------------------------------------------------------------------------

Components == {"cpu", "memory", "disk", "network", "chassis", "gpu", "npu"}
Steps == [c \in Components |->
    CASE c = "cpu" -> CPUSteps [] c = "memory" -> MemorySteps [] c = "disk" -> DiskSteps
      [] c = "network" -> NetworkSteps [] c = "chassis" -> ChassisSteps
      [] c = "gpu" -> GPUSteps [] c = "npu" -> NPUSteps] @@ << >>

\* The step that emits a metric.
Names(c) == UNION {DOMAIN s.emits : s \in Steps[c]}
Emitter == [c \in Components |->
    [n \in Names(c) |-> CHOOSE s \in Steps[c] : n \in DOMAIN s.emits] @@ << >>] @@ << >>

\* What the tables have in common: a metric has one emitter, and counts that
\* are left out while there is nothing to report are these three.
ASSUME TablesAssumption ==
    \A c \in Components : \A s \in Steps[c] : \A n \in DOMAIN s.emits :
        /\ Emitter[c][n] = s
        /\ s.emits[n] \in {"gauge", "share", "share0", "delta", "positive", "quiet", "event", "echo"}
        /\ s.emits[n] \in {"quiet", "event"} =>
              c /= "npu" /\ n \in {"page_faults", "cpu_ce_errors", "cpu_uce_errors"}

\* The commands of a device are reached only through the gate of the device.
Gates(step) == IF step.gate = CommandGate THEN {DeviceGate, CommandGate} ELSE {step.gate}
====
