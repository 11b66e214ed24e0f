---- MODULE MCCollection ----
\* Small hosts for Collection: every component with readings in each band of its
\* rules, and every metric asked for alone.
EXTENDS Collection

On(label, names) == {<<n, label>> : n \in names}

\* Values on both sides of every threshold; increments of the counters.
MCReadings == [n \in UNION {Names(c) : c \in Components} |->
    CASE n \in npuTempNames -> {60, 82, 92} [] n = "usage" -> {50, 85, 95}
      [] n = "load_average" -> {1, 6, 9} [] n = "core_num" -> {4} [] n = "online_core_num" -> {0, 2, 4}
      [] n = "cpu_ce_errors" -> {1, 3} [] n \in {"ecc_ce_errors"} -> {0, 1, 3}
      [] n = "swap_usage" -> {10, 60} [] n \in {"saturation", "fragmentation"} -> {10, 85}
      [] n = "space_usage" -> {50, 85, 95} [] n = "io_wait" -> {5, 25}
      [] n \in {"memory_usage", "utilization", "npu_util"} -> {50, 97}
      [] n \in {"ecc_uce_errors", "smart_status", "ecc_errors", "card_drop", "error_code"} -> {0, 1}
      [] n = "health_status" -> {1, 2, 3} [] n = "error_count" -> {11, 101}
      [] n = "connection_count" -> {10, 2001, 3001, 5001}
      [] n = "inlet_temp" -> {25, 36, 41} [] n = "outlet_temp" -> {40, 51, 61}
      [] OTHER -> {1}] @@ << >>

Chips == {<<0, 0>>, <<1, 0>>}

Keys(c, chips) ==
    CASE c = "cpu" -> On(<< >>, {"temperature", "usage", "load_average", "core_num", "online_core_num",
                              "cpu_uce_errors", "context_switches"})
                      \cup {<<"cpu_ce_errors", <<0>>>>, <<"cpu_ce_errors", <<1>>>>}
      [] c = "memory" -> On(<< >>, {"usage", "swap_usage", "saturation", "fragmentation", "ecc_ce_errors",
                                 "ecc_uce_errors", "swap_in", "page_faults"})
      [] c = "disk" -> On(<<"sda">>, {"io_wait", "smart_status", "iops"})
                       \cup {<<"space_usage", <<"/">>>>, <<"space_usage", <<"/home">>>>, <<"space_usage", <<"/var">>>>}
      [] c = "network" -> On(<<"eth0">>, {"error_count", "throughput"})
                          \cup {<<"connection_count", <<"TIME_WAIT">>>>, <<"connection_count", <<"ESTABLISHED">>>>}
      [] c = "gpu" -> On(<<0>>, {"temperature", "memory_usage", "utilization", "ecc_errors"})
      [] c = "chassis" -> On(<< >>, {"inlet_temp", "outlet_temp"})
      [] c = "npu" -> On(<<0, 0>>, {"card_drop", "temperature", "hbm_temp", "health_status", "memory_usage",
                                    "utilization", "npu_util", "error_code"})
                      \cup {<<n, chip>> : n \in EccCounts("hbm"), chip \in chips}
                      \cup On(<<0, 0>>, EccCounts("ddr"))

MinOf(S) == CHOOSE x \in S : \A y \in S : x <= y
MaxOf(S) == CHOOSE x \in S : \A y \in S : x >= y

\* Counters start at zero, or close to the end of their range.
KindIn(c, n) == Emitter[c][n].emits[n]
Counting(c, n) == KindIn(c, n) \in {"delta", "positive", "quiet", "event"}
Good(c, chips) == [k \in Keys(c, chips) |->
    IF Counting(c, k[1]) THEN 0
    ELSE IF k[1] \in {"smart_status", "online_core_num"} THEN MaxOf(MCReadings[k[1]])
    ELSE MinOf(MCReadings[k[1]])]
Bad(c, chips) == [k \in Keys(c, chips) |->
    IF Counting(c, k[1]) THEN (IF c = "npu" \/ KindIn(c, k[1]) = "event" THEN 100 ELSE 254)
    ELSE IF k[1] \in {"smart_status"} THEN 0 ELSE IF k[1] = "online_core_num" THEN 2
    ELSE MaxOf(MCReadings[k[1]])]

\* The readings that move together: those of one rule or of one source.
Related(c, keys) ==
    LET of(names) == {k \in keys : k[1] \in names} IN
    CASE c = "cpu" -> {of({"temperature", "usage"}), of({"load_average", "online_core_num"}),
                       of({"cpu_ce_errors", "cpu_uce_errors"}), of({"context_switches"})}
      [] c = "memory" -> {of({"usage", "swap_usage"}), of({"saturation", "fragmentation"}),
                          of({"ecc_ce_errors", "ecc_uce_errors"}), of({"swap_in", "page_faults"})}
      [] c = "disk" -> {of({"io_wait", "smart_status", "iops"}), of({"space_usage"})}
      [] c = "network" -> {of({"error_count", "throughput"}), of({"connection_count"})}
      [] c = "gpu" -> {of({"temperature", "memory_usage"}), of({"utilization", "ecc_errors"})}
      [] c = "chassis" -> {keys}
      [] c = "npu" -> {of({"temperature", "hbm_temp"}), of({"health_status", "card_drop"}), of({"memory_usage", "error_code"}),
                       of({"hbm_single_ecc"}), of({"ddr_double_ecc"})}

Spec1(p) == [priority |-> p, static |-> FALSE]
Asking(c, names, p) == Listing([k \in {<<c, n>> : n \in names} |-> Spec1(p)])
\* The sources that fail among those the moving readings come from.
Flaky(c, moving) ==
    {f \in {Emitter[c][k[1]].src : k \in moving} \cup {"CardList"} :
        \/ f \in {"mce", "stat", "vmstat", "mounts", "diskstats", "netdev", "ecc hbm"}
        \/ f = "CardList" /\ c = "npu"}

StartOf(command, c, default, files, readings, chips, others, flaky, moving) ==
    [command |-> command, comp |-> c, base |-> default, files |-> files, own |-> Absent,
     minPriority |-> "medium", host |-> readings, chips |-> chips, others |-> others,
     cards |-> 8, flaky |-> flaky, moving |-> moving]

\* A feature asks for all that health reads, another for some of it less urgently.
HealthStart(command, c, readings, chips, others, moving) ==
    StartOf(command, c, Absent,
            <<Asking(c, {k[1] : k \in DOMAIN readings}, "High"),
              Asking(c, {"usage", "utilization", "temperature"}, "Low")>>,
            readings, chips, others, Flaky(c, moving), moving)

DualChip == {<<0, 0>>, <<0, 1>>}
Observed ==
    UNION {{HealthStart("daemon", c, Good(c, Chips), Chips, {}, moving) :
              moving \in Related(c, Keys(c, Chips))} : c \in Components}
    \cup UNION {{HealthStart("daemon", c, Bad(c, Chips), Chips, {}, moving) :
              moving \in {m \in Related(c, Keys(c, Chips)) : \E k \in m : Counting(c, k[1])}} : c \in Components}
    \cup {HealthStart("health", c, Bad(c, Chips), Chips, {}, {}) : c \in Components}
    \cup {HealthStart("daemon", "cpu", Bad("cpu", Chips), Chips, {"memory", "npu", "disk"}, {}),
          HealthStart("daemon", "npu", Bad("npu", DualChip), DualChip, {"cpu"}, {})}

\* One metric asked for by the first feature, with the second missing, broken,
\* asking for it less urgently, or as static.
Alone(c, n) ==
    {StartOf(command, c, Asking(c, {n}, "Medium"), <<Asking(c, {n}, p), second>>, << >>, Chips, {}, {}, {}) :
        command \in {"daemon", "collect", "health"}, p \in {"Low", "High"},
        second \in {Absent, Broken, Asking(c, {n}, "Low"),
                    Listing([k \in {<<c, n>>} |-> [priority |-> "Low", static |-> TRUE]])}}

\* Most single reads of a device behave alike.
Distinct(c) == IF c = "npu" THEN Names(c) \ (SingleReads \ {"temperature", "error_code"}) ELSE Names(c)
MCStarts == Observed \cup UNION {UNION {Alone(c, n) : n \in Distinct(c)} : c \in Components}
====
