----------------------------- MODULE DfeeProofs -----------------------------
(***************************************************************************)
(* Theorems about Dfee, for any clients, contents of the snapshot files    *)
(* and number of rewrites.  Of the files they use that jiffies and bytes   *)
(* are natural numbers (DfeeAssumption), and for the series and the page   *)
(* that metrics carry the labels of their collectors (FilesAssumption).    *)
(***************************************************************************)
EXTENDS Dfee, FiniteSetTheorems, FunctionTheorems, SequenceTheorems, TLAPS

\* What a request makes of the files at one moment.
LEMMA ViewIs ==
    ASSUME NEW f \in Moments
    PROVE  /\ View[f] = ViewOf(f)
           /\ View[f].rest = {m \in FilterEfficiency(View[f].all) : ~IsCPUTimeMetric(m)}
<1>1. View[f] = ViewOf(f)
    BY DEF View
<1> QED
    BY <1>1 DEF ViewOf

-----------------------------------------------------------------------------
\* The charts.

Plots(m, cg) == ~cg.avg /\ Shown({m}, cg) # {}

\* The tables of charts, component by component.
One(comp, names) == Chart(comp, names, "any", FALSE)

LEMMA ChartTable ==
    ASSUME NEW cg \in ChartGroups, ~cg.avg
    PROVE  \/ \E n \in NpuCharted : cg = One("npu", {n})
           \/ \E names \in {UtilNames, {"load_average"}, {"power"}} : cg = One("cpu", names)
           \/ \E n \in {"usage_detail", "swap_detail"} : cg = One("memory", {n})
           \/ \E n \in {"throughput", "iops"}, d \in {"read", "write"} :
                 cg = Chart("disk", {n}, d, FALSE)
           \/ \E n \in {"read_latency", "write_latency"} : cg = One("disk", {n})
           \/ \E n \in {"rx_bytes_total", "tx_bytes_total"} : cg = One("network", {n})
           \/ \E names \in {{"power", "fan_power"}, {"inlet_temp", "outlet_temp"}} :
                 cg = One("chassis", names)
<1>1. CASE cg \in {Chart("npu", {n}, "any", FALSE) : n \in NpuCharted}
    BY <1>1 DEF One
<1>2. CASE cg \in {Chart("cpu", names, "any", FALSE) :
                     names \in {UtilNames, {"load_average"}, {"power"}}}
    BY <1>2 DEF One
<1>3. CASE cg \in {Chart("memory", {n}, "any", FALSE) :
                     n \in {"usage_detail", "swap_detail"}}
    BY <1>3 DEF One
<1>4. CASE \/ cg \in {Chart("disk", {"throughput"}, d, FALSE) : d \in {"read", "write"}}
           \/ cg \in {Chart("disk", {"iops"}, d, FALSE) : d \in {"read", "write"}}
    BY <1>4
<1>5. CASE cg \in {Chart("disk", {n}, "any", FALSE) :
                     n \in {"read_latency", "write_latency"}}
    BY <1>5 DEF One
<1>6. CASE cg \in {Chart("network", {n}, "any", FALSE) :
                     n \in {"rx_bytes_total", "tx_bytes_total"}}
    BY <1>6 DEF One
<1>7. CASE cg \in {Chart("chassis", {"power", "fan_power"}, "any", FALSE),
                  Chart("chassis", {"inlet_temp", "outlet_temp"}, "any", FALSE),
                  Chart("chassis", {"fan_speed"}, "any", TRUE)}
    <2>1. cg # Chart("chassis", {"fan_speed"}, "any", TRUE)
        BY DEF Chart
    <2>2. \/ cg = One("chassis", {"power", "fan_power"})
          \/ cg = One("chassis", {"inlet_temp", "outlet_temp"})
        BY <1>7, <2>1 DEF One
    <2> QED
        BY <2>2
<1>8. \/ cg \in {Chart("npu", {n}, "any", FALSE) : n \in NpuCharted}
      \/ cg \in {Chart("cpu", names, "any", FALSE) :
                    names \in {UtilNames, {"load_average"}, {"power"}}}
      \/ cg \in {Chart("memory", {n}, "any", FALSE) :
                    n \in {"usage_detail", "swap_detail"}}
      \/ cg \in {Chart("disk", {"throughput"}, d, FALSE) : d \in {"read", "write"}}
      \/ cg \in {Chart("disk", {"iops"}, d, FALSE) : d \in {"read", "write"}}
      \/ cg \in {Chart("disk", {n}, "any", FALSE) :
                    n \in {"read_latency", "write_latency"}}
      \/ cg \in {Chart("network", {n}, "any", FALSE) :
                    n \in {"rx_bytes_total", "tx_bytes_total"}}
      \/ cg \in {Chart("chassis", {"power", "fan_power"}, "any", FALSE),
                  Chart("chassis", {"inlet_temp", "outlet_temp"}, "any", FALSE),
                  Chart("chassis", {"fan_speed"}, "any", TRUE)}
    BY Zenon DEF ChartGroups
<1> QED
    BY <1>1, <1>2, <1>3, <1>4, <1>5, <1>6, <1>7, <1>8, Zenon

\* What is plotted, and where.
Place(m) ==
    IF m.comp = "cpu" /\ m.name \in UtilNames THEN One("cpu", UtilNames)
    ELSE IF m.comp = "disk" /\ m.name \in {"throughput", "iops"}
         THEN Chart("disk", {m.name}, m.labels["direction"], FALSE)
    ELSE IF m.comp = "chassis" /\ m.name \in {"power", "fan_power"}
         THEN One("chassis", {"power", "fan_power"})
    ELSE IF m.comp = "chassis" THEN One("chassis", {"inlet_temp", "outlet_temp"})
    ELSE One(m.comp, {m.name})

Charted(m) ==
    \/ m.comp = "npu" /\ m.name \in NpuCharted
    \/ m.comp = "cpu" /\ m.name \in UtilNames \cup {"load_average", "power"}
    \/ m.comp = "memory" /\ m.name \in {"usage_detail", "swap_detail"}
    \/ /\ m.comp = "disk" /\ m.name \in {"throughput", "iops"}
       /\ m.labels["direction"] \in {"read", "write"}
    \/ m.comp = "disk" /\ m.name \in {"read_latency", "write_latency"}
    \/ m.comp = "network" /\ m.name \in {"rx_bytes_total", "tx_bytes_total"}
    \/ /\ m.comp = "chassis"
       /\ m.name \in {"power", "fan_power", "inlet_temp", "outlet_temp"}

LEMMA OneChart ==
    ASSUME NEW m, NEW cg \in ChartGroups, Plots(m, cg)
    PROVE  Charted(m) /\ cg = Place(m)
<1>1. m.comp = cg.comp /\ m.name \in cg.names
    BY DEF Plots, Shown
<1>2. cg.direction # "any" => m.labels["direction"] = cg.direction
    BY DEF Plots, Shown
<1>3. ~cg.avg
    BY DEF Plots
<1>4. CASE \E n \in NpuCharted : cg = One("npu", {n})
    <2>1. PICK n \in NpuCharted : cg = One("npu", {n})
        BY <1>4
    <2>2. m.comp = "npu" /\ m.name = n
        BY <1>1, <2>1 DEF One, Chart
    <2> QED
        BY <2>1, <2>2 DEF Charted, Place
<1>5. CASE \E names \in {UtilNames, {"load_average"}, {"power"}} : cg = One("cpu", names)
    <2>1. PICK names \in {UtilNames, {"load_average"}, {"power"}} : cg = One("cpu", names)
        BY <1>5
    <2>2. m.comp = "cpu" /\ m.name \in names
        BY <1>1, <2>1 DEF One, Chart
    <2>3. {"load_average", "power"} \cap UtilNames = {}
        BY DEF UtilNames
    <2> QED
        BY <2>1, <2>2, <2>3 DEF Charted, Place
<1>6. CASE \E n \in {"usage_detail", "swap_detail"} : cg = One("memory", {n})
    <2>1. PICK n \in {"usage_detail", "swap_detail"} : cg = One("memory", {n})
        BY <1>6
    <2>2. m.comp = "memory" /\ m.name = n
        BY <1>1, <2>1 DEF One, Chart
    <2> QED
        BY <2>1, <2>2 DEF Charted, Place
<1>7. CASE \E n \in {"throughput", "iops"}, d \in {"read", "write"} :
              cg = Chart("disk", {n}, d, FALSE)
    <2>1. PICK n \in {"throughput", "iops"}, d \in {"read", "write"} :
             cg = Chart("disk", {n}, d, FALSE)
        BY <1>7
    <2>2. m.comp = "disk" /\ m.name = n /\ m.labels["direction"] = d
        BY <1>1, <1>2, <2>1 DEF Chart
    <2> QED
        BY <2>1, <2>2 DEF Charted, Place
<1>8. CASE \E n \in {"read_latency", "write_latency"} : cg = One("disk", {n})
    <2>1. PICK n \in {"read_latency", "write_latency"} : cg = One("disk", {n})
        BY <1>8
    <2>2. m.comp = "disk" /\ m.name = n
        BY <1>1, <2>1 DEF One, Chart
    <2> QED
        BY <2>1, <2>2 DEF Charted, Place
<1>9. CASE \E n \in {"rx_bytes_total", "tx_bytes_total"} : cg = One("network", {n})
    <2>1. PICK n \in {"rx_bytes_total", "tx_bytes_total"} : cg = One("network", {n})
        BY <1>9
    <2>2. m.comp = "network" /\ m.name = n
        BY <1>1, <2>1 DEF One, Chart
    <2> QED
        BY <2>1, <2>2 DEF Charted, Place
<1>10. CASE \E names \in {{"power", "fan_power"}, {"inlet_temp", "outlet_temp"}} :
               cg = One("chassis", names)
    <2>1. PICK names \in {{"power", "fan_power"}, {"inlet_temp", "outlet_temp"}} :
             cg = One("chassis", names)
        BY <1>10
    <2>2. m.comp = "chassis" /\ m.name \in names
        BY <1>1, <2>1 DEF One, Chart
    <2> QED
        BY <2>1, <2>2 DEF Charted, Place
<1> QED
    BY <1>3, <1>4, <1>5, <1>6, <1>7, <1>8, <1>9, <1>10, ChartTable

LEMMA PairAnd ==
    ASSUME NEW a, NEW b, NEW c
    PROVE  <<a, b>> \o <<c>> = <<a, b, c>>
<1> DEFINE S == {a, b, c}
           s == <<a, b>>
           t == <<c>>
           u == <<a, b, c>>
<1>1. s \in Seq(S) /\ t \in Seq(S) /\ u \in Seq(S)
    OBVIOUS
<1>2. Len(s) = 2 /\ Len(t) = 1 /\ Len(u) = 3
    OBVIOUS
<1>3. /\ s \o t \in Seq(S)
      /\ Len(s \o t) = 3
      /\ \A i \in 1..3 : (s \o t)[i] = IF i <= 2 THEN s[i] ELSE t[i - 2]
    BY <1>1, <1>2, ConcatProperties
<1>4. s[1] = a /\ s[2] = b /\ t[1] = c /\ u[1] = a /\ u[2] = b /\ u[3] = c
    OBVIOUS
<1> HIDE DEF s, t, u, S
<1>5. \A i \in 1..3 : (s \o t)[i] = u[i]
    BY <1>3, <1>4
<1>6. s \o t = u
    BY <1>1, <1>2, <1>3, <1>5, SeqEqual
<1> QED
    BY <1>6 DEF s, t, u

LEMMA PairOnly ==
    ASSUME NEW a, NEW b
    PROVE  <<a, b>> \o <<>> = <<a, b>>
OBVIOUS

LEMMA TripleOnly ==
    ASSUME NEW a, NEW b, NEW c
    PROVE  <<a, b, c>> \o <<>> = <<a, b, c>>
OBVIOUS

\* One label names a series: what its key is.
LEMMA IdByLabel ==
    ASSUME NEW m, NEW k \in 1..7, IdLabels[k] \in DOMAIN m.labels,
           \A j \in 1..7 : IdLabels[j] \in DOMAIN m.labels => j = k
    PROVE  LET label == m.labels[IdLabels[k]]
           IN  /\ "direction" \notin DOMAIN m.labels =>
                     /\ k = 1 => SeriesId(m) = <<label, LabelOf(m, "chip_id"), m.name>>
                     /\ k \in 2..4 => SeriesId(m) = <<label, m.name>>
                     /\ k \in 5..7 => SeriesId(m) = <<m.name, label>>
               /\ "direction" \in DOMAIN m.labels /\ k \in 2..4 =>
                     SeriesId(m) = <<label, m.name, m.labels["direction"]>>
<1> DEFINE has == {i \in DOMAIN IdLabels : IdLabels[i] \in DOMAIN m.labels}
           first == CHOOSE i \in has : \A j \in has : i <= j
           label == m.labels[IdLabels[k]]
           direction == IF "direction" \in DOMAIN m.labels
                        THEN <<m.labels["direction"]>> ELSE <<>>
           key == CASE has = {} -> <<m.name>>
                    [] has # {} /\ first = 1 ->
                          <<LabelOf(m, IdLabels[first]), LabelOf(m, "chip_id"), m.name>>
                    [] has # {} /\ first \in 2..4 -> <<LabelOf(m, IdLabels[first]), m.name>>
                    [] has # {} /\ first \in 5..7 -> <<m.name, LabelOf(m, IdLabels[first])>>
<1>1. SeriesId(m) = key \o direction
    BY Zenon DEF SeriesId
<1>2. DOMAIN IdLabels = 1..7
    BY DEF IdLabels
<1>3. has = {k}
    BY <1>2
<1>4. first = k
    BY <1>3
<1>5. LabelOf(m, IdLabels[first]) = label
    BY <1>4 DEF LabelOf
<1> HIDE DEF has, first, label
<1>6. /\ k = 1 => key = <<label, LabelOf(m, "chip_id"), m.name>>
      /\ k \in 2..4 => key = <<label, m.name>>
      /\ k \in 5..7 => key = <<m.name, label>>
    BY <1>3, <1>4, <1>5
<1> HIDE DEF key
<1>7. ASSUME "direction" \notin DOMAIN m.labels
      PROVE  /\ k = 1 => SeriesId(m) = <<label, LabelOf(m, "chip_id"), m.name>>
             /\ k \in 2..4 => SeriesId(m) = <<label, m.name>>
             /\ k \in 5..7 => SeriesId(m) = <<m.name, label>>
    <2>1. SeriesId(m) = key \o <<>>
        BY <1>1, <1>7
    <2>2. CASE k = 1
        BY <1>6, <2>1, <2>2, TripleOnly
    <2>3. CASE k \in 2..4
        BY <1>6, <2>1, <2>3, PairOnly
    <2>4. CASE k \in 5..7
        BY <1>6, <2>1, <2>4, PairOnly
    <2> QED
        BY <2>2, <2>3, <2>4
<1>8. ASSUME "direction" \in DOMAIN m.labels, k \in 2..4
      PROVE  SeriesId(m) = <<label, m.name, m.labels["direction"]>>
    BY <1>1, <1>6, <1>8, PairAnd
<1> QED
    BY <1>7, <1>8 DEF label

\* No label does: the name is the key.
LEMMA IdByName ==
    ASSUME NEW m, \A j \in 1..7 : IdLabels[j] \notin DOMAIN m.labels,
           "direction" \notin DOMAIN m.labels
    PROVE  SeriesId(m) = <<m.name>>
<1> DEFINE has == {i \in DOMAIN IdLabels : IdLabels[i] \in DOMAIN m.labels}
           first == CHOOSE i \in has : \A j \in has : i <= j
           direction == IF "direction" \in DOMAIN m.labels
                        THEN <<m.labels["direction"]>> ELSE <<>>
           key == CASE has = {} -> <<m.name>>
                    [] has # {} /\ first = 1 ->
                          <<LabelOf(m, IdLabels[first]), LabelOf(m, "chip_id"), m.name>>
                    [] has # {} /\ first \in 2..4 -> <<LabelOf(m, IdLabels[first]), m.name>>
                    [] has # {} /\ first \in 5..7 -> <<m.name, LabelOf(m, IdLabels[first])>>
<1>1. SeriesId(m) = key \o direction
    BY Zenon DEF SeriesId
<1>2. DOMAIN IdLabels = 1..7
    BY DEF IdLabels
<1>3. has = {}
    BY <1>2
<1> HIDE DEF has
<1>4. key = <<m.name>>
    BY <1>3
<1> HIDE DEF key
<1>5. <<m.name>> \o <<>> = <<m.name>>
    OBVIOUS
<1> QED
    BY <1>1, <1>4, <1>5

\* A metric has the labels its collector writes.
Reserved == {"usage_detail", "swap_detail", "load_average", "power"}

Labelled(m) ==
    /\ DOMAIN m.labels \cap AllLabels = Telling(m)
    /\ \A key \in Telling(m) : m.labels[key] \notin Reserved

\* The shapes of the keys, and the metrics that have them.
Chips(m) ==
    /\ m.comp = "npu" /\ m.name \in NpuCharted
    /\ Telling(m) = {"npu_id", "chip_id"}
    /\ SeriesId(m) = <<m.labels["npu_id"], m.labels["chip_id"], m.name>>

Directed(m) ==
    /\ m.comp = "disk" /\ m.name \in {"throughput", "iops"}
    /\ m.labels["direction"] \in {"read", "write"}
    /\ Telling(m) = {"device", "direction"}
    /\ SeriesId(m) = <<m.labels["device"], m.name, m.labels["direction"]>>

LabelFirst(m) ==
    \E key \in {"device", "interface", "fan"} :
        /\ \/ /\ key = "device" /\ m.comp = "disk"
              /\ m.name \in {"read_latency", "write_latency"}
           \/ /\ key = "interface" /\ m.comp = "network"
              /\ m.name \in {"rx_bytes_total", "tx_bytes_total"}
           \/ key = "fan" /\ m.comp = "chassis" /\ m.name = "fan_power"
        /\ Telling(m) = {key}
        /\ m.labels[key] \notin Reserved
        /\ SeriesId(m) = <<m.labels[key], m.name>>

NameFirst(m) ==
    \E key \in {"field", "interval", "cpu"} :
        /\ \/ key = "field" /\ m.comp = "memory" /\ m.name \in {"usage_detail", "swap_detail"}
           \/ key = "interval" /\ m.comp = "cpu" /\ m.name = "load_average"
           \/ key = "cpu" /\ m.comp = "cpu" /\ m.name = "power"
        /\ Telling(m) = {key}
        /\ SeriesId(m) = <<m.name, m.labels[key]>>

NameOnly(m) ==
    /\ m.comp = "chassis" /\ m.name \in {"power", "inlet_temp", "outlet_temp"}
    /\ Telling(m) = {}
    /\ SeriesId(m) = <<m.name>>

Share(m) ==
    /\ m.comp = "cpu" /\ m.name \in UtilNames
    /\ SeriesId(m) = <<m.name>>

Keyed(m) == Chips(m) \/ Directed(m) \/ LabelFirst(m) \/ NameFirst(m) \/ NameOnly(m)

LEMMA Ids ==
    /\ IdLabels[1] = "npu_id" /\ IdLabels[2] = "interface" /\ IdLabels[3] = "device"
    /\ IdLabels[4] = "fan" /\ IdLabels[5] = "field" /\ IdLabels[6] = "interval"
    /\ IdLabels[7] = "cpu"
    /\ \A j \in 1..7 : IdLabels[j] \in AllLabels
BY DEF IdLabels, AllLabels

LEMMA HasShape ==
    ASSUME NEW m, Labelled(m), Charted(m), ~(m.comp = "cpu" /\ m.name \in UtilNames)
    PROVE  Keyed(m)
<1>1. {"direction", "chip_id"} \cap AllLabels = {"direction", "chip_id"}
    BY DEF AllLabels
<1>2. \A key \in AllLabels : key \in DOMAIN m.labels <=> key \in Telling(m)
    BY DEF Labelled
<1>3. {"load_average", "power"} \cap DOMAIN ModeOf = {}
    BY DEF ModeOf
<1>4. CASE m.comp = "npu" /\ m.name \in NpuCharted
    <2>1. Telling(m) = {"npu_id", "chip_id"}
        BY <1>4 DEF Telling
    <2>2. SeriesId(m) = <<m.labels["npu_id"], LabelOf(m, "chip_id"), m.name>>
        BY <1>1, <1>2, <2>1, Ids, IdByLabel
    <2>3. LabelOf(m, "chip_id") = m.labels["chip_id"]
        BY <1>1, <1>2, <2>1 DEF LabelOf
    <2> QED
        BY <1>4, <2>1, <2>2, <2>3 DEF Chips, Keyed
<1>5. CASE /\ m.comp = "disk" /\ m.name \in {"throughput", "iops"}
           /\ m.labels["direction"] \in {"read", "write"}
    <2>1. Telling(m) = {"device", "direction"}
        BY <1>5 DEF Telling
    <2>2. SeriesId(m) = <<m.labels["device"], m.name, m.labels["direction"]>>
        BY <1>1, <1>2, <2>1, Ids, IdByLabel
    <2> QED
        BY <1>5, <2>1, <2>2 DEF Directed, Keyed
<1>6. CASE m.comp = "disk" /\ m.name \in {"read_latency", "write_latency"}
    <2>1. Telling(m) = {"device"}
        BY <1>6 DEF Telling
    <2>2. SeriesId(m) = <<m.labels["device"], m.name>>
        BY <1>1, <1>2, <2>1, Ids, IdByLabel
    <2> QED
        BY <1>6, <2>1, <2>2 DEF LabelFirst, Keyed, Labelled
<1>7. CASE m.comp = "network" /\ m.name \in {"rx_bytes_total", "tx_bytes_total"}
    <2>1. Telling(m) = {"interface"}
        BY <1>7 DEF Telling
    <2>2. SeriesId(m) = <<m.labels["interface"], m.name>>
        BY <1>1, <1>2, <2>1, Ids, IdByLabel
    <2> QED
        BY <1>7, <2>1, <2>2 DEF LabelFirst, Keyed, Labelled
<1>8. CASE m.comp = "chassis" /\ m.name = "fan_power"
    <2>1. Telling(m) = {"fan"}
        BY <1>8 DEF Telling
    <2>2. SeriesId(m) = <<m.labels["fan"], m.name>>
        BY <1>1, <1>2, <2>1, Ids, IdByLabel
    <2> QED
        BY <1>8, <2>1, <2>2 DEF LabelFirst, Keyed, Labelled
<1>9. CASE m.comp = "memory" /\ m.name \in {"usage_detail", "swap_detail"}
    <2>1. Telling(m) = {"field"}
        BY <1>9 DEF Telling
    <2>2. SeriesId(m) = <<m.name, m.labels["field"]>>
        BY <1>1, <1>2, <2>1, Ids, IdByLabel
    <2> QED
        BY <1>9, <2>1, <2>2 DEF NameFirst, Keyed
<1>10. CASE m.comp = "cpu" /\ m.name = "load_average"
    <2>1. Telling(m) = {"interval"}
        BY <1>3, <1>10 DEF Telling, IsCPUTimeMetric
    <2>2. SeriesId(m) = <<m.name, m.labels["interval"]>>
        BY <1>1, <1>2, <2>1, Ids, IdByLabel
    <2> QED
        BY <1>10, <2>1, <2>2 DEF NameFirst, Keyed
<1>11. CASE m.comp = "cpu" /\ m.name = "power"
    <2>1. Telling(m) = {"cpu"}
        BY <1>3, <1>11 DEF Telling, IsCPUTimeMetric
    <2>2. SeriesId(m) = <<m.name, m.labels["cpu"]>>
        BY <1>1, <1>2, <2>1, Ids, IdByLabel
    <2> QED
        BY <1>11, <2>1, <2>2 DEF NameFirst, Keyed
<1>12. CASE m.comp = "chassis" /\ m.name \in {"power", "inlet_temp", "outlet_temp"}
    <2>1. Telling(m) = {}
        BY <1>12 DEF Telling
    <2>2. SeriesId(m) = <<m.name>>
        BY <1>1, <1>2, <2>1, Ids, IdByName
    <2> QED
        BY <1>12, <2>1, <2>2 DEF NameOnly, Keyed
<1> QED
    BY <1>4, <1>5, <1>6, <1>7, <1>8, <1>9, <1>10, <1>11, <1>12 DEF Charted

\* The metric a series stands for: its name and the labels that tell it apart.
SameSeries(m, n) ==
    /\ n.comp = m.comp /\ n.name = m.name
    /\ \A key \in Telling(m) : n.labels[key] = m.labels[key]

\* How the parts of a key tell its shape.
LEMMA KeyParts ==
    ASSUME NEW m
    PROVE  LET id == SeriesId(m)
           IN  /\ Chips(m) =>
                     /\ Len(id) = 3 /\ id[3] \in NpuCharted
                     /\ id[1] = m.labels["npu_id"] /\ id[2] = m.labels["chip_id"] /\ id[3] = m.name
               /\ Directed(m) =>
                     /\ Len(id) = 3 /\ id[3] \notin NpuCharted
                     /\ id[1] = m.labels["device"] /\ id[2] = m.name /\ id[3] = m.labels["direction"]
               /\ LabelFirst(m) =>
                     /\ Len(id) = 2 /\ id[1] \notin Reserved /\ id[2] = m.name
                     /\ \A key \in Telling(m) : id[1] = m.labels[key]
               /\ NameFirst(m) =>
                     /\ Len(id) = 2 /\ id[1] \in Reserved /\ id[1] = m.name
                     /\ \A key \in Telling(m) : id[2] = m.labels[key]
               /\ NameOnly(m) => Len(id) = 1 /\ id[1] = m.name
<1> DEFINE id == SeriesId(m)
<1>1. ASSUME Chips(m)
      PROVE  /\ Len(id) = 3 /\ id[3] \in NpuCharted
             /\ id[1] = m.labels["npu_id"] /\ id[2] = m.labels["chip_id"] /\ id[3] = m.name
    BY <1>1 DEF Chips
<1>2. ASSUME Directed(m)
      PROVE  /\ Len(id) = 3 /\ id[3] \notin NpuCharted
             /\ id[1] = m.labels["device"] /\ id[2] = m.name /\ id[3] = m.labels["direction"]
    BY <1>2 DEF Directed, NpuCharted
<1>3. ASSUME LabelFirst(m)
      PROVE  /\ Len(id) = 2 /\ id[1] \notin Reserved /\ id[2] = m.name
             /\ \A key \in Telling(m) : id[1] = m.labels[key]
    <2>1. PICK key : /\ Telling(m) = {key}
                     /\ m.labels[key] \notin Reserved
                     /\ SeriesId(m) = <<m.labels[key], m.name>>
        BY <1>3 DEF LabelFirst
    <2> QED
        BY <2>1
<1>4. ASSUME NameFirst(m)
      PROVE  /\ Len(id) = 2 /\ id[1] \in Reserved /\ id[1] = m.name
             /\ \A key \in Telling(m) : id[2] = m.labels[key]
    <2>1. PICK key : /\ Telling(m) = {key}
                     /\ m.name \in Reserved
                     /\ SeriesId(m) = <<m.name, m.labels[key]>>
        BY <1>4 DEF NameFirst, Reserved
    <2> QED
        BY <2>1
<1>5. ASSUME NameOnly(m)
      PROVE  Len(id) = 1 /\ id[1] = m.name
    BY <1>5 DEF NameOnly
<1> QED
    BY <1>1, <1>2, <1>3, <1>4, <1>5

LEMMA KeysApart ==
    ASSUME NEW m, NEW n, Keyed(m), Keyed(n), SeriesId(m) = SeriesId(n)
    PROVE  SameSeries(m, n)
<1>1. CASE Chips(m)
    <2>1. Chips(n)
        BY <1>1, KeyParts DEF Keyed
    <2>2. n.comp = m.comp /\ Telling(m) = {"npu_id", "chip_id"}
        BY <1>1, <2>1 DEF Chips
    <2> QED
        BY <1>1, <2>1, <2>2, KeyParts DEF SameSeries
<1>2. CASE Directed(m)
    <2>1. Directed(n)
        BY <1>2, KeyParts DEF Keyed
    <2>2. n.comp = m.comp /\ Telling(m) = {"device", "direction"}
        BY <1>2, <2>1 DEF Directed
    <2> QED
        BY <1>2, <2>1, <2>2, KeyParts DEF SameSeries
<1>3. CASE LabelFirst(m)
    <2>1. LabelFirst(n)
        BY <1>3, KeyParts DEF Keyed
    <2>2. n.name = m.name
        BY <1>3, <2>1, KeyParts
    <2>3. n.comp = m.comp /\ Telling(m) = Telling(n)
        BY <1>3, <2>1, <2>2 DEF LabelFirst
    <2> QED
        BY <1>3, <2>1, <2>2, <2>3, KeyParts DEF SameSeries
<1>4. CASE NameFirst(m)
    <2>1. NameFirst(n)
        BY <1>4, KeyParts DEF Keyed
    <2>2. n.name = m.name
        BY <1>4, <2>1, KeyParts
    <2>3. n.comp = m.comp /\ Telling(m) = Telling(n)
        BY <1>4, <2>1, <2>2 DEF NameFirst
    <2> QED
        BY <1>4, <2>1, <2>2, <2>3, KeyParts DEF SameSeries
<1>5. CASE NameOnly(m)
    <2>1. NameOnly(n)
        BY <1>5, KeyParts DEF Keyed
    <2>2. n.name = m.name
        BY <1>5, <2>1, KeyParts
    <2> QED
        BY <1>5, <2>1, <2>2 DEF NameOnly, SameSeries
<1> QED
    BY <1>1, <1>2, <1>3, <1>4, <1>5 DEF Keyed

\* The charts a metric is on: one at most.
LEMMA ChartsOf ==
    ASSUME NEW m, {cg \in ChartGroups : ~cg.avg /\ Shown({m}, cg) # {}} # {}
    PROVE  /\ Charted(m)
           /\ Cardinality({cg \in ChartGroups : ~cg.avg /\ Shown({m}, cg) # {}}) = 1
<1> DEFINE charts == {cg \in ChartGroups : ~cg.avg /\ Shown({m}, cg) # {}}
<1>1. \A cg \in charts : Charted(m) /\ cg = Place(m)
    BY OneChart DEF Plots
<1>2. charts = {Place(m)}
    BY <1>1
<1> HIDE DEF charts
<1>3. Cardinality(charts) = 1
    BY <1>2, FS_Singleton
<1> QED
    BY <1>1, <1>2, <1>3 DEF charts

\* The metrics of a snapshot that the server shows have their labels, and no
\* two of them have the same.
LEMMA RestApart ==
    ASSUME NEW f \in Moments, NEW m \in View[f].rest, Charted(m),
           \E cg \in ChartGroups : Shown({m}, cg) # {}
    PROVE  /\ Keyed(m)
           /\ \A n \in View[f].rest : SameSeries(m, n) => n = m
<1>1. m \in View[f].all /\ MatchesEfficiencySpec(m)
    BY ViewIs DEF FilterEfficiency
<1>2. Used(m)
    BY DEF Used
<1>3. /\ Labelled(m)
      /\ \A n \in View[f].all : SameSeries(m, n) => n = m
    BY <1>1, <1>2, FilesAssumption DEF Labelled, SameSeries, Reserved
<1>4. ~(m.comp = "cpu" /\ m.name \in UtilNames)
    <2> SUFFICES ASSUME m.comp = "cpu" PROVE m.name \notin UtilNames
        OBVIOUS
    <2>1. m.name \in {"load_average", "power"} \/ m.name \in DOMAIN ModeOf
        BY <1>1 DEF MatchesEfficiencySpec, UnlabelledSpecs, LabelledSpecs
    <2> QED
        BY <2>1 DEF ModeOf, UtilNames
<1>5. View[f].rest \subseteq View[f].all
    BY ViewIs DEF FilterEfficiency
<1> QED
    BY <1>3, <1>4, <1>5, HasShape

\* The derived shares of an answer.
Shared(util) ==
    {[comp |-> "cpu", name |-> n, labels |-> [core |-> "total"],
      value |-> util[n]] : n \in UtilNames}

LEMMA ShareKey ==
    ASSUME NEW util, NEW m \in Shared(util)
    PROVE  /\ m.name \in UtilNames /\ SeriesId(m) = <<m.name>>
           /\ \A n \in Shared(util) : n.name = m.name => n = m
<1>1. PICK k \in UtilNames : m = [comp |-> "cpu", name |-> k, labels |-> [core |-> "total"],
                                  value |-> util[k]]
    BY DEF Shared
<1>2. DOMAIN m.labels = {"core"} /\ m.name = k
    BY <1>1
<1>3. \A j \in 1..7 : IdLabels[j] \notin DOMAIN m.labels
    BY <1>2 DEF IdLabels
<1>4. "direction" \notin DOMAIN m.labels
    BY <1>2
<1>5. SeriesId(m) = <<m.name>>
    BY <1>3, <1>4, IdByName
<1>6. ASSUME NEW n \in Shared(util), n.name = m.name PROVE n = m
    BY <1>1, <1>6 DEF Shared
<1> QED
    BY <1>1, <1>2, <1>5, <1>6

LEMMA SharedFinite ==
    ASSUME NEW util
    PROVE  IsFiniteSet(Shared(util))
<1> DEFINE names == <<"idle_util", "non_idle_util", "user_util", "system_util",
                      "iowait_util", "irq_util", "steal_util">>
           of == [n \in UtilNames |-> [comp |-> "cpu", name |-> n, labels |-> [core |-> "total"],
                                       value |-> util[n]]]
<1>1. names \in [1..7 -> UtilNames]
    BY DEF UtilNames
<1>2. \A n \in UtilNames : \E i \in 1..7 : names[i] = n
    BY DEF UtilNames
<1> HIDE DEF names
<1>3. names \in Surjection(1..7, UtilNames)
    BY <1>1, <1>2, Fun_IsSurj
<1>4. IsFiniteSet(UtilNames)
    BY <1>3, FS_NatSurjection DEF ExistsSurjection
<1>5. of \in [UtilNames -> Shared(util)]
    BY DEF Shared
<1>6. \A m \in Shared(util) : \E n \in UtilNames : of[n] = m
    BY DEF Shared
<1> HIDE DEF of
<1>7. of \in Surjection(UtilNames, Shared(util))
    BY <1>5, <1>6, Fun_IsSurj
<1> QED
    BY <1>4, <1>7, FS_Surjection

\* Any two series an answer plots have different keys.
LEMMA SeriesDiffer ==
    ASSUME NEW f \in Moments, NEW util, NEW shares \in {{}, Shared(util)},
           NEW m \in View[f].rest \cup shares, NEW n \in View[f].rest \cup shares,
           \E cg \in ChartGroups : ~cg.avg /\ Shown({m}, cg) # {},
           \E cg \in ChartGroups : ~cg.avg /\ Shown({n}, cg) # {},
           SeriesId(m) = SeriesId(n)
    PROVE  m = n
<1>1. Charted(m) /\ Charted(n)
    BY ChartsOf
<1>2. CASE m \in View[f].rest /\ n \in View[f].rest
    BY <1>1, <1>2, RestApart, KeysApart
<1>3. CASE m \in shares /\ n \in shares
    <2>1. m.name = n.name
        BY <1>3, ShareKey
    <2> QED
        BY <1>3, <2>1, ShareKey
<1>4. ASSUME NEW a \in View[f].rest, NEW b \in shares, Charted(a),
             \E cg \in ChartGroups : Shown({a}, cg) # {}, SeriesId(a) = SeriesId(b)
      PROVE  FALSE
    <2>1. Keyed(a)
        BY <1>4, RestApart
    <2>2. b.name \in UtilNames /\ SeriesId(b) = <<b.name>>
        BY <1>4, ShareKey
    <2>3. Len(SeriesId(b)) = 1 /\ SeriesId(b)[1] = b.name
        BY <2>2
    <2>4. NameOnly(a) /\ a.name \in UtilNames
        BY <1>4, <2>1, <2>2, <2>3, KeyParts DEF Keyed
    <2> QED
        BY <2>4 DEF NameOnly, UtilNames
<1> QED
    BY <1>1, <1>2, <1>3, <1>4

LEMMA ApartFromTypes ==
    ASSUME answer.seen \in Moments \cup {None}
    PROVE  SeriesKeptApart
<1> DEFINE series == Series(answer)
           Charts(m) == {cg \in ChartGroups : ~cg.avg /\ Shown({m}, cg) # {}}
           plotted == {m \in series : Charts(m) # {}}
           ids == {SeriesId(m) : m \in plotted}
<1>1. \A m \in plotted : Cardinality(Charts(m)) = 1
    BY ChartsOf
<1>2. \A m \in plotted : \E cg \in ChartGroups : ~cg.avg /\ Shown({m}, cg) # {}
    OBVIOUS
<1> HIDE DEF Charts
<1>3. IsFiniteSet(plotted) /\ \A m, n \in plotted : SeriesId(m) = SeriesId(n) => m = n
    <2>1. CASE answer.seen = None
        <3>1. plotted = {}
            BY <2>1 DEF Series
        <3> QED
            BY <3>1, FS_EmptySet
    <2>2. CASE answer.seen # None
        <3> DEFINE f == answer.seen
                   shares == IF answer.util = None THEN {} ELSE Shared(answer.util)
        <3>1. f \in Moments /\ series = View[f].rest \cup shares
            BY <2>2 DEF Series, Shared
        <3>2. shares \in {{}, Shared(answer.util)}
            OBVIOUS
        <3> HIDE DEF f, shares
        <3>3. IsFiniteSet(View[f].rest)
            <4>1. View[f].rest \subseteq View[f].all
                BY <3>1, ViewIs DEF FilterEfficiency
            <4> QED
                BY <3>1, <4>1, FilesAssumption, FS_Subset
        <3>4. IsFiniteSet(shares)
            BY <3>2, SharedFinite, FS_EmptySet
        <3>5. IsFiniteSet(series)
            BY <3>1, <3>3, <3>4, FS_Union
        <3>6. IsFiniteSet(plotted)
            BY <3>5, FS_Subset
        <3>7. ASSUME NEW m \in plotted, NEW n \in plotted, SeriesId(m) = SeriesId(n)
              PROVE  m = n
            <4>1. m \in View[f].rest \cup shares /\ n \in View[f].rest \cup shares
                BY <3>1
            <4> QED
                BY <1>2, <3>1, <3>2, <3>7, <4>1, SeriesDiffer
        <3> QED
            BY <3>6, <3>7
    <2> QED
        BY <2>1, <2>2
<1>4. Cardinality(ids) = Cardinality(plotted)
    <2> DEFINE key == [m \in plotted |-> SeriesId(m)]
    <2> HIDE DEF plotted
    <2>1. key \in [plotted -> ids] /\ \A m \in plotted : key[m] = SeriesId(m)
        OBVIOUS
    <2>2. \A id \in ids : \E m \in plotted : key[m] = id
        OBVIOUS
    <2>3. \A m, n \in plotted : key[m] = key[n] => m = n
        BY <1>3, <2>1
    <2> HIDE DEF key, ids
    <2>4. key \in Bijection(plotted, ids)
        BY <2>1, <2>2, <2>3, Fun_IsBij
    <2> QED
        BY <1>3, <2>4, FS_Bijection, Fun_ExistsBij
<1> QED
    BY <1>1, <1>4 DEF SeriesKeptApart, Charts

\* The shapes of the samples, and the metrics that become them.
ModeSample(m) ==
    /\ IsCPUTimeMetric(m)
    /\ Telling(m) = {"core"} /\ m.labels["core"] = "total"
    /\ PromSample(m) = <<"node_cpu_seconds_total", ModeOf[m.name]>>

FanSample(m) ==
    /\ m.comp = "chassis" /\ m.name = "fan_speed"
    /\ Telling(m) = {"fan", "direction"}
    /\ PromSample(m) = <<"ipmi_fan_speed_rpm", m.labels["fan"], m.labels["direction"]>>

ChipSample(m) ==
    /\ m.comp = "npu"
    /\ Telling(m) = {"npu_id", "chip_id"}
    /\ PromSample(m) = <<"npu", m.name, m.labels["npu_id"], m.labels["chip_id"]>>

ToldSample(m) ==
    \E key \in {"interval", "field", "interface", "device"} :
        /\ m.comp \in {"cpu", "memory", "network", "disk"}
        /\ m.comp = "disk" => key = "device" /\ m.name \in DiskCounters
        /\ Telling(m) = {key}
        /\ PromSample(m) = <<m.comp, m.name, m.labels[key]>>

PlainSample(m) ==
    /\ m.comp \in {"cpu", "chassis"}
    /\ IF m.name = "fan_power" THEN m.comp = "chassis" ELSE Telling(m) = {}
    /\ PromSample(m) = <<m.comp, m.name>>

LEMMA HasSample ==
    ASSUME NEW m, Labelled(m), PromSample(m) # <<>>
    PROVE  ModeSample(m) \/ FanSample(m) \/ ChipSample(m) \/ ToldSample(m) \/ PlainSample(m)
<1> DEFINE told == TellingLabel(m)
<1>9. \A key \in Telling(m) : key \in DOMAIN m.labels
    BY DEF Labelled
<1>1. \A key \in Telling(m) : LabelOf(m, key) = m.labels[key]
    BY <1>9 DEF LabelOf
<1>2. CASE IsCPUTimeMetric(m) /\ LabelOf(m, "core") = "total"
    <2>1. /\ m.comp = "cpu"
          /\ m.name \notin {"load_average", "online_core_num", "power"}
        BY <1>2 DEF IsCPUTimeMetric, ModeOf
    <2>2. told.key = "none"
        BY <2>1 DEF TellingLabel, Told, IsNetCounter
    <2>3. ~(m.comp \in DOMAIN PlainProm /\ m.name \in PlainProm[m.comp])
        BY <2>1 DEF PlainProm
    <2>4. PromSample(m) = <<"node_cpu_seconds_total", ModeOf[m.name]>>
        BY <1>2, <2>1, <2>2, <2>3 DEF PromSample
    <2>5. Telling(m) = {"core"}
        BY <1>2, <2>1 DEF Telling
    <2> QED
        BY <1>1, <1>2, <2>4, <2>5 DEF ModeSample
<1>3. CASE m.comp = "chassis" /\ m.name = "fan_speed"
    <2>0. told.key = "none"
        BY <1>3 DEF TellingLabel, Told, IsNetCounter
    <2>1. PromSample(m) = <<"ipmi_fan_speed_rpm", LabelOf(m, "fan"), LabelOf(m, "direction")>>
        BY <1>3, <2>0 DEF PromSample, IsCPUTimeMetric, PlainProm
    <2>2. Telling(m) = {"fan", "direction"}
        BY <1>3 DEF Telling
    <2> QED
        BY <1>1, <1>3, <2>1, <2>2 DEF FanSample
<1>4. CASE m.comp = "npu"
    <2>1. told.key = "none"
        BY <1>4 DEF TellingLabel, Told, IsNetCounter
    <2>2. PromSample(m) = <<m.comp, m.name, LabelOf(m, "npu_id"), LabelOf(m, "chip_id")>>
        BY <1>4, <2>1 DEF PromSample, IsCPUTimeMetric, PlainProm
    <2>3. Telling(m) = {"npu_id", "chip_id"}
        BY <1>4 DEF Telling
    <2> QED
        BY <1>1, <1>4, <2>2, <2>3 DEF ChipSample
<1>5. ASSUME NEW key \in {"interval", "field", "interface", "device"}, told.key = key
      PROVE  /\ m.comp \in {"cpu", "memory", "network", "disk"}
             /\ m.comp = "disk" => key = "device" /\ m.name \in DiskCounters
             /\ Telling(m) = {key}
    <2>1. \/ m.comp = "cpu" /\ m.name = "load_average" /\ key = "interval"
          \/ m.comp = "memory" /\ key = "field"
          \/ m.comp = "network" /\ key = "interface"
          \/ m.comp = "disk" /\ m.name \in DiskCounters /\ key = "device"
        BY <1>5 DEF TellingLabel, Told, IsNetCounter
    <2>2. "load_average" \notin DOMAIN ModeOf /\ {"throughput", "iops"} \cap DiskCounters = {}
        BY DEF ModeOf, DiskCounters
    <2> QED
        BY <2>1, <2>2 DEF Telling, IsCPUTimeMetric
<1>6. told.key \in {"none", "interval", "field", "interface", "device"}
    BY DEF TellingLabel, Told
<1>7. CASE /\ ~(IsCPUTimeMetric(m) /\ LabelOf(m, "core") = "total")
           /\ ~(m.comp = "chassis" /\ m.name = "fan_speed") /\ m.comp # "npu"
           /\ told.key # "none" /\ (told.vals = {} \/ LabelOf(m, told.key) \in told.vals)
    <2>0. ~(m.comp \in DOMAIN PlainProm /\ m.name \in PlainProm[m.comp])
        BY <1>7 DEF TellingLabel, Told, PlainProm, IsNetCounter
    <2>1. PromSample(m) = <<m.comp, m.name, LabelOf(m, told.key)>>
        BY <1>7, <2>0 DEF PromSample
    <2> QED
        BY <1>1, <1>5, <1>6, <1>7, <2>1 DEF ToldSample
<1>8. CASE /\ ~(IsCPUTimeMetric(m) /\ LabelOf(m, "core") = "total")
           /\ ~(m.comp = "chassis" /\ m.name = "fan_speed") /\ m.comp # "npu"
           /\ ~(told.key # "none" /\ (told.vals = {} \/ LabelOf(m, told.key) \in told.vals))
    <2>1. /\ m.comp \in DOMAIN PlainProm /\ m.name \in PlainProm[m.comp]
          /\ PromSample(m) = <<m.comp, m.name>>
        BY <1>8 DEF PromSample
    <2>2. \/ m.comp = "cpu" /\ m.name = "online_core_num"
          \/ m.comp = "chassis" /\ m.name \in {"power", "inlet_temp", "outlet_temp", "fan_power"}
        BY <2>1 DEF PlainProm
    <2>3. m.name # "fan_power" => Telling(m) = {}
        BY <2>2 DEF Telling, IsCPUTimeMetric, ModeOf
    <2> QED
        BY <2>1, <2>2, <2>3 DEF PlainSample
<1> QED
    BY <1>2, <1>3, <1>4, <1>7, <1>8

\* How the parts of a sample tell its shape.
LEMMA SampleParts ==
    ASSUME NEW m
    PROVE  LET s == PromSample(m)
           IN  /\ ModeSample(m) =>
                     Len(s) = 2 /\ s[1] = "node_cpu_seconds_total" /\ s[2] = ModeOf[m.name]
               /\ FanSample(m) =>
                     /\ Len(s) = 3 /\ s[1] = "ipmi_fan_speed_rpm"
                     /\ s[2] = m.labels["fan"] /\ s[3] = m.labels["direction"]
               /\ ChipSample(m) =>
                     /\ Len(s) = 4 /\ s[2] = m.name
                     /\ s[3] = m.labels["npu_id"] /\ s[4] = m.labels["chip_id"]
               /\ ToldSample(m) =>
                     /\ Len(s) = 3 /\ s[1] = m.comp /\ s[2] = m.name
                     /\ m.comp # "ipmi_fan_speed_rpm"
                     /\ \A key \in Telling(m) : s[3] = m.labels[key]
               /\ PlainSample(m) =>
                     /\ Len(s) = 2 /\ s[1] = m.comp /\ s[2] = m.name
                     /\ m.comp # "node_cpu_seconds_total"
<1> DEFINE s == PromSample(m)
<1>1. ASSUME ModeSample(m)
      PROVE  Len(s) = 2 /\ s[1] = "node_cpu_seconds_total" /\ s[2] = ModeOf[m.name]
    BY <1>1 DEF ModeSample
<1>2. ASSUME FanSample(m)
      PROVE  /\ Len(s) = 3 /\ s[1] = "ipmi_fan_speed_rpm"
             /\ s[2] = m.labels["fan"] /\ s[3] = m.labels["direction"]
    BY <1>2 DEF FanSample
<1>3. ASSUME ChipSample(m)
      PROVE  /\ Len(s) = 4 /\ s[2] = m.name
             /\ s[3] = m.labels["npu_id"] /\ s[4] = m.labels["chip_id"]
    BY <1>3 DEF ChipSample
<1>4. ASSUME ToldSample(m)
      PROVE  /\ Len(s) = 3 /\ s[1] = m.comp /\ s[2] = m.name
             /\ m.comp # "ipmi_fan_speed_rpm"
             /\ \A key \in Telling(m) : s[3] = m.labels[key]
    <2>1. PICK key : /\ Telling(m) = {key}
                     /\ m.comp \in {"cpu", "memory", "network", "disk"}
                     /\ PromSample(m) = <<m.comp, m.name, m.labels[key]>>
        BY <1>4 DEF ToldSample
    <2> QED
        BY <2>1
<1>5. ASSUME PlainSample(m)
      PROVE  /\ Len(s) = 2 /\ s[1] = m.comp /\ s[2] = m.name
             /\ m.comp # "node_cpu_seconds_total"
    BY <1>5 DEF PlainSample
<1> QED
    BY <1>1, <1>2, <1>3, <1>4, <1>5

LEMMA SamplesApart ==
    ASSUME NEW m, NEW n, Labelled(m), Labelled(n), PromSample(m) = PromSample(n),
           PromSample(m) \notin {<<>>, <<"chassis", "fan_power">>}
    PROVE  SameSeries(m, n)
<1>1. ModeSample(m) \/ FanSample(m) \/ ChipSample(m) \/ ToldSample(m) \/ PlainSample(m)
    BY HasSample
<1>2. ModeSample(n) \/ FanSample(n) \/ ChipSample(n) \/ ToldSample(n) \/ PlainSample(n)
    BY HasSample
<1>3. CASE ModeSample(m)
    <2>1. ModeSample(n) /\ ModeOf[m.name] = ModeOf[n.name]
        BY <1>2, <1>3, SampleParts
    <2>2. m.name \in DOMAIN ModeOf /\ n.name \in DOMAIN ModeOf /\ m.comp = "cpu" /\ n.comp = "cpu"
        BY <1>3, <2>1 DEF ModeSample, IsCPUTimeMetric
    <2>3. m.name = n.name
        BY <2>1, <2>2 DEF ModeOf
    <2> QED
        BY <1>3, <2>1, <2>2, <2>3 DEF ModeSample, SameSeries
<1>4. CASE FanSample(m)
    <2>1. FanSample(n)
        BY <1>2, <1>4, SampleParts
    <2>2. /\ n.comp = m.comp /\ n.name = m.name /\ Telling(m) = {"fan", "direction"}
        BY <1>4, <2>1 DEF FanSample
    <2> QED
        BY <1>4, <2>1, <2>2, SampleParts DEF SameSeries
<1>5. CASE ChipSample(m)
    <2>1. ChipSample(n)
        BY <1>2, <1>5, SampleParts
    <2>2. /\ n.comp = m.comp /\ Telling(m) = {"npu_id", "chip_id"}
        BY <1>5, <2>1 DEF ChipSample
    <2> QED
        BY <1>5, <2>1, <2>2, SampleParts DEF SameSeries
<1>6. CASE ToldSample(m)
    <2>1. ToldSample(n)
        BY <1>2, <1>6, SampleParts
    <2>2. n.comp = m.comp /\ n.name = m.name
        BY <1>6, <2>1, SampleParts
    <2>3. Telling(n) = Telling(m)
        BY <2>2 DEF Telling, IsCPUTimeMetric
    <2> QED
        BY <1>6, <2>1, <2>2, <2>3, SampleParts DEF SameSeries
<1>7. CASE PlainSample(m)
    <2>1. PlainSample(n)
        BY <1>2, <1>7, SampleParts
    <2>2. n.comp = m.comp /\ n.name = m.name
        BY <1>7, <2>1, SampleParts
    <2>3. m.name # "fan_power"
        BY <1>7 DEF PlainSample
    <2> QED
        BY <1>7, <2>2, <2>3 DEF PlainSample, SameSeries
<1> QED
    BY <1>1, <1>3, <1>4, <1>5, <1>6, <1>7

\* A metric of a snapshot that is exported has its labels, and no two become
\* one sample.
LEMMA ExportedApart ==
    ASSUME NEW f \in Moments, NEW m \in View[f].all, PromSample(m) # <<>>
    PROVE  /\ Labelled(m)
           /\ PromSample(m) # <<"chassis", "fan_power">> =>
                 \A n \in View[f].all : PromSample(n) = PromSample(m) => n = m
<1>1. ASSUME NEW n \in View[f].all, PromSample(n) # <<>>
      PROVE  /\ Labelled(n)
             /\ \A k \in View[f].all : SameSeries(n, k) => k = n
    <2>1. Used(n)
        BY <1>1 DEF Used
    <2> QED
        BY <2>1, FilesAssumption DEF Labelled, SameSeries, Reserved
<1> QED
    BY <1>1, SamplesApart

LEMMA DiskSample ==
    ASSUME NEW m, m.comp = "disk", m.name \in DiskCounters
    PROVE  PromSample(m) = <<"disk", m.name, LabelOf(m, "device")>> /\ PromSample(m) # <<>>
<1>1. TellingLabel(m) = Told("device", {})
    BY DEF TellingLabel, IsNetCounter
<1>2. TellingLabel(m).key = "device" /\ TellingLabel(m).vals = {}
    BY <1>1 DEF Told
<1>3. m.comp \notin DOMAIN PlainProm \/ m.name \notin PlainProm[m.comp]
    BY DEF PlainProm
<1>4. PromSample(m) = <<"disk", m.name, LabelOf(m, "device")>>
    BY <1>2, <1>3 DEF PromSample, IsCPUTimeMetric
<1>5. <<"disk", m.name, LabelOf(m, "device")>> # <<>>
    OBVIOUS
<1> QED
    BY <1>4, <1>5

\* The disks of a snapshot, whose samples the kernel's counters leave alone.
Covered(ms) ==
    {m.labels["device"] : m \in {x \in ms : x.comp = "disk" /\ x.name \in DiskCounters}}

LEMMA CoveredDisk ==
    ASSUME NEW f \in Moments, NEW dev \in Covered(View[f].all), NEW n \in DiskCounters
    PROVE  \E m \in View[f].all : PromSample(m) = <<"disk", n, dev>>
<1>1. PICK x \in View[f].all : /\ x.comp = "disk" /\ x.name \in DiskCounters
                               /\ x.labels["device"] = dev
    BY DEF Covered
<1>2. Used(x)
    BY <1>1, DiskSample DEF Used
<1>3. PICK m \in View[f].all : /\ m.comp = "disk" /\ m.name = n
                               /\ m.labels["device"] = dev
    BY <1>1, <1>2, FilesAssumption
<1>4. PromSample(m) = <<"disk", n, LabelOf(m, "device")>> /\ PromSample(m) # <<>>
    BY <1>3, DiskSample
<1>5. Labelled(m)
    BY <1>4, ExportedApart
<1>6. Telling(m) = {"device"}
    BY <1>3 DEF Telling, DiskCounters
<1>7. "device" \in DOMAIN m.labels
    BY <1>5, <1>6 DEF Labelled
<1> QED
    BY <1>3, <1>4, <1>7 DEF LabelOf

LEMMA SupplementNew ==
    ASSUME NEW f \in Moments, NEW s \in Supplement(View[f].all), NEW m \in View[f].all
    PROVE  PromSample(m) # s
<1>1. PICK n \in DiskCounters, dev \in KernelDevices \ Covered(View[f].all) :
         s = <<"disk", n, dev>>
    BY DEF Supplement, Covered
<1> SUFFICES ASSUME PromSample(m) = s PROVE FALSE
    OBVIOUS
<1>2. /\ PromSample(m) # <<>> /\ Len(PromSample(m)) = 3
      /\ PromSample(m)[1] = "disk" /\ PromSample(m)[3] = dev
    BY <1>1
<1>3. Labelled(m)
    BY <1>2, ExportedApart
<1>4. ToldSample(m) /\ m.comp = "disk"
    BY <1>2, <1>3, HasSample, SampleParts
<1>5. m.name \in DiskCounters /\ Telling(m) = {"device"}
    BY <1>4 DEF ToldSample
<1>6. m.labels["device"] = dev
    BY <1>2, <1>4, <1>5, SampleParts
<1> QED
    BY <1>1, <1>4, <1>5, <1>6 DEF Covered

LEMMA OnceFromTypes ==
    ASSUME answer.page \in Moments \cup {None}
    PROVE  PageHasEachSampleOnce
<1> SUFFICES ASSUME answer.page # None
             PROVE  LET ms == View[answer.page].all
                    IN  /\ \A sample \in Page(ms) \ {<<"chassis", "fan_power">>} :
                               Occurrences(ms, sample) = 1
                        /\ \A n \in DiskCounters, dev \in KernelDevices :
                               <<"disk", n, dev>> \in Page(ms)
    BY DEF PageHasEachSampleOnce
<1> DEFINE f == answer.page
           ms == View[f].all
<1>1. f \in Moments
    OBVIOUS
<1> HIDE DEF f
<1>2. ASSUME NEW s \in Page(ms) \ {<<"chassis", "fan_power">>}
      PROVE  Occurrences(ms, s) = 1
    <2> DEFINE those == {m \in ms : PromSample(m) = s}
    <2>1. CASE s \in Supplement(ms)
        <3>1. those = {}
            BY <1>1, <2>1, SupplementNew
        <3> HIDE DEF those
        <3>2. Cardinality(those) = 0
            BY <3>1, FS_EmptySet
        <3> QED
            BY <2>1, <3>2 DEF Occurrences, those
    <2>2. CASE s \notin Supplement(ms)
        <3>1. PICK m \in ms : PromSample(m) = s /\ s # <<>>
            BY <2>2 DEF Page
        <3>2. those = {m}
            BY <1>1, <3>1, ExportedApart
        <3> HIDE DEF those
        <3>3. Cardinality(those) = 1
            BY <3>2, FS_Singleton
        <3> QED
            BY <2>2, <3>3 DEF Occurrences, those
    <2> QED
        BY <2>1, <2>2
<1>3. ASSUME NEW n \in DiskCounters, NEW dev \in KernelDevices
      PROVE  <<"disk", n, dev>> \in Page(ms)
    <2>1. CASE dev \in Covered(ms)
        <3>1. PICK m \in ms : PromSample(m) = <<"disk", n, dev>>
            BY <1>1, <2>1, CoveredDisk
        <3>2. <<"disk", n, dev>> # <<>>
            OBVIOUS
        <3> QED
            BY <3>1, <3>2 DEF Page
    <2>2. CASE dev \notin Covered(ms)
        <3>1. <<"disk", n, dev>> \in Supplement(ms)
            BY <2>2 DEF Supplement, Covered
        <3> QED
            BY <3>1 DEF Page
    <2> QED
        BY <2>1, <2>2
<1> QED
    BY <1>2, <1>3 DEF f

-----------------------------------------------------------------------------
\* What the theorems about shares and bytes use of the files.
LEMMA FilesTyped ==
    /\ MaxRewrites \in Nat
    /\ \A f \in Moments :
          /\ View[f].cpu # None => View[f].cpu \in Counters
          /\ View[f].net \in [DOMAIN View[f].net -> Nat]
BY DfeeAssumption

USE FilesTyped

\* Shares of one whole.
Splits(u) ==
    /\ u.total > 0
    /\ u.idle_util + u.non_idle_util = u.total
    /\ u.user_util + u.system_util + u.iowait_util + u.irq_util
          + u.steal_util = u.non_idle_util

Shares ==
    {u \in [total : Nat, idle_util : Nat, non_idle_util : Nat, user_util : Nat,
            system_util : Nat, iowait_util : Nat, irq_util : Nat,
            steal_util : Nat] : Splits(u)}

Totals == {<<>>} \cup {View[f].net : f \in Moments}

LEMMA GrownTyped ==
    ASSUME NEW a \in Nat, NEW b \in Nat
    PROVE  Grown(a, b) \in Nat
BY DEF Grown

\* A total that goes on to c accounts for what a client that last saw a is
\* told of it, whether the counter starts again or not.
LEMMA GrownOnwards ==
    ASSUME NEW a \in Nat, NEW b \in Nat, NEW c \in Nat
    PROVE  Grown(c, a) <= Grown(b, a) + (IF c < b THEN c ELSE c - b)
BY DEF Grown

LEMMA TotalsTyped ==
    ASSUME NEW t \in Totals, NEW id \in DOMAIN t
    PROVE  t[id] \in Nat
<1>1. CASE t = <<>>
    BY <1>1
<1>2. ASSUME NEW f \in Moments, t = View[f].net PROVE t[id] \in Nat
    <2>1. t \in [DOMAIN t -> Nat]
        BY <1>2
    <2> QED
        BY <2>1
<1> QED
    BY <1>1, <1>2 DEF Totals

\* The shares derived from two readings split the whole, even when counters
\* went back.
LEMMA DerivedSplits ==
    ASSUME NEW prev \in Counters, NEW curr \in Counters,
           DeriveCPUUtil(prev, curr) # None
    PROVE  DeriveCPUUtil(prev, curr) \in Shares
<1> DEFINE d == [m \in Modes |-> Grown(curr[m], prev[m])]
           busy == d["user"] + d["nice"] + d["system"] + d["iowait"]
                   + d["irq"] + d["softirq"] + d["steal"]
           total == busy + d["idle"]
<1>1. \A m \in Modes : d[m] \in Nat
    BY GrownTyped DEF Counters
<1>2. /\ d["user"] \in Nat /\ d["nice"] \in Nat /\ d["system"] \in Nat
      /\ d["iowait"] \in Nat /\ d["irq"] \in Nat /\ d["softirq"] \in Nat
      /\ d["steal"] \in Nat /\ d["idle"] \in Nat
    BY <1>1 DEF Modes
<1>3. DeriveCPUUtil(prev, curr) =
         IF total <= 0 THEN None
         ELSE [total |-> total,
               idle_util |-> IF d["idle"] < 0 THEN 0 ELSE d["idle"],
               non_idle_util |-> IF busy < 0 THEN 0 ELSE busy,
               user_util |-> IF d["user"] + d["nice"] < 0 THEN 0
                             ELSE d["user"] + d["nice"],
               system_util |-> IF d["system"] < 0 THEN 0 ELSE d["system"],
               iowait_util |-> IF d["iowait"] < 0 THEN 0 ELSE d["iowait"],
               irq_util |-> IF d["irq"] + d["softirq"] < 0 THEN 0
                            ELSE d["irq"] + d["softirq"],
               steal_util |-> IF d["steal"] < 0 THEN 0 ELSE d["steal"]]
    BY DEF DeriveCPUUtil
<1> HIDE DEF d
<1>4. busy \in Nat /\ total \in Nat /\ ~(busy < 0)
    BY <1>2
<1>5. /\ d["user"] + d["nice"] \in Nat /\ d["irq"] + d["softirq"] \in Nat
      /\ ~(d["user"] + d["nice"] < 0) /\ ~(d["irq"] + d["softirq"] < 0)
      /\ ~(d["idle"] < 0) /\ ~(d["system"] < 0) /\ ~(d["iowait"] < 0)
      /\ ~(d["steal"] < 0)
    BY <1>2
<1>6. DeriveCPUUtil(prev, curr) =
         [total |-> total, idle_util |-> d["idle"], non_idle_util |-> busy,
          user_util |-> d["user"] + d["nice"], system_util |-> d["system"],
          iowait_util |-> d["iowait"], irq_util |-> d["irq"] + d["softirq"],
          steal_util |-> d["steal"]]
    BY <1>3, <1>4, <1>5, Zenon
<1>7. total > 0
    <2>1. CASE total <= 0
        BY <1>3, <2>1, Zenon
    <2> QED
        BY <1>4, <2>1
<1> QED
    BY <1>2, <1>4, <1>5, <1>6, <1>7 DEF Shares, Splits

LEMMA DeriveShares ==
    ASSUME NEW prev \in Counters \cup {None}, NEW curr \in Counters \cup {None},
           NEW cached \in Shares \cup {None}
    PROVE  /\ Derive(prev, curr, cached) \in Shares \cup {None}
           /\ prev # None /\ curr # None /\ cached # None =>
                 Derive(prev, curr, cached) # None
BY DerivedSplits DEF Derive

-----------------------------------------------------------------------------
Requests ==
    [at : {"cpu", "cache", "net", "answer"}, seen : Moments,
     util : Shares \cup {None}, due : BOOLEAN, prevNet : Totals]

\* A request that shows shares has cached them, or found them there, by the time
\* it is through with the cache: it is full once an answer has shown some.
CachedInv ==
    /\ charted \in BOOLEAN
    /\ charted => h.lastDerived # None
    /\ \A c \in Clients : req[c].at \in {"net", "answer"} /\ req[c].util # None
                              => h.lastDerived # None

\* What a request shows, and what requests share, is well formed; a request to
\* which shares are due has them once the counters are swapped.
ChartInv ==
    /\ file \in Moments
    /\ h \in [prevCPU : Counters \cup {None}, lastDerived : Shares \cup {None},
              prevNet : Totals]
    /\ req \in [Clients -> {Idle} \cup Requests]
    /\ \A c \in Clients : req[c] # Idle /\ req[c].due => req[c].util # None
    /\ \A c \in Clients : req[c].at = "cache" => req[c].util # None
    /\ CachedInv
    /\ answer.util \in Shares \cup {None}
    /\ answer.due => answer.util # None
    /\ answer.seen \in Moments \cup {None} /\ answer.page \in Moments \cup {None}

LEMMA InitChart == Init => ChartInv
<1> SUFFICES ASSUME Init PROVE ChartInv
    OBVIOUS
<1>1. CachedInv /\ \A c \in Clients : req[c].at # "cache"
    BY DEF Init, CachedInv, Idle
<1> QED
    BY <1>1 DEF Init, ChartInv, Totals, NoAnswer

\* A request in flight, by the place it is at.
LEMMA InFlight ==
    ASSUME ChartInv, NEW c \in Clients, req[c].at # "idle"
    PROVE  req[c] \in Requests /\ req[c] # Idle
BY DEF ChartInv, Idle

\* What the step that swaps the counters does, without its LETs.
SwapsTo(c, at, util, due, prev) ==
    /\ due => util # None
    /\ at = "net" /\ util # None => h.lastDerived # None
    /\ at = "cache" => util # None
    /\ req' = [req EXCEPT ![c] = [req[c] EXCEPT !.at = at, !.util = util, !.due = due]]
    /\ h' = [h EXCEPT !.prevCPU = prev]
    /\ answer' = NoAnswer /\ req[c] \in Requests /\ req[c].at = "cpu"
    /\ UNCHANGED <<file, ready, rewrites, moved, reported, overlap, charted>>

LEMMA SwapIs ==
    ASSUME ChartInv, NEW c \in Clients, SwapCPU(c)
    PROVE  \E at \in {"cache", "net"}, util \in Shares \cup {None},
              due \in BOOLEAN, prev \in Counters \cup {None} :
              SwapsTo(c, at, util, due, prev)
<1> DEFINE curr == View[req[c].seen].cpu
           util == Derive(h.prevCPU, curr, h.lastDerived)
           fresh == Derive(h.prevCPU, curr, None) # None
           at == IF fresh THEN "cache" ELSE "net"
           due == curr # None /\ h.prevCPU # None /\ charted
<1>1. req[c] \in Requests /\ req[c].at = "cpu"
    BY InFlight DEF SwapCPU
<1>2. curr \in Counters \cup {None}
    BY <1>1 DEF Requests
<1>3. h.prevCPU \in Counters \cup {None} /\ h.lastDerived \in Shares \cup {None}
    BY DEF ChartInv
<1>3a. charted \in BOOLEAN /\ (charted => h.lastDerived # None)
    BY DEF ChartInv, CachedInv
<1>4. util \in Shares \cup {None} /\ (due => util # None)
    BY <1>2, <1>3, <1>3a, DeriveShares
<1>5. at \in {"cache", "net"} /\ due \in BOOLEAN
    BY <1>3a
<1>5a. /\ at = "net" /\ util # None => h.lastDerived # None
       /\ at = "cache" => util # None
    BY DEF Derive
<1>6. /\ req' = [req EXCEPT ![c] = [req[c] EXCEPT !.at = at, !.util = util,
                                                  !.due = due]]
      /\ h' = [h EXCEPT !.prevCPU = curr]
      /\ answer' = NoAnswer
      /\ UNCHANGED <<file, ready, rewrites, moved, reported, overlap, charted>>
    BY DEF SwapCPU
<1> HIDE DEF curr, util, at, due
<1> QED
    BY <1>1, <1>2, <1>4, <1>5, <1>5a, <1>6 DEF SwapsTo

\* A new content for a file, without the LETs.
LEMMA RewriteIs ==
    ASSUME ChartInv, NEW comp \in Components, Rewrite(comp)
    PROVE  /\ file' \in Moments /\ answer' = NoAnswer
           /\ UNCHANGED <<ready, h, req, reported, overlap, charted>>
           /\ moved' =
                [id \in DOMAIN moved \cup DOMAIN View[file'].net |->
                   IF id \in DOMAIN View[file'].net
                   THEN [last |-> View[file'].net[id],
                         bytes |->
                           (IF id \notin DOMAIN moved THEN 0
                            ELSE IF View[file'].net[id] < moved[id].last
                                 THEN View[file'].net[id]
                                 ELSE View[file'].net[id] - moved[id].last)
                           + (IF id \in DOMAIN moved THEN moved[id].bytes ELSE 0)]
                   ELSE moved[id]]
<1>1. PICK v \in DOMAIN Files[comp] : file' = [file EXCEPT ![comp] = v]
    BY DEF Rewrite
<1>2. file' \in Moments
    BY <1>1 DEF ChartInv, Moments, Contents
<1> QED
    BY <1>2 DEF Rewrite

LEMMA CachedStep ==
    ASSUME ChartInv, [Next]_vars
    PROVE  CachedInv'
<1>0. CachedInv /\ req \in [Clients -> {Idle} \cup Requests]
      /\ h \in [prevCPU : Counters \cup {None}, lastDerived : Shares \cup {None},
                prevNet : Totals]
    BY DEF ChartInv
<1>1. ASSUME UNCHANGED <<h, req, charted>> PROVE CachedInv'
    BY <1>0, <1>1 DEF CachedInv
<1>2. CASE Scrape \/ GlobalWritten \/ UNCHANGED vars
    BY <1>1, <1>2 DEF Scrape, GlobalWritten, vars
<1>3. ASSUME NEW comp \in Components, Rewrite(comp) PROVE CachedInv'
    BY <1>1, <1>3 DEF Rewrite
<1>4. ASSUME NEW c \in Clients, Request(c) PROVE CachedInv'
    <2>1. /\ UNCHANGED <<h, charted>> /\ req'[c].at = "cpu"
          /\ \A d \in Clients \ {c} : req'[d] = req[d]
        BY <1>0, <1>4 DEF Request
    <2> QED
        BY <1>0, <2>1 DEF CachedInv
<1>5. ASSUME NEW c \in Clients, SwapCPU(c) PROVE CachedInv'
    <2>1. PICK at \in {"cache", "net"}, util \in Shares \cup {None},
               due \in BOOLEAN, prev \in Counters \cup {None} :
              SwapsTo(c, at, util, due, prev)
        BY <1>5, SwapIs
    <2>2. /\ h'.lastDerived = h.lastDerived
          /\ req'[c].at = at /\ req'[c].util = util
          /\ \A d \in Clients \ {c} : req'[d] = req[d]
        BY <1>0, <2>1 DEF Requests, SwapsTo
    <2> QED
        BY <1>0, <2>1, <2>2 DEF CachedInv, SwapsTo
<1>6. ASSUME NEW c \in Clients, CacheDerived(c) PROVE CachedInv'
    <2>1. req[c] \in Requests
        BY <1>6, InFlight DEF CacheDerived
    <2>2. /\ h'.lastDerived = req[c].util /\ charted' = charted
          /\ req'[c].util = req[c].util /\ req[c].at = "cache"
          /\ \A d \in Clients \ {c} : req'[d] = req[d]
        BY <1>0, <1>6, <2>1 DEF CacheDerived, Requests
    <2>3. req[c].util # None
        BY <1>0, <2>2 DEF ChartInv
    <2> QED
        BY <1>0, <2>2, <2>3 DEF CachedInv
<1>7. ASSUME NEW c \in Clients, ReadNet(c) PROVE CachedInv'
    <2>1. req[c] \in Requests
        BY <1>7, InFlight DEF ReadNet
    <2>2. /\ UNCHANGED <<h, charted>> /\ req'[c].util = req[c].util /\ req[c].at = "net"
          /\ \A d \in Clients \ {c} : req'[d] = req[d]
        BY <1>0, <1>7, <2>1 DEF ReadNet, Requests
    <2> QED
        BY <1>0, <2>2 DEF CachedInv
<1>8. ASSUME NEW c \in Clients, Answer(c) PROVE CachedInv'
    <2>1. /\ h' = [h EXCEPT !.prevNet = View[req[c].seen].net]
          /\ req' = [req EXCEPT ![c] = Idle] /\ req[c].at = "answer"
          /\ charted' = (charted \/ req[c].util # None)
        BY <1>8 DEF Answer
    <2>2. /\ h'.lastDerived = h.lastDerived /\ req'[c].at = "idle"
          /\ \A d \in Clients \ {c} : req'[d] = req[d]
        BY <1>0, <2>1 DEF Idle
    <2>3. charted' => h.lastDerived # None
        BY <1>0, <2>1 DEF CachedInv
    <2> QED
        BY <1>0, <2>1, <2>2, <2>3 DEF CachedInv
<1> QED
    BY <1>2, <1>3, <1>4, <1>5, <1>6, <1>7, <1>8 DEF Next

LEMMA ChartStep ==
    ASSUME ChartInv, [Next]_vars
    PROVE  ChartInv'
<1>0. CachedInv'
    BY CachedStep
<1> USE <1>0 DEF ChartInv
<1>1. CASE Scrape
    BY <1>1 DEF Scrape, NoAnswer
<1>2. ASSUME NEW comp \in Components, Rewrite(comp) PROVE ChartInv'
    BY <1>2, RewriteIs DEF NoAnswer
<1>3. CASE GlobalWritten
    BY <1>3 DEF GlobalWritten
<1>4. ASSUME NEW c \in Clients, Request(c) PROVE ChartInv'
    <2>1. [at |-> "cpu", seen |-> file, util |-> None, due |-> FALSE,
           prevNet |-> <<>>] \in Requests
        BY DEF Requests, Totals
    <2> QED
        BY <1>4, <2>1 DEF Request, NoAnswer, Idle
<1>5. ASSUME NEW c \in Clients, SwapCPU(c) PROVE ChartInv'
    <2>1. PICK at \in {"cache", "net"}, util \in Shares \cup {None},
               due \in BOOLEAN, prev \in Counters \cup {None} :
              SwapsTo(c, at, util, due, prev)
        BY <1>5, SwapIs
    <2>2. /\ req'[c] \in Requests /\ req'[c].due = due /\ req'[c].util = util
          /\ req'[c].at = at
        BY <2>1 DEF Requests, SwapsTo
    <2>3. req' \in [Clients -> {Idle} \cup Requests]
          /\ \A d \in Clients \ {c} : req'[d] = req[d]
        BY <2>1, <2>2 DEF SwapsTo
    <2>4. h' \in [prevCPU : Counters \cup {None}, lastDerived : Shares \cup {None},
                  prevNet : Totals]
        BY <2>1 DEF SwapsTo
    <2> QED
        BY <2>1, <2>2, <2>3, <2>4 DEF NoAnswer, SwapsTo
<1>6. ASSUME NEW c \in Clients, CacheDerived(c) \/ ReadNet(c) PROVE ChartInv'
    <2>1. req[c] \in Requests /\ req[c] # Idle
        BY <1>6, InFlight DEF CacheDerived, ReadNet
    <2>2. req' \in [Clients -> {Idle} \cup Requests]
        BY <1>6, <2>1 DEF CacheDerived, ReadNet, Requests
    <2>3. \A d \in Clients \ {c} : req'[d] = req[d]
        BY <1>6 DEF CacheDerived, ReadNet
    <2>4. /\ req'[c].due = req[c].due /\ req'[c].util = req[c].util
          /\ req'[c].at # "cache"
        BY <1>6, <2>1 DEF CacheDerived, ReadNet, Requests
    <2>5. h' \in [prevCPU : Counters \cup {None}, lastDerived : Shares \cup {None},
                  prevNet : Totals]
        BY <1>6, <2>1 DEF CacheDerived, ReadNet, Requests
    <2> QED
        BY <1>6, <2>1, <2>2, <2>3, <2>4, <2>5
           DEF CacheDerived, ReadNet, NoAnswer
<1>7. ASSUME NEW c \in Clients, Answer(c) PROVE ChartInv'
    <2>1. req[c] \in Requests /\ req[c] # Idle
        BY <1>7, InFlight DEF Answer
    <2>2. View[req[c].seen].net \in Totals
        BY <2>1 DEF Requests, Totals
    <2>3. /\ h' = [h EXCEPT !.prevNet = View[req[c].seen].net]
          /\ req' = [req EXCEPT ![c] = Idle]
          /\ answer' = [NoAnswer EXCEPT !.util = req[c].util, !.due = req[c].due,
                                        !.seen = req[c].seen]
          /\ file' = file
        BY <1>7 DEF Answer
    <2>4a. req'[c] = Idle /\ req'[c].at # "cache" /\ \A d \in Clients \ {c} : req'[d] = req[d]
        BY <2>3 DEF Idle
    <2>4. /\ answer'.util = req[c].util /\ answer'.due = req[c].due
          /\ answer'.seen = req[c].seen /\ answer'.page = None
        BY <2>3 DEF NoAnswer
    <2>5. req[c].seen \in Moments /\ req[c].util \in Shares \cup {None}
        BY <2>1 DEF Requests
    <2> QED
        BY <2>1, <2>2, <2>3, <2>4, <2>4a, <2>5
<1>8. CASE UNCHANGED vars
    BY <1>8 DEF vars
<1> QED
    BY <1>1, <1>2, <1>3, <1>4, <1>5, <1>6, <1>7, <1>8 DEF Next

LEMMA AlwaysChart == Spec => []ChartInv
BY InitChart, ChartStep, PTL DEF Spec

\* The shares of an answer split the whole, whatever the counters did and
\* however requests interleave (deriveCPUUtil, and the cache of its result).
THEOREM SharesSplit == Spec => []SharesSplitTheWhole
<1>1. ChartInv => SharesSplitTheWhole
    BY DEF ChartInv, SharesSplitTheWhole, Shares, Splits
<1> QED
    BY <1>1, AlwaysChart, PTL

\* The front end can keep one buffer per series: no two plotted series of an
\* answer have the same id and none is on two charts, whatever the devices,
\* interfaces, fans and cards (seriesID, groupForChart).
THEOREM SeriesStayApart == Spec => []SeriesKeptApart
<1>1. ChartInv => SeriesKeptApart
    BY ApartFromTypes DEF ChartInv
<1> QED
    BY <1>1, AlwaysChart, PTL

\* A page has every sample once, the power of the fans excepted, and all
\* counters of every disk of the kernel (mapNodeMetrics, supplementDiskStats).
THEOREM PageIsAccepted == Spec => []PageHasEachSampleOnce
<1>1. ChartInv => PageHasEachSampleOnce
    BY OnceFromTypes DEF ChartInv
<1> QED
    BY <1>1, AlwaysChart, PTL

\* Once an answer has shown shares to any client, no request that finds all
\* counters after one that did shows a gap, for any number of clients and however
\* their swaps of the counters and of the cache interleave (cpu_derive.go:73).
THEOREM ChartHasNoGap == Spec => []NoChartGap
<1>1. ChartInv => NoChartGap
    BY DEF ChartInv, NoChartGap
<1> QED
    BY <1>1, AlwaysChart, PTL

-----------------------------------------------------------------------------
\* What the answer to a request that saw totals t will report of an interface,
\* if the last answer saw p; and what has moved since t.
Delta(t, p, id) ==
    IF id \in DOMAIN t /\ id \in DOMAIN p THEN Grown(t[id], p[id]) ELSE 0
Since(last, t, id) == IF id \in DOMAIN t THEN Grown(last, t[id]) ELSE 0

\* The interfaces known, and their last totals.
KnownInv ==
    /\ moved \in [DOMAIN moved -> [last : Nat, bytes : Nat]]
    /\ reported \in [DOMAIN reported -> Nat]
    /\ DOMAIN reported \subseteq DOMAIN moved
    /\ DOMAIN h.prevNet \subseteq DOMAIN moved
    /\ \A id \in DOMAIN View[file].net :
          id \in DOMAIN moved /\ moved[id].last = View[file].net[id]
    /\ \A c \in Clients : req[c] # Idle =>
          DOMAIN View[req[c].seen].net \subseteq DOMAIN moved

\* As long as requests did not overlap: the bytes of an interface that were
\* reported, those the request under way will report, and those that have
\* moved since, are together at most the bytes it moved.
AccountInv ==
    ~overlap =>
       /\ \A c, d \in Clients : req[c] # Idle /\ req[d] # Idle => c = d
       /\ (\A c \in Clients : req[c] = Idle) =>
             \A id \in DOMAIN moved :
                At(reported, id) + Since(moved[id].last, h.prevNet, id)
                   <= moved[id].bytes
       /\ \A c \in Clients : req[c] # Idle =>
             /\ req[c].at = "answer" => req[c].prevNet = h.prevNet
             /\ \A id \in DOMAIN moved :
                   At(reported, id) + Delta(View[req[c].seen].net, h.prevNet, id)
                   + Since(moved[id].last, View[req[c].seen].net, id)
                      <= moved[id].bytes

LEMMA InitAccount == Init => KnownInv /\ AccountInv
<1> SUFFICES ASSUME Init PROVE KnownInv /\ AccountInv
    OBVIOUS
<1> DEFINE net == View[file].net
<1>1. /\ h.prevNet = <<>> /\ reported = <<>>
      /\ \A c \in Clients : req[c] = Idle
      /\ moved = [id \in DOMAIN net |-> [last |-> net[id], bytes |-> 0]]
    BY DEF Init
<1>2. net \in [DOMAIN net -> Nat]
    BY DEF Init
<1> HIDE DEF net
<1>3. KnownInv
    BY <1>1, <1>2 DEF KnownInv, net
<1>4. AccountInv
    BY <1>1 DEF AccountInv, At, Since
<1> QED
    BY <1>3, <1>4

\* What the totals of a request or of an answer are for an interface.
LEMMA DeltaTyped ==
    ASSUME NEW t \in Totals, NEW p \in Totals, NEW id, NEW last \in Nat
    PROVE  Delta(t, p, id) \in Nat /\ Since(last, t, id) \in Nat
BY TotalsTyped, GrownTyped DEF Delta, Since

LEMMA AtTyped ==
    ASSUME KnownInv, NEW id
    PROVE  At(reported, id) \in Nat
BY DEF KnownInv, At

\* A new file: what has moved since any earlier totals grows by no more than
\* the bytes that moved.
LEMMA RewriteSince ==
    ASSUME KnownInv, NEW t \in Totals, DOMAIN t \subseteq DOMAIN moved,
           NEW net, net \in [DOMAIN net -> Nat],
           moved' = [id \in DOMAIN moved \cup DOMAIN net |->
                       IF id \in DOMAIN net
                       THEN [last |-> net[id],
                             bytes |->
                               (IF id \notin DOMAIN moved THEN 0
                                ELSE IF net[id] < moved[id].last THEN net[id]
                                     ELSE net[id] - moved[id].last)
                               + (IF id \in DOMAIN moved THEN moved[id].bytes
                                  ELSE 0)]
                       ELSE moved[id]],
           NEW id \in DOMAIN moved'
    PROVE  /\ moved'[id].last \in Nat /\ moved'[id].bytes \in Nat
           /\ id \in DOMAIN net => moved'[id].last = net[id]
           /\ id \notin DOMAIN moved =>
                 Since(moved'[id].last, t, id) = 0
           /\ id \in DOMAIN moved =>
                 Since(moved'[id].last, t, id) - Since(moved[id].last, t, id)
                    <= moved'[id].bytes - moved[id].bytes
<1>1. CASE id \notin DOMAIN moved
    <2>1. id \in DOMAIN net /\ net[id] \in Nat /\ id \notin DOMAIN t
        BY <1>1
    <2> QED
        BY <1>1, <2>1 DEF Since
<1>2. CASE id \in DOMAIN moved
    <2>1. moved[id].last \in Nat /\ moved[id].bytes \in Nat
        BY <1>2 DEF KnownInv
    <2>2. CASE id \notin DOMAIN net
        <3>1. moved'[id] = moved[id]
            BY <1>2, <2>2
        <3>2. Since(moved[id].last, t, id) \in Nat
            BY <2>1, DeltaTyped
        <3> QED
            BY <1>2, <2>1, <2>2, <3>1, <3>2
    <2>3. CASE id \in DOMAIN net
        <3> DEFINE b == moved[id].last
                   c == net[id]
                   grown == IF c < b THEN c ELSE c - b
        <3>1. net[id] \in Nat
            BY <2>3
        <3>2. moved'[id] = [last |-> c, bytes |-> grown + moved[id].bytes]
            BY <1>2, <2>3
        <3>3. moved'[id].last = c /\ moved'[id].bytes = grown + moved[id].bytes
            BY <3>2
        <3>4. grown \in Nat
            BY <2>1, <3>1
        <3>5. Since(c, t, id) - Since(b, t, id) <= grown
            <4>1. CASE id \in DOMAIN t
                <5>1. t[id] \in Nat
                    BY <4>1, TotalsTyped
                <5>2. Grown(c, t[id]) <= Grown(b, t[id]) + grown
                    BY <2>1, <3>1, <5>1, GrownOnwards
                <5>3. Grown(c, t[id]) \in Nat /\ Grown(b, t[id]) \in Nat
                    BY <2>1, <3>1, <5>1, GrownTyped
                <5> QED
                    BY <3>4, <4>1, <5>2, <5>3 DEF Since
            <4>2. CASE id \notin DOMAIN t
                BY <3>4, <4>2 DEF Since
            <4> QED
                BY <4>1, <4>2
        <3>6. Since(c, t, id) \in Nat /\ Since(b, t, id) \in Nat
            BY <2>1, <3>1, DeltaTyped
        <3> HIDE DEF b, c, grown
        <3> QED
            BY <1>2, <2>1, <2>3, <3>1, <3>3, <3>4, <3>5, <3>6 DEF b, c
    <2> QED
        BY <2>2, <2>3
<1> QED
    BY <1>1, <1>2

LEMMA RewriteAccount ==
    ASSUME ChartInv, KnownInv, AccountInv, NEW comp \in Components, Rewrite(comp)
    PROVE  KnownInv' /\ AccountInv'
<1> DEFINE net == View[file'].net
<1>1. /\ file' \in Moments
      /\ UNCHANGED <<ready, h, req, reported, overlap, charted>>
      /\ moved' = [id \in DOMAIN moved \cup DOMAIN net |->
                     IF id \in DOMAIN net
                     THEN [last |-> net[id],
                           bytes |->
                             (IF id \notin DOMAIN moved THEN 0
                              ELSE IF net[id] < moved[id].last THEN net[id]
                                   ELSE net[id] - moved[id].last)
                             + (IF id \in DOMAIN moved THEN moved[id].bytes
                                ELSE 0)]
                     ELSE moved[id]]
    BY RewriteIs
<1>2. net \in [DOMAIN net -> Nat]
    BY <1>1
<1>3. DOMAIN moved' = DOMAIN moved \cup DOMAIN net
    BY <1>1
<1> HIDE DEF net
<1>4. ASSUME NEW t \in Totals, DOMAIN t \subseteq DOMAIN moved,
             NEW id \in DOMAIN moved'
      PROVE  /\ moved'[id].last \in Nat /\ moved'[id].bytes \in Nat
             /\ id \in DOMAIN net => moved'[id].last = net[id]
             /\ id \notin DOMAIN moved => Since(moved'[id].last, t, id) = 0
             /\ id \in DOMAIN moved =>
                   Since(moved'[id].last, t, id) - Since(moved[id].last, t, id)
                      <= moved'[id].bytes - moved[id].bytes
    BY <1>1, <1>2, <1>4, RewriteSince
<1>5. h.prevNet \in Totals /\ DOMAIN h.prevNet \subseteq DOMAIN moved
    BY DEF ChartInv, KnownInv
<1>6. ASSUME NEW c \in Clients, req[c] # Idle
      PROVE  /\ View[req[c].seen].net \in Totals
             /\ DOMAIN View[req[c].seen].net \subseteq DOMAIN moved
    BY <1>6 DEF ChartInv, KnownInv, Requests, Totals
<1>7. KnownInv'
    <2>1. moved' \in [DOMAIN moved' -> [last : Nat, bytes : Nat]]
        <3>1. \A id \in DOMAIN moved' : moved'[id] \in [last : Nat, bytes : Nat]
            <4> TAKE id \in DOMAIN moved'
            <4>1. moved'[id].last \in Nat /\ moved'[id].bytes \in Nat
                BY <1>4, <1>5
            <4>2. CASE id \in DOMAIN net
                BY <1>1, <1>3, <4>1, <4>2
            <4>3. CASE id \notin DOMAIN net
                BY <1>1, <1>3, <4>3 DEF KnownInv
            <4> QED
                BY <4>2, <4>3
        <3> QED
            BY <1>1, <1>3, <3>1
    <2>2. \A id \in DOMAIN net : id \in DOMAIN moved' /\ moved'[id].last = net[id]
        BY <1>3, <1>4, <1>5
    <2>3. reported' \in [DOMAIN reported' -> Nat]
        BY <1>1 DEF KnownInv
    <2> QED
        BY <1>1, <1>3, <2>1, <2>2, <2>3 DEF KnownInv, net
<1>8. ASSUME NEW t \in Totals, DOMAIN t \subseteq DOMAIN moved,
             NEW due, NEW id \in DOMAIN moved', due \in Nat,
             id \notin DOMAIN moved => due = 0,
             id \in DOMAIN moved =>
                due + Since(moved[id].last, t, id) <= moved[id].bytes
      PROVE  due + Since(moved'[id].last, t, id) <= moved'[id].bytes
    <2>1. /\ moved'[id].last \in Nat /\ moved'[id].bytes \in Nat
          /\ Since(moved'[id].last, t, id) \in Nat
        BY <1>4, <1>8, DeltaTyped
    <2>2. CASE id \notin DOMAIN moved
        BY <1>4, <1>8, <2>1, <2>2
    <2>3. CASE id \in DOMAIN moved
        <3>1. moved[id].last \in Nat /\ moved[id].bytes \in Nat
            BY <2>3 DEF KnownInv
        <3>2. Since(moved[id].last, t, id) \in Nat
            BY <3>1, DeltaTyped
        <3>3. Since(moved'[id].last, t, id) - Since(moved[id].last, t, id)
                 <= moved'[id].bytes - moved[id].bytes
            BY <1>4, <1>8, <2>3
        <3> QED
            BY <1>8, <2>1, <2>3, <3>1, <3>2, <3>3
    <2> QED
        BY <2>2, <2>3
<1>9. AccountInv'
    <2> SUFFICES ASSUME ~overlap'
                 PROVE  /\ \A c, d \in Clients :
                              req'[c] # Idle /\ req'[d] # Idle => c = d
                        /\ (\A c \in Clients : req'[c] = Idle) =>
                              \A id \in DOMAIN moved' :
                                 At(reported', id)
                                 + Since(moved'[id].last, h'.prevNet, id)
                                    <= moved'[id].bytes
                        /\ \A c \in Clients : req'[c] # Idle =>
                              /\ req'[c].at = "answer" => req'[c].prevNet = h'.prevNet
                              /\ \A id \in DOMAIN moved' :
                                    At(reported', id)
                                    + Delta(View[req'[c].seen].net, h'.prevNet, id)
                                    + Since(moved'[id].last, View[req'[c].seen].net, id)
                                       <= moved'[id].bytes
        BY DEF AccountInv
    <2>1. ~overlap
        BY <1>1
    <2>2. \A id : At(reported, id) \in Nat
        BY AtTyped
    <2>3. ASSUME NEW id, id \notin DOMAIN moved PROVE At(reported, id) = 0
        BY <2>3 DEF KnownInv, At
    <2>4. ASSUME \A c \in Clients : req[c] = Idle, NEW id \in DOMAIN moved'
          PROVE  At(reported, id) + Since(moved'[id].last, h.prevNet, id)
                    <= moved'[id].bytes
        BY <1>5, <1>8, <2>1, <2>2, <2>3, <2>4 DEF AccountInv
    <2>5. ASSUME NEW c \in Clients, req[c] # Idle, NEW id \in DOMAIN moved'
          PROVE  At(reported, id) + Delta(View[req[c].seen].net, h.prevNet, id)
                    + Since(moved'[id].last, View[req[c].seen].net, id)
                    <= moved'[id].bytes
        <3> DEFINE t == View[req[c].seen].net
                   delta == Delta(t, h.prevNet, id)
        <3>1. t \in Totals /\ DOMAIN t \subseteq DOMAIN moved
            BY <1>6, <2>5
        <3>2. delta \in Nat
            BY <1>5, <3>1, DeltaTyped
        <3>3. id \notin DOMAIN moved => delta = 0
            BY <1>5 DEF Delta
        <3>4. id \in DOMAIN moved =>
                 At(reported, id) + delta + Since(moved[id].last, t, id)
                    <= moved[id].bytes
            BY <2>1, <2>5 DEF AccountInv
        <3> HIDE DEF t, delta
        <3>5. At(reported, id) + delta \in Nat
            BY <2>2, <3>2
        <3>6. At(reported, id) + delta + Since(moved'[id].last, t, id)
                 <= moved'[id].bytes
            BY <1>8, <2>2, <2>3, <3>1, <3>2, <3>3, <3>4, <3>5
        <3> QED
            BY <3>6 DEF t, delta
    <2>6. /\ \A c, d \in Clients : req[c] # Idle /\ req[d] # Idle => c = d
          /\ \A c \in Clients : req[c] # Idle /\ req[c].at = "answer" =>
                req[c].prevNet = h.prevNet
        BY <2>1 DEF AccountInv
    <2>7. req' = req /\ reported' = reported /\ h' = h
        BY <1>1
    <2> QED
        BY <2>4, <2>5, <2>6, <2>7
<1> QED
    BY <1>7, <1>9

\* A request starts where the accounts stand.
LEMMA RequestAccount ==
    ASSUME ChartInv, KnownInv, AccountInv, NEW c \in Clients, Request(c)
    PROVE  KnownInv' /\ AccountInv'
<1> DEFINE t == View[file].net
           new == [at |-> "cpu", seen |-> file, util |-> None, due |-> FALSE,
                   prevNet |-> <<>>]
<1>1. /\ req[c] = Idle /\ req' = [req EXCEPT ![c] = new]
      /\ overlap' = (overlap \/ \E d \in Clients : req[d] # Idle)
      /\ UNCHANGED <<file, ready, h, rewrites, moved, reported>>
    BY DEF Request
<1>2. /\ req'[c].at = "cpu" /\ req'[c].seen = file
      /\ \A d \in Clients \ {c} : req'[d] = req[d]
    BY <1>1 DEF ChartInv
<1>3. KnownInv'
    BY <1>1, <1>2 DEF KnownInv
<1>4. t \in Totals /\ h.prevNet \in Totals
    BY DEF ChartInv, Totals
<1> HIDE DEF new
<1>5. ASSUME \A d \in Clients : req[d] = Idle, ~overlap, NEW id \in DOMAIN moved
      PROVE  At(reported, id) + Delta(t, h.prevNet, id)
                + Since(moved[id].last, t, id) <= moved[id].bytes
    <2>1. moved[id].last \in Nat /\ moved[id].bytes \in Nat
        BY DEF KnownInv
    <2>2. At(reported, id) \in Nat /\ Since(moved[id].last, h.prevNet, id) \in Nat
        BY <1>4, <2>1, AtTyped, DeltaTyped
    <2>3. At(reported, id) + Since(moved[id].last, h.prevNet, id) <= moved[id].bytes
        BY <1>5 DEF AccountInv
    <2>4. CASE id \in DOMAIN t
        <3>1. moved[id].last = t[id]
            BY <2>4 DEF KnownInv
        <3>2. Since(moved[id].last, t, id) = 0
            BY <2>1, <2>4, <3>1 DEF Since, Grown
        <3>3. Delta(t, h.prevNet, id) = Since(moved[id].last, h.prevNet, id)
            BY <2>4, <3>1 DEF Delta, Since
        <3> HIDE DEF t
        <3> QED
            BY <2>1, <2>2, <2>3, <3>2, <3>3
    <2>5. CASE id \notin DOMAIN t
        <3>1. Delta(t, h.prevNet, id) = 0 /\ Since(moved[id].last, t, id) = 0
            BY <2>5 DEF Delta, Since
        <3> HIDE DEF t
        <3> QED
            BY <2>1, <2>2, <2>3, <3>1
    <2> QED
        BY <2>4, <2>5
<1>6. AccountInv'
    <2>1. CASE overlap'
        BY <2>1 DEF AccountInv
    <2>2. CASE ~overlap'
        <3>1. ~overlap /\ \A d \in Clients : req[d] = Idle
            BY <1>1, <2>2
        <3>2. req'[c] # Idle /\ \A d \in Clients \ {c} : req'[d] = Idle
            BY <1>2, <3>1 DEF Idle
        <3> QED
            BY <1>1, <1>2, <1>5, <3>1, <3>2 DEF AccountInv
    <2> QED
        BY <2>1, <2>2
<1> QED
    BY <1>3, <1>6

\* An answer reports what is due and closes the account.
LEMMA AnswerAccount ==
    ASSUME ChartInv, KnownInv, AccountInv, NEW c \in Clients, Answer(c)
    PROVE  KnownInv' /\ AccountInv'
<1> DEFINE t == View[req[c].seen].net
           p == req[c].prevNet
<1>1. /\ req[c].at = "answer"
      /\ h' = [h EXCEPT !.prevNet = t]
      /\ reported' = Plus(reported, NetDeltas(t, p))
      /\ req' = [req EXCEPT ![c] = Idle]
      /\ UNCHANGED <<file, ready, rewrites, moved, overlap>>
    BY DEF Answer
<1>2. req[c] \in Requests /\ req[c] # Idle
    BY <1>1, InFlight
<1>3. t \in Totals /\ p \in Totals /\ DOMAIN t \subseteq DOMAIN moved
    BY <1>2 DEF KnownInv, Requests, Totals
<1>4. /\ h'.prevNet = t /\ req'[c] = Idle
      /\ \A d \in Clients \ {c} : req'[d] = req[d]
    BY <1>1 DEF ChartInv
<1> HIDE DEF t, p
<1>5. /\ DOMAIN reported' = DOMAIN reported \cup DOMAIN t
      /\ \A id \in DOMAIN reported' :
            reported'[id] = At(reported, id) + Delta(t, p, id)
    <2>1. DOMAIN NetDeltas(t, p) = DOMAIN t
        BY DEF NetDeltas
    <2>2. \A id : At(NetDeltas(t, p), id) = Delta(t, p, id)
        BY DEF NetDeltas, At, Delta
    <2> QED
        BY <1>1, <2>1, <2>2 DEF Plus
<1>6. \A id : At(reported', id) = At(reported, id) + Delta(t, p, id)
    <2> TAKE id
    <2>1. CASE id \in DOMAIN reported'
        BY <1>5, <2>1 DEF At
    <2>2. CASE id \notin DOMAIN reported'
        BY <1>5, <2>2 DEF At, Delta
    <2> QED
        BY <2>1, <2>2
<1>7. KnownInv'
    <2>1. \A id \in DOMAIN reported' : reported'[id] \in Nat
        BY <1>3, <1>5, AtTyped, DeltaTyped
    <2>2. reported' \in [DOMAIN reported' -> Nat]
        <3>1. reported' = [id \in DOMAIN reported' |-> reported'[id]]
            BY <1>1 DEF Plus
        <3> QED
            BY <2>1, <3>1
    <2> QED
        BY <1>1, <1>3, <1>4, <1>5, <2>2 DEF KnownInv
<1>8. AccountInv'
    <2>1. CASE overlap'
        BY <2>1 DEF AccountInv
    <2>2. CASE ~overlap'
        <3>1. ~overlap
            BY <1>1, <2>2
        <3>2. \A d \in Clients \ {c} : req[d] = Idle
            BY <1>2, <3>1 DEF AccountInv
        <3>3. \A d \in Clients : req'[d] = Idle
            BY <1>4, <3>2
        <3>4. p = h.prevNet
            BY <1>1, <1>2, <3>1 DEF AccountInv, p
        <3>5. \A id \in DOMAIN moved :
                 At(reported, id) + Delta(t, p, id) + Since(moved[id].last, t, id)
                    <= moved[id].bytes
            BY <1>2, <3>1, <3>4 DEF AccountInv, t
        <3>6. \A id \in DOMAIN moved' :
                 At(reported', id) + Since(moved'[id].last, h'.prevNet, id)
                    <= moved'[id].bytes
            BY <1>1, <1>4, <1>6, <3>5
        <3> QED
            BY <3>3, <3>6 DEF AccountInv
    <2> QED
        BY <2>1, <2>2
<1> QED
    BY <1>7, <1>8

\* The other steps of a request change neither totals nor accounts.
LEMMA RestAccount ==
    ASSUME ChartInv, KnownInv, AccountInv, NEW c \in Clients,
           SwapCPU(c) \/ CacheDerived(c) \/ ReadNet(c)
    PROVE  KnownInv' /\ AccountInv'
<1>1. /\ UNCHANGED <<file, ready, rewrites, moved, reported, overlap, charted>>
      /\ h'.prevNet = h.prevNet
      /\ req[c] \in Requests /\ req'[c] # Idle /\ req'[c].seen = req[c].seen
      /\ req'[c].at = "answer" => req'[c].prevNet = h.prevNet
      /\ \A d \in Clients \ {c} : req'[d] = req[d]
    <2>1. CASE SwapCPU(c)
        <3>1. PICK at \in {"cache", "net"}, util \in Shares \cup {None},
                   due \in BOOLEAN, prev \in Counters \cup {None} :
                 SwapsTo(c, at, util, due, prev)
            BY <2>1, SwapIs
        <3> QED
            BY <3>1 DEF SwapsTo, ChartInv, Requests, Idle
    <2>2. CASE CacheDerived(c) \/ ReadNet(c)
        <3>1. req[c] \in Requests
            BY <2>2, InFlight DEF CacheDerived, ReadNet
        <3> QED
            BY <2>2, <3>1 DEF CacheDerived, ReadNet, ChartInv, Requests, Idle
    <2> QED
        BY <2>1, <2>2
<1>2. req[c] # Idle
    BY <1>1 DEF Requests, Idle
<1>3. \A d \in Clients : (req'[d] # Idle <=> req[d] # Idle)
                         /\ (req[d] # Idle => req'[d].seen = req[d].seen)
    BY <1>1, <1>2
<1>4. KnownInv'
    BY <1>1, <1>3 DEF KnownInv
<1>5. AccountInv'
    BY <1>1, <1>3 DEF AccountInv
<1> QED
    BY <1>4, <1>5

LEMMA AccountStep ==
    ASSUME ChartInv, KnownInv, AccountInv, [Next]_vars
    PROVE  KnownInv' /\ AccountInv'
<1>1. CASE Scrape \/ GlobalWritten \/ UNCHANGED vars
    BY <1>1 DEF Scrape, GlobalWritten, vars, KnownInv, AccountInv
<1> QED
    BY <1>1, RewriteAccount, RequestAccount, AnswerAccount, RestAccount DEF Next

\* Bytes are reported once at most, as long as requests do not overlap: through
\* counters that start again, interfaces that come and go, and any number of
\* clients and answers (deriveNetworkDelta and the critical sections around it).
THEOREM BytesReportedOnce == Spec => []NothingCountedTwice
<1> DEFINE Inv == ChartInv /\ KnownInv /\ AccountInv
<1>1. Init => Inv
    BY InitChart, InitAccount
<1>2. Inv /\ [Next]_vars => Inv'
    BY ChartStep, AccountStep
<1>3. Inv => NothingCountedTwice
    <2> SUFFICES ASSUME Inv, ~overlap, NEW id \in DOMAIN reported
                 PROVE  reported[id] <= moved[id].bytes
        BY DEF NothingCountedTwice
    <2>1. /\ id \in DOMAIN moved /\ At(reported, id) = reported[id]
          /\ reported[id] \in Nat
          /\ moved[id].last \in Nat /\ moved[id].bytes \in Nat
        BY DEF KnownInv, At
    <2>2. CASE \A c \in Clients : req[c] = Idle
        <3>1. Since(moved[id].last, h.prevNet, id) \in Nat
            BY <2>1, DeltaTyped DEF ChartInv
        <3>2. reported[id] + Since(moved[id].last, h.prevNet, id) <= moved[id].bytes
            BY <2>1, <2>2 DEF AccountInv
        <3> QED
            BY <2>1, <3>1, <3>2
    <2>3. ASSUME NEW c \in Clients, req[c] # Idle
          PROVE  reported[id] <= moved[id].bytes
        <3> DEFINE t == View[req[c].seen].net
                   due == Delta(t, h.prevNet, id)
                   since == Since(moved[id].last, t, id)
        <3>1. t \in Totals /\ h.prevNet \in Totals
            BY <2>3 DEF ChartInv, Requests, Totals
        <3>2. due \in Nat /\ since \in Nat
            BY <2>1, <3>1, DeltaTyped
        <3>3. reported[id] + due + since <= moved[id].bytes
            BY <2>1, <2>3 DEF AccountInv
        <3> HIDE DEF due, since
        <3> QED
            BY <2>1, <3>2, <3>3
    <2> QED
        BY <2>2, <2>3
<1> QED
    BY <1>1, <1>2, <1>3, PTL DEF Spec
=============================================================================
