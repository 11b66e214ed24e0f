------------------------------- MODULE MCDfee -------------------------------
(***************************************************************************)
(* Two clients, two interfaces, CPU readings of which one goes back and    *)
(* one lacks a counter, and one metric of every label shape.               *)
(***************************************************************************)
EXTENDS Dfee, TLC

CONSTANTS c1, c2, none

MCClients == {c1, c2}
Polling == Permutations(MCClients)

M(comp, name, labels, value) ==
    [comp |-> comp, name |-> name, labels |-> labels, value |-> value]

Reading(t) ==
    {M("cpu", n, [core |-> "total"], t[ModeOf[n]]) : n \in DOMAIN ModeOf}
    \cup {M("cpu", "user_time", [core |-> "0"], 9)}

T0 == [m \in Modes |-> 1]
T1 == [T0 EXCEPT !["idle"] = 3, !["user"] = 2, !["irq"] = 2]
T2 == [T1 EXCEPT !["iowait"] = 0, !["softirq"] = 2, !["steal"] = 2]

CpuFiles == {Reading(T0), Reading(T1), Reading(T2),
             {m \in Reading(T2) : m.name # "steal_time"}}

Rx(i, v) == M("network", "rx_bytes_total", [interface |-> i], v)
NetFiles == {{Rx("e0", 0)}, {Rx("e0", 2)}, {Rx("e0", 1), Rx("e1", 1)}}

OtherFiles ==
    {{M("disk", "iops", [device |-> d, direction |-> dir], 1) :
         d \in {"sda", "sdb"}, dir \in {"read", "write"}}
     \cup {M("disk", "read_latency", [device |-> "sda"], 1),
           M("disk", "read_sectors_total", [device |-> "sda"], 1),
           M("disk", "written_sectors_total", [device |-> "sda"], 1),
           M("disk", "read_time_total", [device |-> "sda"], 1),
           M("disk", "write_time_total", [device |-> "sda"], 1),
           M("memory", "usage_detail", [field |-> "total"], 1),
           M("memory", "usage_detail", [field |-> "used"], 1),
           M("memory", "swap_detail", [field |-> "total"], 1),
           M("cpu", "load_average", [interval |-> "1m"], 1),
           M("cpu", "load_average", [interval |-> "5m"], 1),
           M("cpu", "power", [cpu |-> "1", sensor |-> "CPU1 Pwr"], 1),
           M("cpu", "power", [cpu |-> "2", sensor |-> "CPU2 Pwr"], 1),
           M("chassis", "power", <<>>, 1),
           M("chassis", "fan_power", [fan |-> "1"], 1),
           M("chassis", "fan_power", [fan |-> "2"], 1),
           M("chassis", "fan_speed", [fan |-> "1", direction |-> "F"], 1),
           M("chassis", "fan_speed", [fan |-> "1", direction |-> "R"], 1),
           M("npu", "power_draw", [npu_id |-> "0", chip_id |-> "0"], 1),
           M("npu", "power_draw", [npu_id |-> "0", chip_id |-> "1"], 1),
           M("npu", "hbm_temp", [npu_id |-> "0", chip_id |-> "1"], 1)}}

MCFiles == [cpu |-> SetToSeq(CpuFiles), network |-> SetToSeq(NetFiles),
            other |-> SetToSeq(OtherFiles)]
=============================================================================
