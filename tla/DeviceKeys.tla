---------------------------- MODULE DeviceKeys ----------------------------
(***************************************************************************)
(* How a KPI sample names the devices it has values of (KPIMapper.Extract  *)
(* and deviceKey, features/stragglerout/sample.go).  A reading carries the *)
(* numbers of its labels: the card (npu_id), the chip on it (chip_id) and  *)
(* the device (device_id), where the last two may be missing.  A reading   *)
(* without npu_id and device_id is skipped, so none is here; npu_id is a   *)
(* number, as every collector writes it.                                   *)
(***************************************************************************)
EXTENDS Integers, FiniteSets, FiniteSetsExt

NoLabel == -1

Readings == [card : Nat, chip : Nat \cup {NoLabel}, dev : Nat \cup {NoLabel}]

\* chips_per_card: the largest chip number ever seen, plus one.
Stride(maxChip) == maxChip + 1

\* deviceKey: the device label; else the card, for a reading of the whole
\* card or before any chip number is known; else the number npu-smi gives the
\* chip when every card has as many slots as the widest.
DeviceKey(r, stride) ==
    IF r.dev # NoLabel THEN r.dev
    ELSE IF r.chip = NoLabel \/ stride <= 0 THEN r.card
    ELSE r.card * stride + r.chip

\* MUTANT of Widest: the stride of this batch alone.
WidestNow(maxChip, readings) == Max({-1} \cup {r.chip : r \in readings})

\* The running maximum over the batches; it never shrinks.
Widest(maxChip, readings) == Max({maxChip} \cup {r.chip : r \in readings})

\* The keys of a sample, each with a reading whose value it holds.
Keyed(maxChip, readings) ==
    {<<DeviceKey(r, Stride(Widest(maxChip, readings))), r>> : r \in readings}

\* What a reading is about: a device named by its label, a card, or a chip.
Level(r) ==
    IF r.dev # NoLabel THEN "device"
    ELSE IF r.chip = NoLabel THEN "card" ELSE "chip"

Subject(r) ==
    CASE Level(r) = "device" -> <<r.dev>>
      [] Level(r) = "card" -> <<r.card>>
      [] Level(r) = "chip" -> <<r.card, r.chip>>
=============================================================================
