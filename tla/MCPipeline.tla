---------------------------- MODULE MCPipeline ----------------------------
(***************************************************************************)
(* Constants of the Pipeline run: two cards of two chips, and the readings *)
(* of the cards as such, all there, or only those of the second card with  *)
(* its first chip.                                                         *)
(***************************************************************************)
EXTENDS Pipeline, TLC

CONSTANTS cpu, npu

OneAndTwo == (cpu :> 1) @@ (npu :> 2)

OfChip(card, chip) == [card |-> card, chip |-> chip, dev |-> NoLabel]
OfCard(card) == OfChip(card, NoLabel)

TwoCards ==
    {{OfChip(card, chip) : card \in 0..1, chip \in 0..1} \cup {OfCard(0), OfCard(1)},
     {OfChip(1, 0), OfCard(1)}}
=============================================================================
