----------------------------- MODULE MCCpuGov -----------------------------
(***************************************************************************)
(* Constants of the CpuGov runs.                                           *)
(***************************************************************************)
EXTENDS CpuGov

FullRange == {[min |-> InfoMin, max |-> InfoMax]}
SomeRanges == {[min |-> InfoMin, max |-> InfoMax], [min |-> 2, max |-> 2]}
=============================================================================
