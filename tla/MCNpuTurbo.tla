---------------------------- MODULE MCNpuTurbo ----------------------------
(***************************************************************************)
(* Constants of the NpuTurbo run.                                          *)
(***************************************************************************)
EXTENDS NpuTurbo

CONSTANTS n1, n2
MCCards == {n1, n2}

\* Not listed; slow but the gain is lost in rounding; one step up; capped.
MCScores == {0, 1010, 1028, 1100}
=============================================================================
