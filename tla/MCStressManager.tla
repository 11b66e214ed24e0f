-------------------------- MODULE MCStressManager --------------------------
(***************************************************************************)
(* Constants of the StressManager runs.                                    *)
(***************************************************************************)
EXTENDS StressManager

\* Failures come from the deadline, which may leave a benchmark unhealthy.
Pass == {"healthy"}
=============================================================================
