----------------------------- MODULE MCCpuRunner -----------------------------
(***************************************************************************)
(* Two servers and two clients around one path; outputs up to one chunk    *)
(* beyond the limit of one.                                                *)
(***************************************************************************)
EXTENDS CpuRunner, TLC
=============================================================================
