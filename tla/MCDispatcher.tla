--------------------------- MODULE MCDispatcher ---------------------------
(***************************************************************************)
(* Constants of the Dispatcher run.                                        *)
(***************************************************************************)
EXTENDS Dispatcher, TLC

CONSTANTS e1, e2
MCEvents == {e1, e2}
=============================================================================
