--------------------------- MODULE RecentEvents ---------------------------
(***************************************************************************)
(* What the Dispatcher's retained events promise to a poll subscriber: the *)
(* last EventBuf recorded events, oldest first (features/faultsub/         *)
(* dispatcher.go, record and Events without filters).  EventRing is the    *)
(* circular buffer that implements it.                                     *)
(***************************************************************************)
EXTENDS Integers, Sequences

CONSTANT EventBuf  \* Dispatcher.bufSize; 0 = no retention

ASSUME EventBufAssumption == EventBuf \in Nat

\* The retained events after one more is recorded.
Retain(s, ev) ==
    IF EventBuf = 0 THEN s
    ELSE IF Len(s) < EventBuf THEN Append(s, ev)
    ELSE Append(Tail(s), ev)
=============================================================================
