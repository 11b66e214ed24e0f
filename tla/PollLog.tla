------------------------------ MODULE PollLog ------------------------------
(***************************************************************************)
(* The abstract specification of the retained events: a poll subscriber    *)
(* always reads the last EventBuf recorded events, oldest first.           *)
(***************************************************************************)
EXTENDS RecentEvents

CONSTANT Events

VARIABLE recent

Init == recent = <<>>

Record(ev) == recent' = Retain(recent, ev)

Next == \E ev \in Events : Record(ev)

Spec == Init /\ [][Next]_recent
=============================================================================
