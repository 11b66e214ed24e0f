----------------------------- MODULE EventRing -----------------------------
(***************************************************************************)
(* The ring buffer of features/faultsub/dispatcher.go: a slice of          *)
(* EventBuf slots, the next write index and the number of stored events.   *)
(* record and Events run under bufMu, so each is one step; Events changes  *)
(* nothing and is the state function Contents.                             *)
(***************************************************************************)
EXTENDS RecentEvents

CONSTANTS Events,  \* the events that can be recorded
          Zero     \* the zero FaultEvent of a slot never written

VARIABLES buffer, bufHead, count

ring == <<buffer, bufHead, count>>

\* NewDispatcher.
RingInit ==
    /\ buffer = [i \in 0..(EventBuf - 1) |-> Zero]
    /\ bufHead = 0
    /\ count = 0

\* record; with no retention it returns before it takes the lock.
RingRecord(ev) ==
    /\ EventBuf # 0
    /\ buffer' = [buffer EXCEPT ![bufHead] = ev]
    /\ bufHead' = (bufHead + 1) % EventBuf
    /\ count' = IF count < EventBuf THEN count + 1 ELSE count

RingNext == \E ev \in Events : RingRecord(ev)

RingSpec == RingInit /\ [][RingNext]_ring

\* MUTANT of Start: reads from the first slot, as if the buffer never wrapped.
StartAtZero == 0

\* Events without filters: count slots from the oldest on.
Start == (bufHead - count + EventBuf) % EventBuf
Contents == [i \in 1..count |-> buffer[(Start + i - 1) % EventBuf]]

-----------------------------------------------------------------------------
\* The values the variables take.
RingTypeOK ==
    /\ buffer \in [0..(EventBuf - 1) -> Events \cup {Zero}]
    /\ EventBuf # 0 => bufHead \in 0..(EventBuf - 1)
    /\ count \in 0..EventBuf

\* No read returns a slot that was never written (dispatcher.go:134).
OnlyRecorded == \A i \in DOMAIN Contents : Contents[i] \in Events

Poll == INSTANCE PollLog WITH recent <- Contents

\* The ring buffer keeps what PollLog promises: after any number of records,
\* across every wrap of bufHead, Events returns the last EventBuf events in
\* the order they were recorded (dispatcher.go:121-147).
ImplementsPollLog == Poll!Spec
=============================================================================
