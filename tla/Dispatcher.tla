----------------------------- MODULE Dispatcher -----------------------------
(***************************************************************************)
(* The fan-out of features/faultsub/dispatcher.go: Dispatch records an     *)
(* event in the ring of EventRing and starts a goroutine of                *)
(* WebhookDelivery when the subscription is to get it, which FaultSub      *)
(* decides and is open here.  Poll clients read the ring while goroutines  *)
(* deliver.                                                                *)
(***************************************************************************)
EXTENDS EventRing

CONSTANTS MaxEvents,  \* bound: events handed off
          Retry       \* Dispatcher.retry

ASSUME DispatcherAssumption == MaxEvents \in Nat /\ Retry \in Nat

VARIABLES state, attempts, expired, received, acked

Webhook == INSTANCE WebhookDelivery

delivery == <<state, attempts, expired, received, acked>>

DispatcherInit == RingInit /\ Webhook!Init

\* Dispatch: the record, then a delivery if ShouldFire says so.
Dispatch(ev) ==
    /\ RingRecord(ev)
    /\ UNCHANGED delivery \/ \E d \in Webhook!Deliveries : Webhook!Spawn(d)

Deliver(d) ==
    /\ Webhook!DeliveryStep(d) \/ Webhook!ContextExpires(d)
    /\ UNCHANGED ring

DispatcherNext ==
    \/ \E ev \in Events : Dispatch(ev)
    \/ \E d \in Webhook!Deliveries : Deliver(d)

\* http.Client has a timeout and Sleep returns, so a goroutine always gets on;
\* events need not come.
DispatcherSpec ==
    /\ DispatcherInit
    /\ [][DispatcherNext]_<<ring, delivery>>
    /\ \A d \in Webhook!Deliveries :
          WF_delivery(Webhook!DeliveryStep(d) /\ UNCHANGED ring)

-----------------------------------------------------------------------------
\* An event the subscriber never got was tried 1 + Retry times first, and no
\* goroutine pushes more often than that (dispatcher.go:89-100).
DroppedOnlyAfterAllAttempts == Webhook!DroppedOnlyAfterAllAttempts

\* Once a push was acknowledged, whatever the network does, the endpoint gets
\* no further copy of that event (dispatcher.go:101).
NoCopyAfterAck == Webhook!NoCopyAfterAck

\* The pushes of an event are counted right whatever the network does: as many
\* as there are attempts before it is dropped, none after the one that was
\* acknowledged (dispatcher.go:89-101).
PushesCounted ==
    [][DroppedOnlyAfterAllAttempts']_<<ring, delivery>> /\ NoCopyAfterAck

\* A hung or refusing endpoint never keeps a delivery goroutine forever,
\* whatever else is dispatched meanwhile.
DeliveryEnds == Webhook!DeliveryEnds
=============================================================================
