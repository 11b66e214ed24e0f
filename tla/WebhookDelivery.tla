-------------------------- MODULE WebhookDelivery --------------------------
(***************************************************************************)
(* The delivery goroutines of one webhook subscription                     *)
(* (features/faultsub/dispatcher.go deliverWebhook, webhook.go Push).      *)
(* Dispatch starts one goroutine per event it hands off, without a queue   *)
(* and without waiting for earlier ones; each pushes up to 1 + Retry times *)
(* with a pause in between, under one context of 30 s.  A push whose       *)
(* answer is lost, late or not 2xx is an error although the endpoint may   *)
(* have taken the event.                                                   *)
(***************************************************************************)
EXTENDS Integers, Sequences

CONSTANTS MaxEvents,  \* bound: events handed off
          Retry       \* Dispatcher.retry

Deliveries == 1..MaxEvents   \* the k-th hand-off's goroutine

VARIABLES
    state,     \* where the goroutine is
    attempts,  \* pushes it has made
    expired,   \* its 30 s context is over
    received,  \* what the endpoint took, in order
    acked      \* history: a push of this event returned no error

vars == <<state, attempts, expired, received, acked>>

Init ==
    /\ state = [d \in Deliveries |-> "absent"]
    /\ attempts = [d \in Deliveries |-> 0]
    /\ expired = [d \in Deliveries |-> FALSE]
    /\ received = <<>>
    /\ acked = [d \in Deliveries |-> FALSE]

\* go d.deliverWebhook(...): hand-offs are made in order.
Spawn(d) ==
    /\ state[d] = "absent"
    /\ d > 1 => state[d - 1] # "absent"
    /\ state' = [state EXCEPT ![d] = "pushing"]
    /\ UNCHANGED <<attempts, expired, received, acked>>

\* The endpoint takes the event and its 2xx answer arrives in time.
PushSucceeds(d) ==
    /\ state[d] = "pushing"
    /\ ~expired[d]
    /\ attempts' = [attempts EXCEPT ![d] = @ + 1]
    /\ received' = Append(received, d)
    /\ acked' = [acked EXCEPT ![d] = TRUE]
    /\ state' = [state EXCEPT ![d] = "delivered"]
    /\ UNCHANGED expired

\* MUTANT of AfterFailure: the first attempt counts as a retry.
AfterFailureOnceLess(d) ==
    /\ attempts' = [attempts EXCEPT ![d] = @ + 1]
    /\ state' = [state EXCEPT ![d] =
                    IF attempts[d] + 1 < Retry THEN "backoff" ELSE "dropped"]
    /\ UNCHANGED <<expired, acked>>

\* Push returned an error in attempt attempts[d] + 1: back off, or give up.
AfterFailure(d) ==
    /\ attempts' = [attempts EXCEPT ![d] = @ + 1]
    /\ state' = [state EXCEPT ![d] =
                    IF attempts[d] + 1 < 1 + Retry THEN "backoff" ELSE "dropped"]
    /\ UNCHANGED <<expired, acked>>

\* The endpoint takes the event but the answer is an error or never arrives.
PushAnswerLost(d) ==
    /\ state[d] = "pushing"
    /\ ~expired[d]
    /\ received' = Append(received, d)
    /\ AfterFailure(d)

\* The request never reaches the endpoint, always so under an expired context.
PushFails(d) ==
    /\ state[d] = "pushing"
    /\ UNCHANGED received
    /\ AfterFailure(d)

\* MUTANT of BackoffEnds: the pause waits for the context as well and never
\* ends once that is over.
BackoffEndsInTime(d) ==
    /\ state[d] = "backoff"
    /\ ~expired[d]
    /\ state' = [state EXCEPT ![d] = "pushing"]
    /\ UNCHANGED <<attempts, expired, received, acked>>

\* time.Sleep; it does not look at the context.
BackoffEnds(d) ==
    /\ state[d] = "backoff"
    /\ state' = [state EXCEPT ![d] = "pushing"]
    /\ UNCHANGED <<attempts, expired, received, acked>>

ContextExpires(d) ==
    /\ state[d] \in {"pushing", "backoff"}
    /\ ~expired[d]
    /\ expired' = [expired EXCEPT ![d] = TRUE]
    /\ UNCHANGED <<state, attempts, received, acked>>

DeliveryStep(d) ==
    PushSucceeds(d) \/ PushAnswerLost(d) \/ PushFails(d) \/ BackoffEnds(d)

Next == \E d \in Deliveries : Spawn(d) \/ DeliveryStep(d) \/ ContextExpires(d)

\* http.Client has a timeout and Sleep returns, so a goroutine always gets on.
Spec == Init /\ [][Next]_vars /\ \A d \in Deliveries : WF_vars(DeliveryStep(d))

-----------------------------------------------------------------------------
Copies(d) == {i \in DOMAIN received : received[i] = d}

\* The values the variables take.
TypeOK ==
    /\ state \in [Deliveries ->
            {"absent", "pushing", "backoff", "delivered", "dropped"}]
    /\ attempts \in [Deliveries -> 0..(1 + Retry)]
    /\ expired \in [Deliveries -> BOOLEAN]
    /\ received \in Seq(Deliveries)
    /\ acked \in [Deliveries -> BOOLEAN]

\* Once a push was acknowledged, whatever the network does, the endpoint gets
\* no further copy of that event (dispatcher.go:101).
NoCopyAfterAck ==
    [][\A d \in Deliveries :
          acked[d] =>
             \A i \in (DOMAIN received') \ (DOMAIN received) : received'[i] # d]_vars

\* An event the subscriber never got was tried 1 + Retry times first, and no
\* goroutine pushes more often than that (dispatcher.go:89-100).
DroppedOnlyAfterAllAttempts ==
    \A d \in Deliveries :
        /\ state[d] = "dropped" => attempts[d] = 1 + Retry
        /\ state[d] \in {"pushing", "backoff"} => attempts[d] < 1 + Retry

\* A hung or refusing endpoint never keeps a delivery goroutine forever.
DeliveryEnds ==
    \A d \in Deliveries :
        state[d] = "pushing" ~> state[d] \in {"delivered", "dropped"}
=============================================================================
