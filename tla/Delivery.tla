------------------------------ MODULE Delivery ------------------------------
(***************************************************************************)
(* What the engine is promised by the platform that invokes it: every      *)
(* asynchronous invocation Lambda accepts is run, retried while it fails   *)
(* and attempts remain, and ends either done or in the dead letter queue.  *)
(* The promise is configured in infrastructure/lambda.tf and is the        *)
(* abstract specification the modules of the rules implement: there,       *)
(* "running" is unfolded into the steps of a handler.                      *)
(*                                                                         *)
(* A delivery is one accepted invocation.  EventBridge may accept the same *)
(* CloudTrail record twice; the two are then two deliveries.               *)
(***************************************************************************)
EXTENDS Naturals, FiniteSets

CONSTANTS
  Deliveries,   (* Asynchronous invocations that may be accepted.           *)
  MaxAttempts,  (* 1 + maximum_retry_attempts of lambda.tf, positive.       *)
  Concurrency   (* lambda_reserved_concurrency; "no reservation" is any     *)
                (* number that Deliveries cannot exceed; variables.tf       *)
                (* refuses 0, which would disable the function.             *)

VARIABLES
  status,   (* Where each delivery is.                                     *)
  attempts  (* How many times it has been started.                         *)

deliveryVars == <<status, attempts>>

Status == {"unsent", "queued", "running", "done", "dlq"}

Running == {d \in Deliveries : status[d] = "running"}

Init ==
  /\ status = [d \in Deliveries |-> "unsent"]
  /\ attempts = [d \in Deliveries |-> 0]

(* EventBridge matched a record and Lambda accepted the invocation.        *)
Accept(d) ==
  /\ status[d] = "unsent"
  /\ status' = [status EXCEPT ![d] = "queued"]
  /\ UNCHANGED attempts

(* Lambda starts the handler when the reservation has room.                *)
Start(d) ==
  /\ status[d] = "queued"
  /\ Cardinality(Running) < Concurrency
  /\ status' = [status EXCEPT ![d] = "running"]
  /\ attempts' = [attempts EXCEPT ![d] = @ + 1]

(* lambda_handler returned: whatever it returned, Lambda is satisfied.     *)
Succeed(d) ==
  /\ status[d] = "running"
  /\ status' = [status EXCEPT ![d] = "done"]
  /\ UNCHANGED attempts

(* Faulty variant: one retry more than maximum_retry_attempts.             *)
FailOnceMore(d) ==
  /\ status[d] = "running"
  /\ status' = [status EXCEPT ![d] =
                  IF attempts[d] <= MaxAttempts THEN "queued" ELSE "dlq"]
  /\ UNCHANGED attempts

(* lambda_handler raised, timed out or crashed: requeue the whole event    *)
(* while attempts remain, then hand it to the on_failure destination.      *)
Fail(d) ==
  /\ status[d] = "running"
  /\ status' = [status EXCEPT ![d] =
                  IF attempts[d] < MaxAttempts THEN "queued" ELSE "dlq"]
  /\ UNCHANGED attempts

(* Lambda holds an event for up to six hours; one that waited longer goes  *)
(* to the on_failure destination without being run again.                  *)
Expire(d) ==
  /\ status[d] = "queued"
  /\ status' = [status EXCEPT ![d] = "dlq"]
  /\ UNCHANGED attempts

Next ==
  \E d \in Deliveries :
    Accept(d) \/ Start(d) \/ Succeed(d) \/ Fail(d) \/ Expire(d)

(* Lambda keeps polling its queue and a handler is bounded by the function *)
(* timeout, so both starting and finishing are fair.                       *)
Fairness ==
  \A d \in Deliveries :
    /\ WF_deliveryVars(Start(d))
    /\ WF_deliveryVars(Succeed(d) \/ Fail(d))

SafetySpec == Init /\ [][Next]_deliveryVars

Spec == SafetySpec /\ Fairness

-----------------------------------------------------------------------------

(* Every delivery has a place and has been started at most MaxAttempts     *)
(* times.                                                                  *)
TypeOK ==
  /\ status \in [Deliveries -> Status]
  /\ attempts \in [Deliveries -> 0 .. MaxAttempts]

(* An accepted event is never lost: it ends handled or in the dead letter  *)
(* queue (the dlq_depth alarm of cloudwatch.tf watches the latter).        *)
EventuallySettled ==
  \A d \in Deliveries : (status[d] = "queued") ~> (status[d] \in {"done", "dlq"})

=============================================================================
