------------------------------ MODULE SgRules ------------------------------
(***************************************************************************)
(* The security-group rule at work: people change one security group, and  *)
(* every AuthorizeSecurityGroupIngress record they leave becomes one or    *)
(* more deliveries to lambda_handler, which runs handle_authorize_sg_      *)
(* ingress.  Deliveries run concurrently, are retried whole when an        *)
(* attempt fails, and see a group that other deliveries and people keep    *)
(* changing.                                                               *)
(*                                                                         *)
(* Each remote call of the handler is a step of its own; what happens      *)
(* between two calls is local.  Detection itself (which rules of a request *)
(* are revoked, and which ports each exposes) is in SgDetection and enters *)
(* here through the constants RevokeList and Ports.                        *)
(***************************************************************************)
EXTENDS Naturals, Sequences, FiniteSets

CONSTANTS
  Deliveries, MaxAttempts, Concurrency,  (* as in Delivery                  *)
  Rules,          (* Ingress rules the group may hold.                      *)
  Requests,       (* AuthorizeSecurityGroupIngress requests people make.    *)
  Grants,         (* The rules a granted request adds.                      *)
  RevokeList,     (* The rules the engine finds and revokes, in order.      *)
  NoGroupId,      (* Requests whose record names the group otherwise than   *)
                  (* by requestParameters.groupId.                          *)
  Ports,          (* The restricted ports a rule exposes, in report order.  *)
  PublishMayFail, (* Whether CloudWatch and SNS calls may be lost.          *)
  NoRequest       (* The request of a delivery not made yet.                *)

ASSUME AttemptsAssumption == MaxAttempts \in Nat \ {0}
ASSUME ConcurrencyAssumption == Concurrency \in Nat \ {0}

Exposing == {r \in Rules : Ports[r] # <<>>}

(* SgDetection: the rules revoked are those of the request that expose a   *)
(* restricted port, each once.                                             *)
ASSUME DetectionAssumption ==
  /\ NoRequest \notin Requests
  /\ NoGroupId \subseteq Requests
  /\ Ports \in [Rules -> Seq(Nat)]
  /\ Grants \in [Requests -> SUBSET Rules]
  /\ RevokeList \in [Requests -> Seq(Rules)]
  /\ \A q \in Requests :
       /\ {RevokeList[q][i] : i \in 1 .. Len(RevokeList[q])}
            = Grants[q] \intersect Exposing
       /\ \A i, j \in 1 .. Len(RevokeList[q]) :
            RevokeList[q][i] = RevokeList[q][j] => i = j
ASSUME PublishAssumption == PublishMayFail \in BOOLEAN

VARIABLES
  group,      (* The ingress rules the group holds.                         *)
  request,    (* What each delivery's record asked for ...                  *)
  denied,     (* ... and whether it carries an errorCode.                   *)
  status,     (* Delivery: where it is ...                                  *)
  attempts,   (* ... and how often it was started.                          *)
  pc,         (* The handler's next call.                                   *)
  ruleAt,     (* Position in the loop over the rules.                       *)
  portAt,     (* Position in the loop over the ports of a rule.             *)
  remediated, (* The verdict on the current rule.                           *)
  published,  (* History: metrics and mails that reached CloudWatch and SNS.*)
  refusals    (* History: revocations EC2 answered with a real refusal.     *)

lambdaVars  == <<status, attempts>>
handlerVars == <<pc, ruleAt, portAt, remediated>>
eventVars   == <<request, denied>>
vars == <<group, eventVars, lambdaVars, handlerVars, published, refusals>>

Rule(d) == RevokeList[request[d]][ruleAt[d]]
Port(d) == Ports[Rule(d)][portAt[d]]

Running == {d \in Deliveries : status[d] = "running"}

Init ==
  /\ group = {}
  /\ request = [d \in Deliveries |-> NoRequest]
  /\ denied = [d \in Deliveries |-> FALSE]
  /\ status = [d \in Deliveries |-> "unsent"]
  /\ attempts = [d \in Deliveries |-> 0]
  /\ pc = [d \in Deliveries |-> "idle"]
  /\ ruleAt = [d \in Deliveries |-> 1]
  /\ portAt = [d \in Deliveries |-> 1]
  /\ remediated = [d \in Deliveries |-> FALSE]
  /\ published = {}
  /\ refusals = {}

-----------------------------------------------------------------------------
(* The account: people, CloudTrail and EventBridge.                        *)

Deliver(d, q, rejected) ==
  /\ status[d] = "unsent"
  /\ request' = [request EXCEPT ![d] = q]
  /\ denied' = [denied EXCEPT ![d] = rejected]
  /\ status' = [status EXCEPT ![d] = "queued"]
  /\ UNCHANGED <<attempts, handlerVars, published, refusals>>

(* EC2 grants a request whose rules are all new to the group.              *)
Authorize(d, q) ==
  /\ Grants[q] \intersect group = {}
  /\ group' = group \union Grants[q]
  /\ Deliver(d, q, FALSE)

(* EC2 rejects a request (not permitted, or a rule exists already); the    *)
(* record reaches the engine with its parameters and an errorCode.         *)
AuthorizeDenied(d, q) ==
  /\ Deliver(d, q, TRUE)
  /\ UNCHANGED group

(* The same record is delivered once more.                                 *)
Redeliver(d, e) ==
  /\ status[e] # "unsent"
  /\ Deliver(d, request[e], denied[e])
  /\ UNCHANGED group

(* A person removes a rule.                                                *)
RevokedByHand(r) ==
  /\ r \in group
  /\ group' = group \ {r}
  /\ UNCHANGED <<eventVars, lambdaVars, handlerVars, published, refusals>>

-----------------------------------------------------------------------------
(* Lambda around the handler.                                              *)

(* Faulty variant: starts are not counted.                                 *)
StartUncounted(d) ==
  /\ status[d] = "queued"
  /\ Cardinality(Running) < Concurrency
  /\ status' = [status EXCEPT ![d] = "running"]
  /\ pc' = [pc EXCEPT ![d] = "guard"]
  /\ UNCHANGED <<group, eventVars, attempts, ruleAt, portAt, remediated, published, refusals>>

Start(d) ==
  /\ status[d] = "queued"
  /\ Cardinality(Running) < Concurrency
  /\ status' = [status EXCEPT ![d] = "running"]
  /\ attempts' = [attempts EXCEPT ![d] = @ + 1]
  /\ pc' = [pc EXCEPT ![d] = "guard"]
  /\ UNCHANGED <<group, eventVars, ruleAt, portAt, remediated, published, refusals>>

(* The event waited too long in Lambda's queue.                            *)
Expire(d) ==
  /\ status[d] = "queued"
  /\ status' = [status EXCEPT ![d] = "dlq"]
  /\ UNCHANGED <<group, eventVars, attempts, handlerVars, published, refusals>>

(* What is left of the handler's local state when an attempt ends.         *)
Leave(d) ==
  /\ pc' = [pc EXCEPT ![d] = "idle"]
  /\ ruleAt' = [ruleAt EXCEPT ![d] = 1]
  /\ portAt' = [portAt EXCEPT ![d] = 1]
  /\ remediated' = [remediated EXCEPT ![d] = FALSE]

Return(d) ==
  /\ status' = [status EXCEPT ![d] = "done"]
  /\ Leave(d)
  /\ UNCHANGED attempts

(* Faulty variants of Raise, which the properties must tell from it: one   *)
(* attempt too many, and no on_failure destination.                        *)
RaiseOnceMore(d) ==
  /\ status' = [status EXCEPT ![d] =
                  IF attempts[d] <= MaxAttempts THEN "queued" ELSE "dlq"]
  /\ Leave(d)
  /\ UNCHANGED attempts

RaiseWithoutDlq(d) ==
  /\ status' = [status EXCEPT ![d] =
                  IF attempts[d] < MaxAttempts THEN "queued" ELSE "done"]
  /\ Leave(d)
  /\ UNCHANGED attempts

(* The attempt failed: Lambda runs the whole event again while attempts    *)
(* remain, then hands it to the dead letter queue.                         *)
Raise(d) ==
  /\ status' = [status EXCEPT ![d] =
                  IF attempts[d] < MaxAttempts THEN "queued" ELSE "dlq"]
  /\ Leave(d)
  /\ UNCHANGED attempts

(* The function times out, is killed, or an exception the handler does not *)
(* catch (a connection error) leaves it between two calls.                 *)
Crash(d) ==
  /\ status[d] = "running"
  /\ Raise(d)
  /\ UNCHANGED <<group, eventVars, published, refusals>>

-----------------------------------------------------------------------------
(* The handler.                                                            *)

Note(kind, d, r, p) == [kind |-> kind, by |-> d, rule |-> r, port |-> p]

NotesOnRule(kind, d, r) ==
  {Note(kind, d, r, Ports[r][k]) : k \in 1 .. Len(Ports[r])}

(* Every publish swallows its own failure: what was lost is never sent     *)
(* again and the handler goes on.                                          *)
Publish(notes) ==
  \E sent \in IF PublishMayFail THEN SUBSET notes ELSE {notes} :
    published' = published \union sent

Goto(d, label) == pc' = [pc EXCEPT ![d] = label]

(* lambda_handler drops a call AWS rejected, with a notice.                *)
ReportBlocked(d) ==
  /\ pc[d] = "guard"
  /\ denied[d]
  /\ \E sent \in IF PublishMayFail THEN BOOLEAN ELSE {TRUE} :
       published' = IF sent
                    THEN published \union
                      {[kind |-> "blocked", by |-> d, request |-> request[d]]}
                    ELSE published
  /\ Return(d)
  /\ UNCHANGED <<group, eventVars, refusals>>

(* A record without a groupId is logged as an error and dropped.           *)
MissGroupId(d) ==
  /\ pc[d] = "guard"
  /\ ~denied[d]
  /\ request[d] \in NoGroupId
  /\ Return(d)
  /\ UNCHANGED <<group, eventVars, published, refusals>>

(* is_public_ingress found nothing.                                        *)
FindCompliant(d) ==
  /\ pc[d] = "guard"
  /\ ~denied[d]
  /\ request[d] \notin NoGroupId
  /\ RevokeList[request[d]] = <<>>
  /\ Return(d)
  /\ UNCHANGED <<group, eventVars, published, refusals>>

(* Faulty variant: the errorCode guard of lambda_handler is missing.       *)
FindViolationsUnguarded(d) ==
  /\ pc[d] = "guard"
  /\ request[d] \notin NoGroupId
  /\ RevokeList[request[d]] # <<>>
  /\ Goto(d, "revoke")
  /\ UNCHANGED <<group, eventVars, lambdaVars, ruleAt, portAt, remediated,
                 published, refusals>>

FindViolations(d) ==
  /\ pc[d] = "guard"
  /\ ~denied[d]
  /\ request[d] \notin NoGroupId
  /\ RevokeList[request[d]] # <<>>
  /\ Goto(d, "revoke")
  /\ UNCHANGED <<group, eventVars, lambdaVars, ruleAt, portAt, remediated,
                 published, refusals>>

(* The verdict on the rule, reported port by port.                         *)
Verdict(d, fixed) ==
  /\ remediated' = [remediated EXCEPT ![d] = fixed]
  /\ portAt' = [portAt EXCEPT ![d] = 1]
  /\ Goto(d, "metric")
  /\ UNCHANGED <<eventVars, lambdaVars, ruleAt, published>>

(* EC2 removes the rule.                                                   *)
RevokeApplied(d) ==
  /\ pc[d] = "revoke"
  /\ Rule(d) \in group
  /\ group' = group \ {Rule(d)}
  /\ Verdict(d, TRUE)
  /\ UNCHANGED refusals

(* Faulty variants: NotFound taken for a failure, and NotFound not worth   *)
(* a report.                                                               *)
RevokeAbsentIsFailure(d) ==
  /\ pc[d] = "revoke"
  /\ Rule(d) \notin group
  /\ Verdict(d, FALSE)
  /\ UNCHANGED <<group, refusals>>

RevokeAbsentSilent(d) ==
  /\ pc[d] = "revoke"
  /\ Rule(d) \notin group
  /\ IF ruleAt[d] < Len(RevokeList[request[d]])
     THEN /\ ruleAt' = [ruleAt EXCEPT ![d] = @ + 1]
          /\ UNCHANGED <<lambdaVars, pc, portAt, remediated>>
     ELSE Return(d)
  /\ UNCHANGED <<group, eventVars, published, refusals>>

(* InvalidPermission.NotFound: somebody removed it first, which is what    *)
(* was wanted.                                                             *)
RevokeAbsent(d) ==
  /\ pc[d] = "revoke"
  /\ Rule(d) \notin group
  /\ Verdict(d, TRUE)
  /\ UNCHANGED <<group, refusals>>

(* Faulty variant: the outcome of the call is not looked at.               *)
RevokeRefusedIsFixed(d) ==
  /\ pc[d] = "revoke"
  /\ refusals' = refusals \union {<<d, Rule(d)>>}
  /\ Verdict(d, TRUE)
  /\ UNCHANGED group

(* Any other ClientError: the revocation was tried and did not succeed.    *)
RevokeRefused(d) ==
  /\ pc[d] = "revoke"
  /\ refusals' = refusals \union {<<d, Rule(d)>>}
  /\ Verdict(d, FALSE)
  /\ UNCHANGED group

(* Faulty variant: the throttle is counted and the handler returns.        *)
RevokeThrottledSwallowed(d) ==
  /\ pc[d] = "revoke"
  /\ Publish(NotesOnRule("throttled", d, Rule(d)))
  /\ Return(d)
  /\ UNCHANGED <<group, eventVars, refusals>>

(* A throttle is counted and re-raised: Lambda replays the whole event.    *)
RevokeThrottled(d) ==
  /\ pc[d] = "revoke"
  /\ Publish(NotesOnRule("throttled", d, Rule(d)))
  /\ Raise(d)
  /\ UNCHANGED <<group, eventVars, refusals>>

(* EC2 removed the rule and the answer never arrived.                      *)
RevokeAnswerLost(d) ==
  /\ pc[d] = "revoke"
  /\ group' = group \ {Rule(d)}
  /\ Raise(d)
  /\ UNCHANGED <<eventVars, published, refusals>>

(* publish_violation for one port.                                         *)
PublishViolation(d) ==
  /\ pc[d] = "metric"
  /\ Publish({Note(IF remediated[d] THEN "applied" ELSE "failed",
                   d, Rule(d), Port(d))})
  /\ Goto(d, "alert")
  /\ UNCHANGED <<group, eventVars, lambdaVars, ruleAt, portAt, remediated, refusals>>

AlertNote(d) ==
  Note(IF remediated[d] THEN "auto_remediated" ELSE "manual_action",
       d, Rule(d), Port(d))

(* send_alert for one port with more ports of the rule to report.          *)
SendAlertNextPort(d) ==
  /\ pc[d] = "alert"
  /\ portAt[d] < Len(Ports[Rule(d)])
  /\ Publish({AlertNote(d)})
  /\ portAt' = [portAt EXCEPT ![d] = @ + 1]
  /\ Goto(d, "metric")
  /\ UNCHANGED <<group, eventVars, lambdaVars, ruleAt, remediated, refusals>>

(* send_alert for the last port of a rule that is not the last.            *)
SendAlertNextRule(d) ==
  /\ pc[d] = "alert"
  /\ portAt[d] = Len(Ports[Rule(d)])
  /\ ruleAt[d] < Len(RevokeList[request[d]])
  /\ Publish({AlertNote(d)})
  /\ ruleAt' = [ruleAt EXCEPT ![d] = @ + 1]
  /\ portAt' = [portAt EXCEPT ![d] = 1]
  /\ Goto(d, "revoke")
  /\ UNCHANGED <<group, eventVars, lambdaVars, remediated, refusals>>

(* The last alert of the event; the handler returns "processed".           *)
SendLastAlert(d) ==
  /\ pc[d] = "alert"
  /\ portAt[d] = Len(Ports[Rule(d)])
  /\ ruleAt[d] = Len(RevokeList[request[d]])
  /\ Publish({AlertNote(d)})
  /\ Return(d)
  /\ UNCHANGED <<group, eventVars, refusals>>

Handle(d) ==
  \/ ReportBlocked(d) \/ MissGroupId(d) \/ FindCompliant(d) \/ FindViolations(d)
  \/ RevokeApplied(d) \/ RevokeAbsent(d) \/ RevokeRefused(d)
  \/ RevokeThrottled(d) \/ RevokeAnswerLost(d)
  \/ PublishViolation(d)
  \/ SendAlertNextPort(d) \/ SendAlertNextRule(d) \/ SendLastAlert(d)

Next ==
  \/ \E d \in Deliveries :
       \/ \E q \in Requests : Authorize(d, q) \/ AuthorizeDenied(d, q)
       \/ \E e \in Deliveries : Redeliver(d, e)
       \/ Start(d) \/ Expire(d) \/ Crash(d) \/ Handle(d)
  \/ \E r \in Rules : RevokedByHand(r)

(* Lambda keeps starting queued events, and every call of the handler is   *)
(* bounded by its client timeout and the function timeout.                 *)
Fairness ==
  \A d \in Deliveries : WF_vars(Start(d)) /\ WF_vars(Handle(d) \/ Crash(d))

Spec == Init /\ [][Next]_vars /\ Fairness

-----------------------------------------------------------------------------

(* The kinds of note that report a verdict, by channel.                    *)
Metrics == {"applied", "failed"}
Alerts == {"auto_remediated", "manual_action"}

NoteType ==
  [kind : Metrics \union Alerts \union {"throttled"},
   by : Deliveries, rule : Rules, port : Nat]
    \union [kind : {"blocked"}, by : Deliveries, request : Requests]

TypeOK ==
  /\ group \in SUBSET Rules
  /\ request \in [Deliveries -> Requests \union {NoRequest}]
  /\ denied \in [Deliveries -> BOOLEAN]
  /\ status \in [Deliveries -> {"unsent", "queued", "running", "done", "dlq"}]
  /\ attempts \in [Deliveries -> 0 .. MaxAttempts]
  /\ pc \in [Deliveries -> {"idle", "guard", "revoke", "metric", "alert"}]
  /\ ruleAt \in [Deliveries -> Nat \ {0}]
  /\ portAt \in [Deliveries -> Nat \ {0}]
  /\ remediated \in [Deliveries -> BOOLEAN]
  /\ published \in SUBSET NoteType
  /\ refusals \in SUBSET (Deliveries \X Rules)

(* Replaying an event must not manufacture a failure (test_replay_safety): *)
(* whatever the handler's earlier attempts, other deliveries and people    *)
(* have already done to the group, a failure metric or a mail asking for   *)
(* manual action means EC2 refused that very revocation.                   *)
NoManufacturedFailure ==
  \A n \in published :
    n.kind \in {"failed", "manual_action"} => <<n.by, n.rule>> \in refusals

(* A call AWS rejected is never reported as a finding or credited as a     *)
(* fix, even when the rule it asked for is in the group for another reason.*)
NoFindingForDeniedCall ==
  \A n \in published : n.kind # "blocked" => ~denied[n.by]

Covers(d, r) ==
  /\ request[d] \in Requests
  /\ ~denied[d]
  /\ \E i \in 1 .. Len(RevokeList[request[d]]) : RevokeList[request[d]][i] = r

(* The delivery will still reach rule r, or is about to report that it     *)
(* could not revoke it.                                                    *)
Ahead(d, r) ==
  \/ status[d] = "queued"
  \/ /\ status[d] = "running"
     /\ \/ \E i \in 1 .. Len(RevokeList[request[d]]) :
             /\ RevokeList[request[d]][i] = r
             /\ i > ruleAt[d] \/ (i = ruleAt[d] /\ pc[d] \in {"guard", "revoke"})
        \/ Rule(d) = r /\ pc[d] \in {"metric", "alert"} /\ ~remediated[d]

(* A mail asked a human to act on every exposed port of the rule.          *)
Told(d, r) == NotesOnRule("manual_action", d, r) \subseteq published

AccountsFor(d, r) ==
  Covers(d, r) /\ (Ahead(d, r) \/ status[d] = "dlq" \/ Told(d, r))

(* No exposure is forgotten: while a rule exposing a restricted port is in *)
(* the group, a delivery will still deal with it, or a human was told, or  *)
(* the event sits in the dead letter queue.  It holds while no publish is  *)
(* lost and every record that opens the group names it by groupId.         *)
ExposureAccountedFor ==
  \A r \in group \intersect Exposing : \E d \in Deliveries : AccountsFor(d, r)

(* A fix is never silent: an event the handler finished was reported in    *)
(* full, a metric and a mail for each port of each rule, although a crash  *)
(* between a revocation and its report forgets that the engine made it.    *)
FinishedMeansReported ==
  \A d \in Deliveries :
    status[d] = "done" /\ ~denied[d] /\ request[d] \notin NoGroupId =>
      \A i \in 1 .. Len(RevokeList[request[d]]) :
        LET r == RevokeList[request[d]][i]
        IN  \A k \in 1 .. Len(Ports[r]), kinds \in {Metrics, Alerts} :
              \E kind \in kinds : Note(kind, d, r, Ports[r][k]) \in published

(* An all-clear is not stale: when a mail says a rule was remediated while *)
(* the rule is in the group again, another event accounts for it.          *)
AllClearNotStale ==
  [][\A d \in Deliveries :
       LET mail == AlertNote(d)
       IN  pc[d] = "alert" /\ remediated[d] /\ pc'[d] # "alert"
             /\ Rule(d) \in group /\ mail \in published'
           => \E e \in Deliveries \ {d} : AccountsFor(e, mail.rule)]_vars

(* Every exposure is dealt with in the end: closed, or left to a human by  *)
(* mail or by the dead letter queue.                                       *)
ExposureResolved ==
  \A r \in Exposing :
    (r \in group) ~>
      \/ r \notin group
      \/ \E d \in Deliveries :
           Covers(d, r) /\ (status[d] = "dlq" \/ Told(d, r))

(* The rule keeps the platform's promise: seen through where each delivery *)
(* is and how often it was started, the handler is an instance of Delivery *)
(* and of what follows from it.                                            *)
Platform == INSTANCE Delivery
ImplementsDelivery == Platform!SafetySpec

(* An accepted event ends handled or in the dead letter queue, however     *)
(* often the handler is throttled, killed or loses an answer.              *)
EventuallySettled == Platform!EventuallySettled

=============================================================================
