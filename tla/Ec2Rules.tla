------------------------------ MODULE Ec2Rules ------------------------------
(***************************************************************************)
(* The EC2 rule at work on the instances one RunInstances call launches.   *)
(* handle_run_instances describes all of them and all of their volumes in  *)
(* two batched calls, falls back to one call per instance when a batch     *)
(* fails, and then deals with the instances one by one, on what it was     *)
(* told at the time.  Meanwhile instances come up, people tag and end      *)
(* them, and the event may be handled again, at once or after a failure.   *)
(***************************************************************************)
EXTENDS Naturals, Sequences, FiniteSets, VolumeEncryption

CONSTANTS
  Deliveries, MaxAttempts, Concurrency,  (* as in Delivery                  *)
  Instances,      (* The instances launched, in the record's order.         *)
  Volumes,        (* The EBS volumes each is launched with (Kind says what  *)
                  (* EC2 says of them, see VolumeEncryption).               *)
  Tagged,         (* Instances people put exemption tags on.                *)
  Ended,          (* Instances people terminate.                            *)
  Piecemeal,      (* Whether the volumes of a pending instance appear in    *)
                  (* its mappings one after the other.                      *)
  Errors,         (* The calls that may answer with an error other than a   *)
                  (* throttle: "batch", "instance", "volumes", "remedy".    *)
  Gaps,           (* The instances and volumes that an answer may leave out *)
                  (* though it was asked about them.                        *)
  PublishMayFail, (* Whether CloudWatch and SNS calls may be lost.          *)
  Configured,     (* EC2_REMEDIATION_ACTION, stripped and lower-cased.      *)
  None            (* A batch that could not be made; no instance described. *)

Fleet == {Instances[k] : k \in DOMAIN Instances}
AllVolumes == UNION {Volumes[i] : i \in Fleet}

(* What describe_instances can say of an instance.                         *)
Lives == {"pending", "running", "stopped", "terminated"}
Exemptions == {"not_tagged", "exempt", "rejected"}
Descriptions == [life : Lives, mappings : SUBSET AllVolumes, tags : Exemptions]

ASSUME PlatformAssumption == MaxAttempts \in Nat \ {0} /\ Concurrency \in Nat \ {0}
ASSUME NoneAssumption == None \notin Descriptions
ASSUME LaunchAssumption ==
  /\ Instances \in Seq(Fleet)
  /\ Instances # <<>>
  /\ Volumes \in [Fleet -> SUBSET AllVolumes]
  /\ \A v \in AllVolumes :
       Kind[v] \in {"encrypted", "unencrypted", "unsaid", "unnamed"}
  /\ Tagged \subseteq Fleet
  /\ Ended \subseteq Fleet
ASSUME SwitchesAssumption ==
  /\ Piecemeal \in BOOLEAN
  /\ PublishMayFail \in BOOLEAN
  /\ Errors \subseteq {"batch", "instance", "volumes", "remedy"}

VARIABLES
  life, attached, tags,  (* Each instance: its state, mappings and tags ... *)
  reason,    (* ... and the ComplianceAction tag the engine put on it.      *)
  record,    (* What each delivery is of: the launch, a launch EC2 rejected *)
             (* (an errorCode), or a record that names no instance.         *)
  status, attempts,      (* as in Delivery                                  *)
  pc,        (* The handler's next call.                                    *)
  prefetched, prefetchedVolumes,  (* What the batches answered.             *)
  at,        (* Position in the loop over the instances.                    *)
  instance,  (* The current instance as it was described.                   *)
  verdict,   (* What the handler is about to report of it.                  *)
  published, (* History: what CloudWatch and SNS were sent.                 *)
  refusals,  (* History: remediations EC2 refused.                          *)
  acted,     (* History: instances the engine stopped or terminated.        *)
  passed,    (* History: the instances an attempt passed over without a     *)
             (* word, each with the state and the mappings it was described *)
             (* with, and how: as "encrypted", or as the check "failed".    *)
  blamed     (* History: what an attempt's last refusal was due to.         *)

Platform == INSTANCE Delivery

fleetVars  == <<life, attached, tags, reason>>
lambdaVars == <<status, attempts>>
loopVars   == <<at, instance, verdict>>
batchVars  == <<prefetched, prefetchedVolumes>>
doneVars   == <<refusals, acted, passed, blamed>>
reportVars == <<published, doneVars>>
vars == <<fleetVars, record, lambdaVars, pc, loopVars, batchVars, reportVars>>

Init ==
  /\ life = [i \in Fleet |-> "pending"]
  /\ attached = [i \in Fleet |-> {}]
  /\ tags = [i \in Fleet |-> "not_tagged"]
  /\ reason = [i \in Fleet |-> "none"]
  /\ record = [d \in Deliveries |-> "launch"]
  /\ Platform!Init
  /\ pc = [d \in Deliveries |-> "idle"]
  /\ prefetched = [d \in Deliveries |-> None]
  /\ prefetchedVolumes = [d \in Deliveries |-> None]
  /\ at = [d \in Deliveries |-> 1]
  /\ instance = [d \in Deliveries |-> None]
  /\ verdict = [d \in Deliveries |-> "none"]
  /\ published = {}
  /\ refusals = {}
  /\ acted = {}
  /\ passed = [d \in Deliveries |-> {}]
  /\ blamed = [d \in Deliveries |-> "nobody"]

-----------------------------------------------------------------------------
(* The account.                                                            *)

engineVars == <<record, lambdaVars, pc, loopVars, batchVars, reportVars>>

(* The mappings of a pending instance fill up; it runs once they are full. *)
Attach(i) ==
  /\ life[i] = "pending"
  /\ \E vs \in SUBSET Volumes[i] :
       /\ attached[i] \subseteq vs
       /\ ~Piecemeal => vs = Volumes[i]
       /\ attached' = [attached EXCEPT ![i] = vs]
  /\ UNCHANGED <<life, tags, reason, engineVars>>

ComeUp(i) ==
  /\ life[i] = "pending"
  /\ attached[i] = Volumes[i]
  /\ life' = [life EXCEPT ![i] = "running"]
  /\ UNCHANGED <<attached, tags, reason, engineVars>>

Retag(i, t) ==
  /\ tags' = [tags EXCEPT ![i] = t]
  /\ UNCHANGED <<life, attached, reason, engineVars>>

(* A terminated instance has no mappings.                                  *)
End(i) ==
  /\ life' = [life EXCEPT ![i] = "terminated"]
  /\ attached' = [attached EXCEPT ![i] = {}]

EndByHand(i) ==
  /\ life[i] # "terminated"
  /\ End(i)
  /\ UNCHANGED <<tags, reason, engineVars>>

Records == {"launch", "rejected launch", "no instances"}

(* The record of the launch is delivered, and perhaps again.               *)
Deliver(d, rec) ==
  /\ Platform!Accept(d)
  /\ record' = [record EXCEPT ![d] = rec]
  /\ UNCHANGED <<fleetVars, pc, loopVars, batchVars, reportVars>>

-----------------------------------------------------------------------------
(* Lambda around the handler.                                              *)

Leave(d) ==
  /\ pc' = [pc EXCEPT ![d] = "idle"]
  /\ at' = [at EXCEPT ![d] = 1]
  /\ instance' = [instance EXCEPT ![d] = None]
  /\ verdict' = [verdict EXCEPT ![d] = "none"]
  /\ prefetched' = [prefetched EXCEPT ![d] = None]
  /\ prefetchedVolumes' = [prefetchedVolumes EXCEPT ![d] = None]

Return(d) == Platform!Succeed(d) /\ Leave(d)
Raise(d)  == Platform!Fail(d) /\ Leave(d)

Start(d) ==
  /\ Platform!Start(d)
  /\ pc' = [pc EXCEPT ![d] = "guard"]
  /\ passed' = [passed EXCEPT ![d] = {}]
  /\ blamed' = [blamed EXCEPT ![d] = "nobody"]
  /\ UNCHANGED <<fleetVars, record, loopVars, batchVars, published, refusals, acted>>

Expire(d) ==
  /\ Platform!Expire(d)
  /\ UNCHANGED <<fleetVars, record, pc, loopVars, batchVars, reportVars>>

Crash(d) ==
  /\ Raise(d)
  /\ UNCHANGED <<fleetVars, record, reportVars>>

-----------------------------------------------------------------------------
(* The handler.                                                            *)

Current(d) == Instances[at[d]]

Note(d, i, what, channel) == [by |-> d, on |-> i, what |-> what, channel |-> channel]

(* Every publish swallows its own failure.                                 *)
Publish(notes) ==
  \/ published' = published \union notes
  \/ PublishMayFail /\ UNCHANGED published

Goto(d, label) ==
  /\ pc' = [pc EXCEPT ![d] = label]
  /\ UNCHANGED lambdaVars

(* The next call, with nothing else changed.                               *)
Decide(d, v, label) ==
  /\ verdict' = [verdict EXCEPT ![d] = v]
  /\ Goto(d, label)
  /\ UNCHANGED <<at, instance, batchVars>>

(* A throttle is counted and re-raised, wherever it happens.               *)
Throttle(d, i) ==
  /\ Publish({Note(d, i, "throttled", "metric")})
  /\ Raise(d)
  /\ UNCHANGED <<fleetVars, record, doneVars>>

(* lambda_handler drops a launch EC2 rejected, with a metric and a notice. *)
DropRejectedCall(d) ==
  /\ pc[d] = "guard"
  /\ record[d] = "rejected launch"
  /\ Publish({Note(d, "unknown", "blocked", c) : c \in {"metric", "mail"}})
  /\ Return(d)
  /\ UNCHANGED <<fleetVars, record, doneVars>>

(* A record that names no instance is logged as an error, and that is all. *)
MissInstances(d) ==
  /\ pc[d] = "guard"
  /\ record[d] = "no instances"
  /\ Return(d)
  /\ UNCHANGED <<fleetVars, record, reportVars>>

Prefetching(d) == pc[d] = "guard" /\ record[d] = "launch"

(* The answers to a batch: of what was asked, perhaps not all.             *)
AnswersTo(asked) == {seen \in SUBSET asked : asked \ seen \subseteq Gaps}

(* What describe_instances says of an instance.                            *)
Described(i) == [life |-> life[i], mappings |-> attached[i], tags |-> tags[i]]

PrefetchInstances(d) ==
  /\ Prefetching(d)
  /\ \E seen \in AnswersTo(Fleet) :
       /\ prefetched' = [prefetched EXCEPT ![d] = [i \in seen |-> Described(i)]]
       /\ Goto(d, IF seen = {} THEN "describe" ELSE "prefetch volumes")
  /\ UNCHANGED <<fleetVars, record, loopVars, prefetchedVolumes, reportVars>>

(* The batch fails, or names nothing it returns: fall back.                *)
PrefetchInstancesFails(d) ==
  /\ Prefetching(d)
  /\ "batch" \in Errors
  /\ Goto(d, "describe")
  /\ UNCHANGED <<fleetVars, record, loopVars, batchVars, reportVars>>

PrefetchInstancesThrottled(d) == Prefetching(d) /\ Throttle(d, Instances[1])

Asked(d) == UNION {Named(prefetched[d][i].mappings) : i \in DOMAIN prefetched[d]}

PrefetchVolumes(d) ==
  /\ pc[d] = "prefetch volumes"
  /\ \E seen \in AnswersTo(Asked(d)) :
       prefetchedVolumes' = [prefetchedVolumes EXCEPT ![d] = seen]
  /\ Goto(d, "describe")
  /\ UNCHANGED <<fleetVars, record, loopVars, prefetched, reportVars>>

PrefetchVolumesFails(d) ==
  /\ pc[d] = "prefetch volumes"
  /\ Asked(d) # {}
  /\ "batch" \in Errors
  /\ Goto(d, "describe")
  /\ UNCHANGED <<fleetVars, record, loopVars, batchVars, reportVars>>

PrefetchVolumesThrottled(d) ==
  /\ pc[d] = "prefetch volumes"
  /\ Asked(d) # {}
  /\ Throttle(d, "volume")

Look(d, description) ==
  /\ instance' = [instance EXCEPT ![d] = description]
  /\ Goto(d, "check")
  /\ UNCHANGED <<fleetVars, record, at, verdict, batchVars, reportVars>>

Unanswered(d) ==
  /\ Decide(d, "undetermined", "metric")
  /\ UNCHANGED <<fleetVars, record, reportVars>>

(* _describe_instance: a lookup, or with no batch a call of its own.       *)
LookUp(d) ==
  /\ pc[d] = "describe"
  /\ prefetched[d] # None
  /\ IF Current(d) \in DOMAIN prefetched[d]
     THEN Look(d, prefetched[d][Current(d)])
     ELSE Unanswered(d)

DescribeInstance(d) ==
  /\ pc[d] = "describe"
  /\ prefetched[d] = None
  /\ Look(d, Described(Current(d)))

DescribeInstanceFails(d) ==
  /\ pc[d] = "describe"
  /\ prefetched[d] = None
  /\ "instance" \in Errors
  /\ Unanswered(d)

DescribeInstanceThrottled(d) ==
  /\ pc[d] = "describe"
  /\ prefetched[d] = None
  /\ Throttle(d, Current(d))

(* The next instance of the event, or the end of the handler.              *)
Advance(d) ==
  IF at[d] < Len(Instances)
  THEN /\ at' = [at EXCEPT ![d] = @ + 1]
       /\ instance' = [instance EXCEPT ![d] = None]
       /\ verdict' = [verdict EXCEPT ![d] = "none"]
       /\ Goto(d, "describe")
       /\ UNCHANGED batchVars
  ELSE Return(d)

ExemptByTag(d) ==
  /\ pc[d] = "check"
  /\ instance[d].tags = "exempt"
  /\ Decide(d, "exempt", "metric")
  /\ UNCHANGED <<fleetVars, record, reportVars>>

Checking(d) == pc[d] = "check" /\ instance[d].tags # "exempt"

(* An exemption that does not hold is counted, and the check goes on.      *)
RejectedExemption(d) ==
  IF instance[d].tags = "rejected"
  THEN {Note(d, Current(d), "exemption rejected", "metric")}
  ELSE {}

(* describe_volumes is asked only if the batch was not, and only for       *)
(* mappings that are there and can all be read.                            *)
AsksVolumes(d) ==
  /\ prefetchedVolumes[d] = None
  /\ instance[d].mappings # {}
  /\ Named(instance[d].mappings) = instance[d].mappings

Answers(d) ==
  IF prefetchedVolumes[d] # None THEN {prefetchedVolumes[d]}
  ELSE AnswersTo(instance[d].mappings)

Passing(d, how) ==
  [passed EXCEPT ![d] =
     @ \union {[on |-> Current(d), life |-> instance[d].life,
                seen |-> instance[d].mappings, how |-> how]}]

CheckVolumes(d) ==
  /\ Checking(d)
  /\ Publish(RejectedExemption(d))
  /\ \E answered \in Answers(d) :
       \E encryption \in VolumeEncryptionStatus(instance[d], answered) :
         /\ CASE encryption = "encrypted" -> Advance(d)
              [] encryption = "undetermined" -> Decide(d, "undetermined", "metric")
              [] encryption = "unencrypted" -> Decide(d, "none", "tag")
         /\ passed' = IF encryption = "encrypted" THEN Passing(d, "encrypted") ELSE passed
  /\ UNCHANGED <<fleetVars, record, refusals, acted, blamed>>

(* The check of this instance failed: logged, reported to nobody.          *)
CheckVolumesFails(d) ==
  /\ Checking(d)
  /\ AsksVolumes(d)
  /\ "volumes" \in Errors
  /\ Publish(RejectedExemption(d))
  /\ Advance(d)
  /\ passed' = Passing(d, "failed")
  /\ UNCHANGED <<fleetVars, record, refusals, acted, blamed>>

CheckVolumesThrottled(d) ==
  /\ Checking(d)
  /\ AsksVolumes(d)
  /\ Throttle(d, Current(d))

(* Anything unrecognised means stop.                                       *)
RemediationAction == IF Configured = "terminate" THEN "terminate" ELSE "stop"

(* Faulty variant: the instance is tagged after it was stopped, if at all. *)
TagInstanceLater(d) ==
  /\ pc[d] = "tag"
  /\ Goto(d, "act")
  /\ UNCHANGED <<fleetVars, record, loopVars, batchVars, reportVars>>

(* create_tags, before the action.                                         *)
TagInstance(d) ==
  /\ pc[d] = "tag"
  /\ reason' = [reason EXCEPT ![Current(d)] = RemediationAction]
  /\ Goto(d, "act")
  /\ UNCHANGED <<life, attached, tags, record, loopVars, batchVars, reportVars>>

(* The instance is gone, and it was not the engine that ended it.          *)
EndedByPerson(i) ==
  life[i] = "terminated" /\ (RemediationAction = "stop" \/ i \notin acted)

(* EC2 refuses what the account lets it do (an error), what somebody made  *)
(* impossible (a person), or what the engine should not have asked.        *)
Refuse(d, possible) ==
  /\ refusals' = refusals \union {<<d, Current(d)>>}
  /\ blamed' = [blamed EXCEPT ![d] =
                  IF possible THEN "error"
                  ELSE IF EndedByPerson(Current(d)) THEN "person" ELSE "engine"]
  /\ Decide(d, "failed", "metric")
  /\ UNCHANGED <<fleetVars, record, published, acted, passed>>

TagInstanceFails(d) ==
  /\ pc[d] = "tag"
  /\ "remedy" \in Errors \/ life[Current(d)] = "terminated"
  /\ Refuse(d, life[Current(d)] # "terminated")

(* Faulty variant: a throttle is recorded as a failed remediation.         *)
RemediationThrottledFails(d) ==
  /\ pc[d] \in {"tag", "act"}
  /\ Decide(d, "failed", "metric")
  /\ UNCHANGED <<fleetVars, record, reportVars>>

RemediationThrottled(d) == pc[d] \in {"tag", "act"} /\ Throttle(d, Current(d))

(* stop_instances takes a running instance or one that is stopped already, *)
(* terminate_instances any.                                                *)
CanAct(i) ==
  \/ RemediationAction = "terminate"
  \/ life[i] \in {"running", "stopped"}

Act(i) ==
  /\ IF RemediationAction = "terminate" THEN End(i)
     ELSE /\ life' = [life EXCEPT ![i] = "stopped"]
          /\ UNCHANGED attached
  /\ acted' = acted \union {i}
  /\ UNCHANGED <<tags, reason, record, published, refusals, passed, blamed>>

ActionApplied(d) ==
  /\ pc[d] = "act"
  /\ CanAct(Current(d))
  /\ Act(Current(d))
  /\ Decide(d, "applied", "metric")

ActionRefused(d) ==
  /\ pc[d] = "act"
  /\ "remedy" \in Errors \/ ~CanAct(Current(d))
  /\ Refuse(d, CanAct(Current(d)))

PublishMetric(d) ==
  /\ pc[d] = "metric"
  /\ Publish({Note(d, Current(d), verdict[d], "metric")})
  /\ Decide(d, verdict[d], "mail")
  /\ UNCHANGED <<fleetVars, record, doneVars>>

(* Faulty variant: one instance that cannot be read ends the event.        *)
SendMailAndStop(d) ==
  /\ pc[d] = "mail"
  /\ Publish({Note(d, Current(d), verdict[d], "mail")})
  /\ IF verdict[d] = "undetermined" THEN Return(d) ELSE Advance(d)
  /\ UNCHANGED <<fleetVars, record, doneVars>>

SendMail(d) ==
  /\ pc[d] = "mail"
  /\ Publish({Note(d, Current(d), verdict[d], "mail")})
  /\ Advance(d)
  /\ UNCHANGED <<fleetVars, record, doneVars>>

Prefetch(d) ==
  \/ PrefetchInstances(d) \/ PrefetchInstancesFails(d) \/ PrefetchInstancesThrottled(d)
  \/ PrefetchVolumes(d) \/ PrefetchVolumesFails(d) \/ PrefetchVolumesThrottled(d)

Handle(d) ==
  \/ DropRejectedCall(d) \/ MissInstances(d) \/ Prefetch(d)
  \/ LookUp(d) \/ DescribeInstance(d) \/ DescribeInstanceFails(d)
  \/ DescribeInstanceThrottled(d)
  \/ ExemptByTag(d) \/ CheckVolumes(d) \/ CheckVolumesFails(d) \/ CheckVolumesThrottled(d)
  \/ TagInstance(d) \/ TagInstanceFails(d) \/ RemediationThrottled(d)
  \/ ActionApplied(d) \/ ActionRefused(d)
  \/ PublishMetric(d) \/ SendMail(d)

Next ==
  \/ \E i \in Fleet : Attach(i) \/ ComeUp(i)
  \/ \E i \in Tagged, t \in Exemptions : Retag(i, t)
  \/ \E i \in Ended : EndByHand(i)
  \/ \E d \in Deliveries :
       \/ \E rec \in Records : Deliver(d, rec)
       \/ Start(d) \/ Expire(d) \/ Crash(d) \/ Handle(d)

(* As in SgRules: Lambda keeps starting events and bounds every attempt.   *)
Fairness ==
  \A d \in Deliveries : WF_vars(Start(d)) /\ WF_vars(Handle(d) \/ Crash(d))

Spec == Init /\ [][Next]_vars /\ Fairness

-----------------------------------------------------------------------------

Verdicts == {"none", "exempt", "undetermined", "applied", "failed"}

(* What the batched describe_instances answered.                           *)
Batches == UNION {[seen -> Descriptions] : seen \in SUBSET Fleet}

TypeOK ==
  /\ life \in [Fleet -> Lives]
  /\ attached \in [Fleet -> SUBSET AllVolumes]
  /\ tags \in [Fleet -> Exemptions]
  /\ reason \in [Fleet -> {"none", "stop", "terminate"}]
  /\ record \in [Deliveries -> Records]
  /\ Platform!TypeOK
  /\ pc \in [Deliveries -> {"idle", "guard", "prefetch volumes", "describe", "check",
                            "tag", "act", "metric", "mail"}]
  /\ prefetched \in [Deliveries -> Batches \union {None}]
  /\ prefetchedVolumes \in [Deliveries -> (SUBSET AllVolumes) \union {None}]
  /\ at \in [Deliveries -> 1 .. Len(Instances)]
  /\ instance \in [Deliveries -> Descriptions \union {None}]
  /\ \A d \in Deliveries : pc[d] \in {"check", "tag", "act"} => instance[d] # None
  /\ verdict \in [Deliveries -> Verdicts]
  /\ published \subseteq
       [by : Deliveries, on : Fleet \union {"unknown", "volume"}, channel : {"metric", "mail"},
        what : Verdicts \union {"exemption rejected", "throttled", "blocked"}]
  /\ refusals \subseteq Deliveries \X Fleet
  /\ acted \subseteq Fleet
  /\ passed \in [Deliveries -> SUBSET [on : Fleet, life : Lives, seen : SUBSET AllVolumes,
                                      how : {"encrypted", "failed"}]]
  /\ blamed \in [Deliveries -> {"nobody", "person", "error", "engine"}]

Violates(i) == \E v \in Volumes[i] : Kind[v] = "unencrypted"

(* EC2 says of every volume of the instance that it is encrypted.          *)
Complies(i) == \A v \in Volumes[i] : Kind[v] = "encrypted"

Told(d, i) ==
  \E v \in Verdicts : Note(d, i, v, "mail") \in published

(* Two ways past the handler without a mail: all that was mapped of the    *)
(* instance while it was pending was encrypted, and some volume of it was  *)
(* mapped ...                                                              *)
PassedPending(d, i) ==
  \E p \in passed[d] :
    /\ p.on = i /\ p.how = "encrypted"
    /\ p.life = "pending"
    /\ p.seen # {}
    /\ \A v \in p.seen : Kind[v] = "encrypted"

(* ... or describe_volumes failed for it.                                  *)
CheckFailed(d, i) == \E p \in passed[d] : p.on = i /\ p.how = "failed"

(* "A check that cannot reach a verdict is the quiet failure mode"         *)
(* (cloudwatch.tf), worse than an error.  Once an event was handled, each  *)
(* instance of it that still exists was encrypted throughout or was mailed *)
(* about: stopped, refused, exempt, or undetermined.                       *)
NoSilentMiss ==
  \A d \in Deliveries :
    status[d] = "done" /\ record[d] = "launch" =>
      \A i \in Fleet : life[i] # "terminated" /\ ~Complies(i) => Told(d, i)

(* No silent miss but these two, which PassedMeansSeen and NoSilentMiss    *)
(* show: neither an instance of the same event that cannot be read, nor a  *)
(* batch that fails or leaves it out, nor an exemption, a refusal or a     *)
(* replay makes an instance forgotten.                                     *)
NoOtherMiss ==
  \A d \in Deliveries :
    status[d] = "done" /\ record[d] = "launch" =>
      \A i \in Fleet :
        life[i] # "terminated" /\ ~Complies(i) =>
          Told(d, i) \/ PassedPending(d, i) \/ CheckFailed(d, i)

(* "Every path that cannot see the data returns ENCRYPTION_UNDETERMINED    *)
(* rather than guessing": an instance passed as encrypted, and still       *)
(* there, has no volume that is not.                                       *)
PassedMeansSeen ==
  \A d \in Deliveries : \A p \in passed[d] :
    p.how = "encrypted" /\ life[p.on] # "terminated" => ~Violates(p.on)

(* The engine never acts on a guess: what it stopped or terminated was     *)
(* launched with an unencrypted volume.                                    *)
OnlyViolatorsActedOn == \A i \in acted : Violates(i)

(* An instance the engine acted on carries the reason, even when the       *)
(* handler was interrupted before it could report it.                      *)
ActedMeansTagged == \A i \in acted : reason[i] = RemediationAction

(* A failure is reported only for a remediation EC2 refused: throttles and *)
(* unread instances are no failures.                                       *)
NoManufacturedFailure ==
  \A n \in published : n.what = "failed" => <<n.by, n.on>> \in refusals

(* Replaying an event must not manufacture a failure                       *)
(* (test_replay_safety): after a delivery mailed that an instance was      *)
(* dealt with, it mails that dealing with it failed only if somebody ended *)
(* the instance in between, or EC2 refused the replay what it could have   *)
(* done.  Nothing the engine did itself turns its fix into a failure.      *)
FixNotTakenBack ==
  [][\A d \in Deliveries, i \in Fleet :
       Note(d, i, "applied", "mail") \in published
         /\ Note(d, i, "failed", "mail") \in published' \ published
       => blamed[d] \in {"person", "error"}]_vars

(* A violating instance is dealt with in the end: it is stopped or gone,   *)
(* or a human is told by mail or by the dead letter queue; or the event    *)
(* was handled and the instance got past it in one of the two ways.        *)
ViolatorResolved ==
  \A d \in Deliveries :
    (status[d] = "queued" /\ record[d] = "launch") ~>
      \/ status[d] = "dlq"
      \/ \A i \in Fleet :
           \/ life[i] \in {"stopped", "terminated"} \/ ~Violates(i) \/ Told(d, i)
           \/ status[d] = "done" /\ (PassedPending(d, i) \/ CheckFailed(d, i))

=============================================================================
