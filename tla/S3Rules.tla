------------------------------ MODULE S3Rules ------------------------------
(***************************************************************************)
(* The four S3 rules at work on one bucket.  People change the bucket, its *)
(* tags and its protections; each recorded call becomes deliveries to      *)
(* lambda_handler, which run concurrently and are retried whole.  Two of   *)
(* the rules remediate (handle_put_bucket_acl and handle_put_bucket_       *)
(* encryption), two only report (handle_public_access_block_removed and    *)
(* handle_ownership_controls_changed).                                     *)
(*                                                                         *)
(* The engine's own PutBucketEncryption is recorded as well and comes back *)
(* to it: _is_self_invocation has to recognise it.                         *)
(***************************************************************************)
EXTENDS Naturals, FiniteSets

CONSTANTS
  Deliveries, MaxAttempts, Concurrency,  (* as in Delivery                  *)
  NewBuckets,      (* How the bucket may be before anybody touches it.      *)
  Requests,        (* The S3 calls people make.                             *)
  BlockSettings,   (* What people set Block Public Access to as a whole.    *)
  Callers,         (* The identities people make their calls with.          *)
  RoleSettings,    (* Whether ENGINE_ROLE_ARN is set, in the deployments    *)
                   (* considered.                                           *)
  Nameless,        (* Requests whose record carries no bucketName.          *)
  PublishMayFail,  (* Whether CloudWatch and SNS calls may be lost.         *)
  NoRecord         (* The record of a delivery not made yet.                *)

(* Canned and explicit ACLs are told apart only by whether they are public,*)
(* keys only by what the bucket is encrypted with.                         *)
AclRequests        == [name : {"PutBucketAcl"}, asks : {"public", "private"}]
EncryptionRequests == [name : {"PutBucketEncryption"},
                       asks : {"AES256", "mandated key", "other key"}]
BlockRequests      == [name : {"DeleteBucketPublicAccessBlock"}, asks : {"removal"}]
OwnershipRequests  == [name : {"PutBucketOwnershipControls"},
                       asks : {"BucketOwnerEnforced", "ObjectWriter"}]

AllRequests == AclRequests \union EncryptionRequests
                 \union BlockRequests \union OwnershipRequests

(* The userIdentity of a record: the role of sessionContext.sessionIssuer, *)
(* which not every record has, and the role named by the session arn.      *)
Identities == [issuer : {"none", "engine", "other"},
               session : {"none", "engine", "engine-readonly"}]

EngineIdentities == {[issuer |-> "engine", session |-> "engine"],
                     [issuer |-> "none", session |-> "engine"]}

Buckets == [acl : {"private", "public"}, blocked : BOOLEAN,
            encryption : {"AES256", "mandated key", "other key"},
            ownership : {"BucketOwnerEnforced", "ObjectWriter"}]

ASSUME BucketsAssumption == NewBuckets \subseteq {b \in Buckets : b.acl = "private"}
ASSUME RequestsAssumption == Requests \subseteq AllRequests /\ Nameless \subseteq Requests
(* Nobody else calls under the engine's role.                              *)
ASSUME CallersAssumption ==
  Callers \subseteq {id \in Identities :
    id.issuer = "other" \/ (id.issuer = "none" /\ id.session # "engine")}
ASSUME PlatformAssumption == MaxAttempts \in Nat \ {0} /\ Concurrency \in Nat \ {0}
ASSUME SwitchesAssumption ==
  /\ RoleSettings \subseteq BOOLEAN
  /\ BlockSettings \subseteq BOOLEAN
  /\ PublishMayFail \in BOOLEAN

VARIABLES
  roleKnown, (* Whether ENGINE_ROLE_ARN is set.                             *)
  bucket,    (* Its ACL, ownership, Block Public Access and encryption.     *)
  tags,      (* What evaluate_exemption makes of the bucket's tags.         *)
  record,    (* The CloudTrail record of each delivery.                     *)
  echoes,    (* Records of the engine's own calls, not delivered yet.       *)
  status, attempts,  (* as in Delivery                                      *)
  pc,        (* The handler's next call.                                    *)
  verdict,   (* What the handler is about to report.                        *)
  published, (* History: what CloudWatch and SNS were sent ...              *)
  lost,      (* ... and the deliveries whose mail SNS did not take.         *)
  refused,   (* History: deliveries whose remediation S3 refused.           *)
  openers,   (* History: deliveries whose call left the bucket public, as   *)
             (* it has been ever since; "nobody" for a call that no         *)
             (* EventBridge rule matches.                                   *)
  weakeners  (* History: the same for weak encryption.                      *)

Platform == INSTANCE Delivery

accountVars == <<roleKnown, bucket, tags, openers, weakeners>>
recordVars  == <<record, echoes>>
lambdaVars  == <<status, attempts>>
localVars   == <<pc, verdict>>
reportVars  == <<published, lost, refused>>
vars == <<accountVars, recordVars, lambdaVars, localVars, reportVars>>

(* S3 serves the bucket to everyone: the ACL says so, ACLs are enabled and *)
(* nothing masks them.                                                     *)
Public(b) == b.acl = "public" /\ ~b.blocked /\ b.ownership = "ObjectWriter"
Weak(b)   == b.encryption = "AES256"

Init ==
  /\ roleKnown \in RoleSettings
  /\ bucket \in NewBuckets
  /\ tags = "not_tagged"
  /\ record = [d \in Deliveries |-> NoRecord]
  /\ echoes = {}
  /\ Platform!Init
  /\ pc = [d \in Deliveries |-> "idle"]
  /\ verdict = [d \in Deliveries |-> "none"]
  /\ published = {}
  /\ lost = {}
  /\ refused = {}
  /\ openers = {}
  /\ weakeners = {}

-----------------------------------------------------------------------------
(* The account.                                                            *)

(* What S3 lets through: a public ACL needs ACLs enabled and no block, and *)
(* ACLs cannot be disabled under a public one.                             *)
Granted(q) ==
  CASE q.name = "PutBucketAcl" ->
         /\ bucket.ownership = "ObjectWriter"
         /\ q.asks = "public" => ~bucket.blocked
    [] q.name = "PutBucketOwnershipControls" ->
         q.asks = "BucketOwnerEnforced" => bucket.acl = "private"
    [] OTHER -> TRUE

After(q) ==
  CASE q.name = "PutBucketAcl" -> [bucket EXCEPT !.acl = q.asks]
    [] q.name = "PutBucketEncryption" -> [bucket EXCEPT !.encryption = q.asks]
    [] q.name = "DeleteBucketPublicAccessBlock" -> [bucket EXCEPT !.blocked = FALSE]
    [] q.name = "PutBucketOwnershipControls" -> [bucket EXCEPT !.ownership = q.asks]

(* The bucket changes; "by" are the deliveries of the call that did it.    *)
Change(b, by, asks) ==
  /\ bucket' = b
  /\ UNCHANGED roleKnown
  /\ openers' = IF ~Public(b) THEN {}
                ELSE IF asks \in {"public", "removal", "ObjectWriter"}
                     THEN openers \union by ELSE openers
  /\ weakeners' = IF ~Weak(b) THEN {}
                  ELSE IF asks = "AES256" THEN weakeners \union by ELSE weakeners

Deliver(d, rec) ==
  /\ Platform!Accept(d)
  /\ record' = [record EXCEPT ![d] = rec]
  /\ UNCHANGED <<tags, localVars, reportVars>>

Recorded(q, id, denied) == [request |-> q, caller |-> id, denied |-> denied]

(* Somebody makes one of the calls the engine watches.                     *)
Call(d, q, id) ==
  /\ Granted(q)
  /\ Change(After(q), {d}, q.asks)
  /\ Deliver(d, Recorded(q, id, FALSE))
  /\ UNCHANGED echoes

(* The call is recorded although AWS rejected it.                          *)
CallRejected(d, q, id) ==
  /\ Deliver(d, Recorded(q, id, TRUE))
  /\ UNCHANGED <<roleKnown, bucket, openers, weakeners, echoes>>

Redeliver(d, e) ==
  /\ record[e] # NoRecord
  /\ Deliver(d, record[e])
  /\ UNCHANGED <<roleKnown, bucket, openers, weakeners, echoes>>

(* A record of the engine's own call reaches it.                           *)
DeliverEcho(d, rec) ==
  /\ rec \in echoes
  /\ echoes' = echoes \ {rec}
  /\ Deliver(d, rec)
  /\ UNCHANGED <<roleKnown, bucket, openers, weakeners>>

(* PutPublicAccessBlock by a person; the S3 console also lifts it so.  It  *)
(* is recorded, but no EventBridge rule matches it.                        *)
PutBlock(on) ==
  /\ bucket.blocked # on
  /\ Change([bucket EXCEPT !.blocked = on], {"nobody"}, IF on THEN "block" ELSE "removal")
  /\ UNCHANGED <<tags, recordVars, lambdaVars, localVars, reportVars>>

(* PutBucketTagging, or the day the exemption runs out.                    *)
ChangeTags(t) ==
  /\ tags' = t
  /\ UNCHANGED <<roleKnown, bucket, openers, weakeners, recordVars, lambdaVars, localVars, reportVars>>

-----------------------------------------------------------------------------
(* The handler, from lambda_handler down.                                  *)

Leave(d) ==
  /\ pc' = [pc EXCEPT ![d] = "idle"]
  /\ verdict' = [verdict EXCEPT ![d] = "none"]

Return(d) == Platform!Succeed(d) /\ Leave(d)
Raise(d)  == Platform!Fail(d) /\ Leave(d)

Start(d) ==
  /\ Platform!Start(d)
  /\ pc' = [pc EXCEPT ![d] = "guard"]
  /\ UNCHANGED <<accountVars, recordVars, verdict, reportVars>>

Expire(d) ==
  /\ Platform!Expire(d)
  /\ UNCHANGED <<accountVars, recordVars, localVars, reportVars>>

(* Timeout, kill or an uncaught error between two calls.                   *)
Crash(d) ==
  /\ Raise(d)
  /\ UNCHANGED <<accountVars, recordVars, reportVars>>

Decide(d, v, next) ==
  /\ verdict' = [verdict EXCEPT ![d] = v]
  /\ pc' = [pc EXCEPT ![d] = next]
  /\ UNCHANGED lambdaVars

Note(d, what, channel) == [by |-> d, what |-> what, channel |-> channel]

(* Every publish swallows its own failure.                                 *)
Publish(d, what, channel) ==
  \/ /\ published' = published \union {Note(d, what, channel)}
     /\ UNCHANGED lost
  \/ /\ PublishMayFail
     /\ lost' = IF channel = "mail" THEN lost \union {d} ELSE lost
     /\ UNCHANGED published

(* Faulty variants: no fallback on the session arn, and a fallback without *)
(* the trailing slash, which takes every role of that prefix for its own.  *)
IsSelfInvocationByIssuer(id) == roleKnown /\ id.issuer = "engine"

IsSelfInvocationByPrefix(id) ==
  /\ roleKnown
  /\ IF id.issuer # "none" THEN id.issuer = "engine" ELSE id.session # "none"

(* An unset ENGINE_ROLE_ARN fails open.                                    *)
IsSelfInvocation(id) ==
  /\ roleKnown
  /\ IF id.issuer # "none" THEN id.issuer = "engine" ELSE id.session = "engine"

Request(d) == record[d].request

(* The guards of lambda_handler, in their order.                           *)
DropOwnCall(d) ==
  /\ pc[d] = "guard"
  /\ IsSelfInvocation(record[d].caller)
  /\ Return(d)
  /\ UNCHANGED <<accountVars, recordVars, reportVars>>

Passes(d) == pc[d] = "guard" /\ ~IsSelfInvocation(record[d].caller)

DropRejectedCall(d) ==
  /\ Passes(d)
  /\ record[d].denied
  /\ Decide(d, "blocked", "metric")
  /\ UNCHANGED <<accountVars, recordVars, reportVars>>

Handles(d, names) ==
  /\ Passes(d)
  /\ ~record[d].denied
  /\ Request(d).name \in names

(* The handler found no bucketName: an error is logged, and that is all.   *)
MissBucketName(d) ==
  /\ Handles(d, {r.name : r \in AllRequests})
  /\ Request(d) \in Nameless
  /\ Return(d)
  /\ UNCHANGED <<accountVars, recordVars, reportVars>>

Remediating == {"PutBucketAcl", "PutBucketEncryption"}

ReadsTags(d) == Handles(d, Remediating) /\ Request(d) \notin Nameless

(* get_bucket_tagging fails with anything but NoSuchTagSet.                *)
TagsUnreadable(d) ==
  /\ ReadsTags(d)
  /\ Raise(d)
  /\ UNCHANGED <<accountVars, recordVars, reportVars>>

TagsExempt(d) ==
  /\ ReadsTags(d)
  /\ tags = "exempt"
  /\ Decide(d, "exempt", "metric")
  /\ UNCHANGED <<accountVars, recordVars, reportVars>>

(* Both rules judge what was requested, not what the bucket is now.        *)
ViolationRequested(q) ==
  \/ q.name = "PutBucketAcl" /\ q.asks = "public"
  \/ q.name = "PutBucketEncryption" /\ q.asks \notin {"mandated key", "other key"}

(* No exemption, or one that does not hold, which is counted.              *)
TagsJudged(d) ==
  /\ ReadsTags(d)
  /\ tags # "exempt"
  /\ IF tags = "rejected"
     THEN Publish(d, "exemption rejected", "metric")
     ELSE UNCHANGED <<published, lost>>
  /\ IF ViolationRequested(Request(d))
     THEN Decide(d, "none", "remediate")
     ELSE Return(d)
  /\ UNCHANGED <<accountVars, recordVars, refused>>

(* Faulty variant: the remediator writes what the detector rejects.        *)
RemediatedBaseline(q) ==
  IF q.name = "PutBucketAcl"
  THEN [bucket EXCEPT !.blocked = TRUE]
  ELSE [bucket EXCEPT !.encryption = "AES256"]

(* What the remediation makes of the bucket.                               *)
Remediated(q) ==
  IF q.name = "PutBucketAcl"
  THEN [bucket EXCEPT !.blocked = TRUE]
  ELSE [bucket EXCEPT !.encryption = "mandated key"]

(* CloudTrail records the engine's PutBucketEncryption like anybody's;     *)
(* PutPublicAccessBlock is recorded too but matches no rule.               *)
EchoedAs(q, denied) ==
  IF q.name = "PutBucketAcl" THEN UNCHANGED echoes
  ELSE \E id \in EngineIdentities :
         echoes' = echoes \union
           {Recorded([name |-> "PutBucketEncryption",
                      asks |-> Remediated(q).encryption], id, denied)}

RemediationApplied(d) ==
  /\ pc[d] = "remediate"
  /\ Change(Remediated(Request(d)), {}, "remediation")
  /\ EchoedAs(Request(d), FALSE)
  /\ Decide(d, "applied", "metric")
  /\ UNCHANGED <<tags, record, reportVars>>

(* Faulty variant: a throttle is recorded as a failed remediation.         *)
RemediationThrottledFails(d) ==
  /\ pc[d] = "remediate"
  /\ Decide(d, "failed", "metric")
  /\ UNCHANGED <<accountVars, recordVars, reportVars>>

RemediationThrottled(d) ==
  /\ pc[d] = "remediate"
  /\ Publish(d, "throttled", "metric")
  /\ Raise(d)
  /\ UNCHANGED <<accountVars, recordVars, refused>>

RemediationRefused(d) ==
  /\ pc[d] = "remediate"
  /\ refused' = refused \union {d}
  /\ EchoedAs(Request(d), TRUE)
  /\ Decide(d, "failed", "metric")
  /\ UNCHANGED <<accountVars, record, published, lost>>

(* The two rules that report and change nothing.  Only ownership moving    *)
(* off BucketOwnerEnforced matters, and a record may not say which way it  *)
(* went.                                                                   *)
ReportWeakened(d) ==
  /\ Handles(d, {"DeleteBucketPublicAccessBlock", "PutBucketOwnershipControls"})
  /\ Request(d) \notin Nameless
  /\ Request(d).asks # "BucketOwnerEnforced"
  /\ Decide(d, "weakened", "metric")
  /\ UNCHANGED <<accountVars, recordVars, reportVars>>

OwnershipUnreadable(d) ==
  /\ Handles(d, {"PutBucketOwnershipControls"})
  /\ Request(d) \notin Nameless
  /\ Decide(d, "undetermined", "mail")
  /\ UNCHANGED <<accountVars, recordVars, reportVars>>

OwnershipEnforced(d) ==
  /\ Handles(d, {"PutBucketOwnershipControls"})
  /\ Request(d) \notin Nameless
  /\ Request(d).asks = "BucketOwnerEnforced"
  /\ Return(d)
  /\ UNCHANGED <<accountVars, recordVars, reportVars>>

(* Every verdict ends in a metric and then a mail; "undetermined" has no   *)
(* metric here.                                                            *)
PublishMetric(d) ==
  /\ pc[d] = "metric"
  /\ Publish(d, verdict[d], "metric")
  /\ Decide(d, verdict[d], "mail")
  /\ UNCHANGED <<accountVars, recordVars, refused>>

(* Faulty variant: an applied exemption is counted, and mailed to nobody.  *)
SendMailUnlessExempt(d) ==
  /\ pc[d] = "mail"
  /\ IF verdict[d] = "exempt" THEN UNCHANGED <<published, lost>>
     ELSE Publish(d, verdict[d], "mail")
  /\ Return(d)
  /\ UNCHANGED <<accountVars, recordVars, refused>>

SendMail(d) ==
  /\ pc[d] = "mail"
  /\ Publish(d, verdict[d], "mail")
  /\ Return(d)
  /\ UNCHANGED <<accountVars, recordVars, refused>>

Handle(d) ==
  \/ DropOwnCall(d) \/ DropRejectedCall(d) \/ MissBucketName(d)
  \/ TagsUnreadable(d) \/ TagsExempt(d) \/ TagsJudged(d)
  \/ RemediationApplied(d)
  \/ RemediationThrottled(d) \/ RemediationRefused(d)
  \/ ReportWeakened(d) \/ OwnershipUnreadable(d) \/ OwnershipEnforced(d)
  \/ PublishMetric(d) \/ SendMail(d)

Next ==
  \/ \E d \in Deliveries :
       \/ \E q \in Requests, id \in Callers : Call(d, q, id) \/ CallRejected(d, q, id)
       \/ \E e \in Deliveries : Redeliver(d, e)
       \/ \E rec \in echoes : DeliverEcho(d, rec)
       \/ Start(d) \/ Expire(d) \/ Crash(d) \/ Handle(d)
  \/ \E on \in BlockSettings : PutBlock(on)
  \/ \E t \in {"not_tagged", "exempt", "rejected"} : ChangeTags(t)

(* As in SgRules: Lambda keeps starting events and bounds every attempt.   *)
Fairness ==
  \A d \in Deliveries : WF_vars(Start(d)) /\ WF_vars(Handle(d) \/ Crash(d))

Spec == Init /\ [][Next]_vars /\ Fairness

-----------------------------------------------------------------------------

Verdicts == {"none", "blocked", "exempt", "applied", "failed", "weakened", "undetermined"}

Records == [request : AllRequests, caller : Identities, denied : BOOLEAN]

TypeOK ==
  /\ roleKnown \in BOOLEAN
  /\ bucket \in Buckets
  /\ tags \in {"not_tagged", "exempt", "rejected"}
  /\ record \in [Deliveries -> Records \union {NoRecord}]
  /\ echoes \subseteq Records
  /\ Platform!TypeOK
  /\ pc \in [Deliveries -> {"idle", "guard", "remediate", "metric", "mail"}]
  /\ verdict \in [Deliveries -> Verdicts]
  /\ published \subseteq
       [by : Deliveries, channel : {"metric", "mail"},
        what : Verdicts \union {"exemption rejected", "throttled"}]
  /\ lost \subseteq Deliveries
  /\ refused \subseteq Deliveries
  /\ openers \subseteq Deliveries \union {"nobody"}
  /\ weakeners \subseteq Deliveries

(* A mail told a human of what the delivery's call did to the bucket.      *)
Told(d) ==
  \E v \in {"exempt", "failed", "weakened", "undetermined"} :
    Note(d, v, "mail") \in published

AccountsFor(d) ==
  \/ status[d] \in {"queued", "dlq"}
  \/ status[d] = "running" /\ verdict[d] # "applied"
  \/ Told(d)
  \/ d \in lost

(* Nobody is owed an answer: a call that left the bucket public, as it has *)
(* been ever since, is still to be handled, or a human was mailed about    *)
(* it, or it sits in the dead letter queue.  In particular an all-clear is *)
(* never sent for a bucket that stayed public, and a public bucket no      *)
(* delivery answers for does not exist, but for one opened by the call no  *)
(* rule matches.  Only a mail that SNS did not take excuses a delivery.    *)
PublicBucketAccountedFor ==
  /\ Public(bucket) => openers # {}
  /\ \A d \in openers \ {"nobody"} : AccountsFor(d)

(* The same for encryption: a call that left the bucket on the baseline,   *)
(* as it has been ever since, is still to be handled or somebody knows. In *)
(* particular nobody's call is taken for the engine's own.                 *)
WeakEncryptionAccountedFor == \A d \in weakeners : AccountsFor(d)

(* Replaying must not manufacture a failure (test_replay_safety): after    *)
(* lost answers, throttles and repeats, a failure is reported only for a   *)
(* remediation S3 refused.                                                 *)
NoManufacturedFailure ==
  \A n \in published : n.what = "failed" => n.by \in refused

(* The engine's own calls say nothing and change nothing: whatever form    *)
(* their identity takes, and whether they succeeded or were rejected, no   *)
(* metric and no mail comes of them.                                       *)
OwnCallsAreQuiet ==
  roleKnown => \A n \in published : record[n.by].caller \notin EngineIdentities

(* No feedback loop even when ENGINE_ROLE_ARN is unset and the guard fails *)
(* open: the engine never remediates what it wrote itself, because what it *)
(* writes satisfies what it looks for.                                     *)
NoFeedbackLoop ==
  \A d \in Deliveries :
    pc[d] = "remediate" => record[d].caller \notin EngineIdentities

(* A bucket left public is dealt with in the end: closed, or left to a     *)
(* human by mail or by the dead letter queue.                              *)
PublicResolved ==
  \A d \in Deliveries :
    (d \in openers) ~> (d \notin openers \/ status[d] = "dlq" \/ Told(d))

=============================================================================
