--------------------------- MODULE S3RulesProofs ---------------------------
(***************************************************************************)
(* What holds of the S3 rules for every set of deliveries, requests and    *)
(* callers, any number of retries and any reservation, whether             *)
(* ENGINE_ROLE_ARN is set or not.                                          *)
(***************************************************************************)
EXTENDS S3Rules, TLAPS

USE DEF accountVars, recordVars, lambdaVars, localVars, reportVars

Account ==
  /\ bucket \in Buckets
  /\ openers \subseteq Deliveries \union {"nobody"}
  /\ weakeners \subseteq Deliveries

Notes == [by : Deliveries, channel : {"metric", "mail"},
          what : Verdicts \union {"exemption rejected", "throttled"}]

Reports ==
  /\ published \subseteq Notes
  /\ lost \subseteq Deliveries
  /\ refused \subseteq Deliveries

(* Where the handler is agrees with where Lambda thinks it is, and with    *)
(* what it has found out of its record so far.                             *)
Local(d) ==
  /\ status[d] = "unsent" => attempts[d] = 0 /\ record[d] = NoRecord
  /\ status[d] = "queued" => attempts[d] < MaxAttempts
  /\ status[d] # "unsent" => record[d] \in Records
  /\ pc[d] # "idle" <=> status[d] = "running"
  /\ verdict[d] # "none" <=> pc[d] \in {"metric", "mail"}
  /\ pc[d] \in {"remediate", "metric", "mail"} => ~IsSelfInvocation(record[d].caller)
  /\ pc[d] = "remediate" =>
       ~record[d].denied /\ Request(d).name \in Remediating /\ ViolationRequested(Request(d))
  /\ verdict[d] = "blocked" => record[d].denied
  /\ verdict[d] = "failed" => d \in refused

Shape == TypeOK /\ \A d \in Deliveries : Local(d)

-----------------------------------------------------------------------------
(* The operators of the model.                                             *)

LEMMA RecordedTyped ==
  ASSUME NEW q \in AllRequests, NEW id \in Identities, NEW denied \in BOOLEAN
  PROVE  Recorded(q, id, denied) \in Records
BY DEF Recorded, Records

LEMMA NoteTyped ==
  ASSUME NEW d \in Deliveries, NEW what \in Verdicts \union {"exemption rejected", "throttled"},
         NEW channel \in {"metric", "mail"}
  PROVE  Note(d, what, channel) \in Notes
BY DEF Note, Notes

(* A request, by what it asks for.                                         *)
LEMMA RequestKinds ==
  ASSUME NEW q \in AllRequests
  PROVE  /\ q.name \in {"PutBucketAcl", "PutBucketEncryption",
                        "DeleteBucketPublicAccessBlock", "PutBucketOwnershipControls"}
         /\ q.name = "PutBucketAcl" <=> q.asks \in {"public", "private"}
         /\ q.name = "PutBucketEncryption" <=> q.asks \in {"AES256", "mandated key", "other key"}
         /\ q.name = "DeleteBucketPublicAccessBlock" <=> q.asks = "removal"
         /\ q.name = "PutBucketOwnershipControls" <=>
              q.asks \in {"BucketOwnerEnforced", "ObjectWriter"}
BY DEF AllRequests, AclRequests, EncryptionRequests, BlockRequests, OwnershipRequests

LEMMA ViolationsAskForIt ==
  ASSUME NEW q \in AllRequests
  PROVE  ViolationRequested(q) <=> q.asks \in {"public", "AES256"}
BY RequestKinds DEF ViolationRequested

LEMMA CallersAreOthers ==
  ASSUME NEW id \in Callers
  PROVE  id \in Identities /\ id \notin EngineIdentities /\ ~IsSelfInvocation(id)
BY CallersAssumption DEF EngineIdentities, IsSelfInvocation, Identities

(* Every form the engine's identity takes is recognised, once its role is  *)
(* known.                                                                  *)
LEMMA EngineRecognised ==
  ASSUME NEW id \in EngineIdentities, roleKnown
  PROVE  IsSelfInvocation(id)
BY DEF EngineIdentities, IsSelfInvocation

LEMMA AfterTyped ==
  ASSUME bucket \in Buckets, NEW q \in AllRequests
  PROVE  After(q) \in Buckets
<1>1. CASE q.name = "PutBucketAcl"
  <2>1. After(q) = [bucket EXCEPT !.acl = q.asks] /\ q.asks \in {"public", "private"}
    BY <1>1, RequestKinds DEF After
  <2> QED
    BY <2>1 DEF Buckets
<1>2. CASE q.name = "PutBucketEncryption"
  <2>1. /\ After(q) = [bucket EXCEPT !.encryption = q.asks]
        /\ q.asks \in {"AES256", "mandated key", "other key"}
    BY <1>2, RequestKinds DEF After
  <2> QED
    BY <2>1 DEF Buckets
<1>3. CASE q.name = "DeleteBucketPublicAccessBlock"
  BY <1>3 DEF After, Buckets
<1>4. CASE q.name = "PutBucketOwnershipControls"
  <2>1. /\ After(q) = [bucket EXCEPT !.ownership = q.asks]
        /\ q.asks \in {"BucketOwnerEnforced", "ObjectWriter"}
    BY <1>4, RequestKinds DEF After
  <2> QED
    BY <2>1 DEF Buckets
<1> QED
  BY <1>1, <1>2, <1>3, <1>4, RequestKinds

LEMMA RemediatedTyped ==
  ASSUME bucket \in Buckets, NEW q
  PROVE  Remediated(q) \in Buckets
BY DEF Remediated, Buckets

LEMMA ChangeTyped ==
  ASSUME Account, NEW b \in Buckets, NEW asks,
         NEW by \in SUBSET (Deliveries \union {"nobody"}),
         asks = "AES256" => by \subseteq Deliveries,
         Change(b, by, asks)
  PROVE  Account'
BY DEF Account, Change

(* What the engine asks for itself.                                        *)
MandatedKey == [name |-> "PutBucketEncryption", asks |-> "mandated key"]

MandatedKeyRecord(rec) == rec.request = MandatedKey

LEMMA EchoesAskForTheKey ==
  ASSUME bucket \in Buckets, NEW q \in AllRequests, q.name \in Remediating,
         NEW denied \in BOOLEAN, EchoedAs(q, denied)
  PROVE  \A rec \in echoes' \ echoes : rec \in Records /\ MandatedKeyRecord(rec)
<1>1. CASE q.name = "PutBucketAcl"
  BY <1>1 DEF EchoedAs
<1>2. CASE q.name = "PutBucketEncryption"
  <2>1. Remediated(q).encryption = "mandated key"
    BY <1>2 DEF Remediated, Buckets
  <2>2. PICK id \in EngineIdentities : echoes' = echoes \union {Recorded(MandatedKey, id, denied)}
    BY <1>2, <2>1 DEF EchoedAs, MandatedKey
  <2>3. MandatedKey \in AllRequests
    BY DEF MandatedKey, AllRequests, EncryptionRequests
  <2>4. id \in Identities
    BY DEF EngineIdentities, Identities
  <2>5. Recorded(MandatedKey, id, denied).request = MandatedKey
    BY DEF Recorded
  <2> QED
    BY <2>2, <2>3, <2>4, <2>5, RecordedTyped DEF MandatedKeyRecord
<1> QED
  BY <1>1, <1>2 DEF Remediating

LEMMA PublishTyped ==
  ASSUME Reports, NEW d \in Deliveries,
         NEW what \in Verdicts \union {"exemption rejected", "throttled"},
         NEW channel \in {"metric", "mail"}, Publish(d, what, channel), UNCHANGED refused
  PROVE  Reports'
BY NoteTyped DEF Publish, Reports

-----------------------------------------------------------------------------
(* The shape is inductive.                                                 *)

LEMMA ShapeInit == Init => Shape
<1> SUFFICES ASSUME Init PROVE Shape
  OBVIOUS
<1>1. bucket \in Buckets /\ roleKnown \in BOOLEAN
  BY BucketsAssumption, SwitchesAssumption DEF Init
<1>2. Platform!TypeOK /\ \A d \in Deliveries : status[d] = "unsent" /\ attempts[d] = 0
  BY PlatformAssumption DEF Init, Platform!Init, Platform!TypeOK, Platform!Status
<1>3. TypeOK
  BY <1>1, <1>2 DEF Init, TypeOK, Verdicts
<1> QED
  BY <1>2, <1>3 DEF Init, Shape, Local

(* A new delivery, of any record.                                          *)
LEMMA ShapeDeliver ==
  ASSUME Shape, UNCHANGED roleKnown, Account', echoes' \subseteq Records,
         NEW d \in Deliveries, NEW rec \in Records, Deliver(d, rec)
  PROVE  Shape'
<1>1. TypeOK'
  <2>1. record' \in [Deliveries -> Records \union {NoRecord}]
    BY DEF Shape, TypeOK, Deliver
  <2>2. Platform!TypeOK'
    BY DEF Shape, TypeOK, Deliver, Platform!Accept, Platform!TypeOK, Platform!Status
  <2> QED
    BY <2>1, <2>2 DEF Shape, TypeOK, Deliver, Account
<1>2. ASSUME NEW e \in Deliveries PROVE Local(e)'
  <2>1. CASE e = d
    <3>1. /\ status'[d] = "queued" /\ attempts'[d] = 0 /\ record'[d] = rec
          /\ UNCHANGED <<pc, verdict, refused>> /\ pc[d] = "idle" /\ verdict[d] = "none"
      BY DEF Shape, TypeOK, Local, Deliver, Platform!Accept, Platform!TypeOK
    <3> QED
      BY <2>1, <3>1, PlatformAssumption DEF Local
  <2>2. CASE e # d
    <3>1. /\ status'[e] = status[e] /\ attempts'[e] = attempts[e] /\ record'[e] = record[e]
          /\ UNCHANGED <<pc, verdict, refused, roleKnown>>
      BY <2>2 DEF Shape, TypeOK, Deliver, Platform!Accept, Platform!TypeOK
    <3> QED
      BY <3>1 DEF Shape, Local, IsSelfInvocation, Request
  <2> QED BY <2>1, <2>2
<1> QED
  BY <1>1, <1>2 DEF Shape

(* The end of an attempt, whether the handler returned or raised.          *)
LEMMA ShapeLeave ==
  ASSUME Shape, UNCHANGED <<accountVars, recordVars, refused>>, Reports',
         NEW d \in Deliveries, Return(d) \/ Raise(d)
  PROVE  Shape'
<1>1. /\ status[d] = "running" /\ UNCHANGED attempts
      /\ pc' = [pc EXCEPT ![d] = "idle"] /\ verdict' = [verdict EXCEPT ![d] = "none"]
      /\ \E s \in {"queued", "done", "dlq"} :
           /\ status' = [status EXCEPT ![d] = s]
           /\ s = "queued" => attempts[d] < MaxAttempts
  BY DEF Return, Raise, Leave, Platform!Succeed, Platform!Fail
<1>2. TypeOK'
  <2>1. Platform!TypeOK'
    <3>1. PICK s \in {"queued", "done", "dlq"} : status' = [status EXCEPT ![d] = s]
      BY <1>1
    <3>2. s \in Platform!Status
      BY DEF Platform!Status
    <3> QED
      BY <1>1, <3>1, <3>2 DEF Shape, TypeOK, Platform!TypeOK
  <2> QED
    BY <1>1, <2>1 DEF Shape, TypeOK, Reports, Notes, Verdicts
<1>3. ASSUME NEW e \in Deliveries PROVE Local(e)'
  BY <1>1, <1>3 DEF Shape, TypeOK, Platform!TypeOK, Local, IsSelfInvocation, Request
<1> QED
  BY <1>2, <1>3 DEF Shape

(* The handler goes on to its next call.                                   *)
LEMMA ShapeDecide ==
  ASSUME Shape, UNCHANGED <<roleKnown, tags, record>>, Account', Reports',
         echoes' \subseteq Records, refused \subseteq refused',
         NEW d \in Deliveries, pc[d] # "idle", ~IsSelfInvocation(record[d].caller),
         NEW v \in Verdicts, NEW next \in {"remediate", "metric", "mail"},
         Decide(d, v, next),
         v = "none" <=> next = "remediate",
         v = "blocked" => record[d].denied,
         v = "failed" => d \in refused',
         next = "remediate" => /\ ~record[d].denied /\ Request(d).name \in Remediating
                               /\ ViolationRequested(Request(d))
  PROVE  Shape'
<1>1. /\ UNCHANGED <<status, attempts>>
      /\ pc' = [pc EXCEPT ![d] = next] /\ verdict' = [verdict EXCEPT ![d] = v]
  BY DEF Decide
<1>2. TypeOK'
  <2>1. Platform!TypeOK'
    BY <1>1 DEF Shape, TypeOK, Platform!TypeOK
  <2> QED
    BY <1>1, <2>1 DEF Shape, TypeOK, Account, Reports, Notes
<1>3. ASSUME NEW e \in Deliveries PROVE Local(e)'
  <2>1. CASE e = d
    <3>1. pc'[d] = next /\ verdict'[d] = v /\ status[d] = "running" /\ record[d] \in Records
      BY <1>1 DEF Shape, TypeOK, Local
    <3>2. IsSelfInvocation(record[d].caller)' <=> IsSelfInvocation(record[d].caller)
      BY DEF IsSelfInvocation
    <3>3. ViolationRequested(Request(d))' <=> ViolationRequested(Request(d))
      BY DEF ViolationRequested, Request
    <3>4. Request(d)' = Request(d)
      BY DEF Request
    <3> QED
      BY <1>1, <2>1, <3>1, <3>2, <3>3, <3>4 DEF Local
  <2>2. CASE e # d
    <3>1. pc'[e] = pc[e] /\ verdict'[e] = verdict[e]
      BY <1>1, <2>2 DEF Shape, TypeOK
    <3>2. IsSelfInvocation(record[e].caller)' <=> IsSelfInvocation(record[e].caller)
      BY DEF IsSelfInvocation
    <3>3. ViolationRequested(Request(e))' <=> ViolationRequested(Request(e))
      BY DEF ViolationRequested, Request
    <3>4. Request(e)' = Request(e)
      BY DEF Request
    <3> QED
      BY <1>1, <3>1, <3>2, <3>3, <3>4 DEF Shape, Local
  <2> QED BY <2>1, <2>2
<1> QED
  BY <1>2, <1>3 DEF Shape

(* What a handler that has passed the guards knows of its record.          *)
LEMMA HandlerKnows ==
  ASSUME Shape, NEW d \in Deliveries, pc[d] # "idle"
  PROVE  /\ status[d] = "running"
         /\ record[d] \in Records
         /\ Request(d) \in AllRequests
         /\ Account /\ Reports
         /\ verdict[d] \in Verdicts
<1>1. status[d] = "running" /\ record[d] \in Records
  BY DEF Shape, Local
<1> QED
  BY <1>1 DEF Request, Records, Shape, TypeOK, Account, Reports, Notes

LEMMA ShapeHandle ==
  ASSUME Shape, NEW d \in Deliveries, Handle(d)
  PROVE  Shape'
<1>1. CASE DropOwnCall(d) \/ MissBucketName(d) \/ TagsUnreadable(d) \/ OwnershipEnforced(d)
  <2>1. Reports'
    BY <1>1 DEF DropOwnCall, MissBucketName, TagsUnreadable, OwnershipEnforced,
                Shape, TypeOK, Reports, Notes
  <2> QED
    BY <1>1, <2>1, ShapeLeave DEF DropOwnCall, MissBucketName, TagsUnreadable, OwnershipEnforced
<1>2. CASE DropRejectedCall(d)
  <2>1. pc[d] = "guard" /\ ~IsSelfInvocation(record[d].caller) /\ record[d].denied
    BY <1>2 DEF DropRejectedCall, Passes
  <2>2. Account' /\ Reports' /\ echoes' \subseteq Records
    BY <1>2, <2>1, HandlerKnows DEF DropRejectedCall, Account, Reports, Shape, TypeOK
  <2> QED
    BY <1>2, <2>1, <2>2, ShapeDecide DEF DropRejectedCall, Verdicts
<1>3. CASE TagsExempt(d) \/ ReportWeakened(d) \/ OwnershipUnreadable(d)
  <2>1. pc[d] = "guard" /\ ~IsSelfInvocation(record[d].caller)
    BY <1>3 DEF TagsExempt, ReportWeakened, OwnershipUnreadable, ReadsTags, Handles, Passes
  <2>2. UNCHANGED <<accountVars, recordVars, reportVars>>
    BY <1>3 DEF TagsExempt, ReportWeakened, OwnershipUnreadable
  <2>3. Account' /\ Reports' /\ echoes' \subseteq Records
    BY <2>1, <2>2, HandlerKnows DEF Account, Reports, Shape, TypeOK
  <2>4. \E v \in {"exempt", "weakened", "undetermined"}, next \in {"metric", "mail"} :
          Decide(d, v, next)
    BY <1>3 DEF TagsExempt, ReportWeakened, OwnershipUnreadable
  <2> QED
    BY <2>1, <2>2, <2>3, <2>4, ShapeDecide DEF Verdicts
<1>4. CASE TagsJudged(d)
  <2>1. /\ pc[d] = "guard" /\ ~IsSelfInvocation(record[d].caller) /\ ~record[d].denied
        /\ Request(d).name \in Remediating
    BY <1>4 DEF TagsJudged, ReadsTags, Handles, Passes
  <2>2. Reports'
    <3>1. CASE tags = "rejected"
      BY <1>4, <2>1, <3>1, HandlerKnows, PublishTyped DEF TagsJudged
    <3>2. CASE tags # "rejected"
      BY <1>4, <2>1, <3>2, HandlerKnows DEF TagsJudged, Reports
    <3> QED BY <3>1, <3>2
  <2>3. Account' /\ echoes' \subseteq Records /\ UNCHANGED <<accountVars, recordVars, refused>>
    BY <1>4, <2>1, HandlerKnows DEF TagsJudged, Account, Shape, TypeOK
  <2>4. CASE ViolationRequested(Request(d))
    BY <1>4, <2>1, <2>2, <2>3, <2>4, ShapeDecide DEF TagsJudged, Verdicts
  <2>5. CASE ~ViolationRequested(Request(d))
    BY <1>4, <2>2, <2>3, <2>5, ShapeLeave DEF TagsJudged
  <2> QED BY <2>4, <2>5
<1>5. CASE RemediationApplied(d)
  <2>1. /\ pc[d] = "remediate" /\ ~IsSelfInvocation(record[d].caller)
        /\ Request(d).name \in Remediating
    BY <1>5 DEF RemediationApplied, Shape, Local
  <2>2. Account'
    BY <1>5, <2>1, HandlerKnows, RemediatedTyped, ChangeTyped DEF RemediationApplied, Account
  <2>3. Reports' /\ echoes' \subseteq Records
    BY <1>5, <2>1, HandlerKnows, EchoesAskForTheKey
    DEF RemediationApplied, Reports, Account, Shape, TypeOK
  <2>4. UNCHANGED <<roleKnown, tags, record, refused>>
    BY <1>5 DEF RemediationApplied, Change
  <2> QED
    BY <1>5, <2>1, <2>2, <2>3, <2>4, ShapeDecide DEF RemediationApplied, Verdicts
<1>6. CASE RemediationThrottled(d)
  <2>1. Reports'
    BY <1>6, HandlerKnows, PublishTyped DEF RemediationThrottled
  <2> QED
    BY <1>6, <2>1, ShapeLeave DEF RemediationThrottled
<1>7. CASE RemediationRefused(d)
  <2>1. /\ pc[d] = "remediate" /\ ~IsSelfInvocation(record[d].caller)
        /\ Request(d).name \in Remediating
    BY <1>7 DEF RemediationRefused, Shape, Local
  <2>2. Account' /\ Reports' /\ echoes' \subseteq Records
    BY <1>7, <2>1, HandlerKnows, EchoesAskForTheKey
    DEF RemediationRefused, Reports, Account, Shape, TypeOK
  <2>3. UNCHANGED <<roleKnown, tags, record>> /\ refused \subseteq refused' /\ d \in refused'
    BY <1>7 DEF RemediationRefused
  <2> QED
    BY <1>7, <2>1, <2>2, <2>3, ShapeDecide DEF RemediationRefused, Verdicts
<1>8. CASE PublishMetric(d)
  <2>1. /\ pc[d] = "metric" /\ ~IsSelfInvocation(record[d].caller) /\ verdict[d] # "none"
        /\ verdict[d] = "blocked" => record[d].denied
        /\ verdict[d] = "failed" => d \in refused
    BY <1>8 DEF PublishMetric, Shape, Local
  <2>2. Account' /\ Reports' /\ echoes' \subseteq Records
    BY <1>8, <2>1, HandlerKnows, PublishTyped DEF PublishMetric, Account, Shape, TypeOK
  <2> QED
    BY <1>8, <2>1, <2>2, HandlerKnows, ShapeDecide DEF PublishMetric
<1>9. CASE SendMail(d)
  <2>1. Reports'
    BY <1>9, HandlerKnows, PublishTyped DEF SendMail
  <2> QED
    BY <1>9, <2>1, ShapeLeave DEF SendMail
<1> QED
  BY <1>1, <1>2, <1>3, <1>4, <1>5, <1>6, <1>7, <1>8, <1>9 DEF Handle

LEMMA ShapeNext == Shape /\ [Next]_vars => Shape'
<1> SUFFICES ASSUME Shape, [Next]_vars PROVE Shape'
  OBVIOUS
<1>1. Account /\ Reports /\ echoes \subseteq Records
  BY DEF Shape, TypeOK, Account, Reports, Notes
<1>2. ASSUME NEW d \in Deliveries, NEW q \in Requests, NEW id \in Callers, Call(d, q, id)
      PROVE  Shape'
  <2>1. q \in AllRequests /\ id \in Identities
    BY RequestsAssumption, CallersAreOthers
  <2>2. Recorded(q, id, FALSE) \in Records
    BY <2>1, RecordedTyped
  <2>3. Account'
    BY <1>1, <1>2, <2>1, AfterTyped, ChangeTyped DEF Call, Account
  <2> QED
    BY <1>1, <1>2, <2>2, <2>3, ShapeDeliver DEF Call, Change
<1>3. ASSUME NEW d \in Deliveries, NEW q \in Requests, NEW id \in Callers,
             CallRejected(d, q, id)
      PROVE  Shape'
  <2>1. Recorded(q, id, TRUE) \in Records
    BY RequestsAssumption, CallersAreOthers, RecordedTyped
  <2> QED
    BY <1>1, <1>3, <2>1, ShapeDeliver DEF CallRejected, Account
<1>4. ASSUME NEW d \in Deliveries, NEW e \in Deliveries, Redeliver(d, e)
      PROVE  Shape'
  <2>1. record[e] \in Records
    BY <1>4 DEF Redeliver, Shape, TypeOK
  <2> QED
    BY <1>1, <1>4, <2>1, ShapeDeliver DEF Redeliver, Account
<1>5. ASSUME NEW d \in Deliveries, NEW rec \in echoes, DeliverEcho(d, rec)
      PROVE  Shape'
  BY <1>1, <1>5, ShapeDeliver DEF DeliverEcho, Account
<1>6. ASSUME NEW d \in Deliveries, Start(d)
      PROVE  Shape'
  <2>1. Platform!TypeOK'
    <3>1. attempts[d] \in 0 .. MaxAttempts /\ attempts[d] < MaxAttempts
      BY <1>6 DEF Start, Platform!Start, Shape, TypeOK, Local, Platform!TypeOK
    <3>2. attempts[d] + 1 \in 0 .. MaxAttempts
      BY <3>1, PlatformAssumption
    <3>3. attempts' \in [Deliveries -> 0 .. MaxAttempts]
      BY <1>6, <3>2 DEF Start, Platform!Start, Shape, TypeOK, Platform!TypeOK
    <3> QED
      BY <1>6, <3>3 DEF Start, Platform!Start, Shape, TypeOK, Platform!TypeOK, Platform!Status
  <2>2. TypeOK'
    BY <1>6, <2>1 DEF Start, Shape, TypeOK
  <2>3. ASSUME NEW e \in Deliveries PROVE Local(e)'
    BY <1>6, <2>3
    DEF Start, Platform!Start, Platform!TypeOK, Shape, TypeOK, Local, IsSelfInvocation,
        Request, ViolationRequested
  <2> QED
    BY <2>2, <2>3 DEF Shape
<1>7. ASSUME NEW d \in Deliveries, Expire(d)
      PROVE  Shape'
  <2>1. Platform!TypeOK'
    BY <1>7 DEF Expire, Platform!Expire, Shape, TypeOK, Platform!TypeOK, Platform!Status
  <2>2. TypeOK'
    BY <1>7, <2>1 DEF Expire, Shape, TypeOK
  <2>3. ASSUME NEW e \in Deliveries PROVE Local(e)'
    BY <1>7, <2>3
    DEF Expire, Platform!Expire, Platform!TypeOK, Shape, TypeOK, Local, IsSelfInvocation,
        Request, ViolationRequested
  <2> QED
    BY <2>2, <2>3 DEF Shape
<1>8. ASSUME NEW d \in Deliveries, Crash(d)
      PROVE  Shape'
  BY <1>1, <1>8, ShapeLeave DEF Crash, Reports
<1>9. ASSUME NEW on \in BlockSettings, PutBlock(on)
      PROVE  Shape'
  <2> DEFINE asks == IF on THEN "block" ELSE "removal"
  <2>1. [bucket EXCEPT !.blocked = on] \in Buckets
    BY <1>1, SwitchesAssumption DEF Account, Buckets
  <2>2. Change([bucket EXCEPT !.blocked = on], {"nobody"}, asks) /\ asks # "AES256"
    BY <1>9 DEF PutBlock
  <2> HIDE DEF asks
  <2>3. Account'
    BY <1>1, <2>1, <2>2, ChangeTyped
  <2>4. roleKnown' = roleKnown
    BY <2>2 DEF Change
  <2> QED
    BY <1>9, <2>3, <2>4
    DEF PutBlock, Shape, TypeOK, Platform!TypeOK, Account, Local, IsSelfInvocation,
        Request, ViolationRequested
<1>10. ASSUME NEW t \in {"not_tagged", "exempt", "rejected"}, ChangeTags(t)
       PROVE  Shape'
  BY <1>10
  DEF ChangeTags, Shape, TypeOK, Platform!TypeOK, Local, IsSelfInvocation, Request,
      ViolationRequested
<1>11. CASE UNCHANGED vars
  BY <1>11
  DEF vars, Shape, TypeOK, Platform!TypeOK, Local, IsSelfInvocation, Request,
      ViolationRequested
<1>12. ASSUME NEW d \in Deliveries, Handle(d)
       PROVE  Shape'
  BY <1>12, ShapeHandle
<1> QED
  BY <1>2, <1>3, <1>4, <1>5, <1>6, <1>7, <1>8, <1>9, <1>10, <1>11, <1>12 DEF Next

(* Every variable keeps its type: in particular the bucket stays one of    *)
(* those S3 knows, and no event is started more than MaxAttempts times.    *)
THEOREM TypeCorrect == Spec => []TypeOK
<1>1. Shape => TypeOK
  BY DEF Shape
<1> QED
  BY <1>1, ShapeInit, ShapeNext, PTL DEF Spec

-----------------------------------------------------------------------------
(* What a step leaves alone and what it adds to the history.               *)

LEMMA HandlerEffect ==
  ASSUME Shape, NEW d \in Deliveries, Handle(d) \/ Crash(d)
  PROVE  /\ status[d] = "running"
         /\ UNCHANGED <<roleKnown, record, tags>>
         /\ refused \subseteq refused' /\ refused' \subseteq refused \union {d}
         /\ Return(d) \/ Raise(d) \/ \E v \in Verdicts : \E next : Decide(d, v, next)
<1>1. Crash(d) => \/ UNCHANGED <<roleKnown, record, tags, refused>> /\ Raise(d)
  BY DEF Crash
<1>2. UNCHANGED <<roleKnown, record, tags>>
  BY <1>1
  DEF Handle, DropOwnCall, DropRejectedCall, MissBucketName, TagsUnreadable, TagsExempt,
      TagsJudged, RemediationApplied, Change, RemediationThrottled, RemediationRefused,
      ReportWeakened, OwnershipUnreadable, OwnershipEnforced, PublishMetric, SendMail
<1>3. refused \subseteq refused' /\ refused' \subseteq refused \union {d}
  BY <1>1
  DEF Handle, DropOwnCall, DropRejectedCall, MissBucketName, TagsUnreadable, TagsExempt,
      TagsJudged, RemediationApplied, RemediationThrottled, RemediationRefused,
      ReportWeakened, OwnershipUnreadable, OwnershipEnforced, PublishMetric, SendMail
<1>4. verdict[d] \in Verdicts
  BY DEF Shape, TypeOK
<1>5. Return(d) \/ Raise(d) \/ \E v \in Verdicts : \E next : Decide(d, v, next)
  BY <1>1, <1>4
  DEF Handle, DropOwnCall, DropRejectedCall, MissBucketName, TagsUnreadable, TagsExempt,
      TagsJudged, RemediationApplied, RemediationThrottled, RemediationRefused,
      ReportWeakened, OwnershipUnreadable, OwnershipEnforced, PublishMetric, SendMail,
      Verdicts
<1>6. status[d] = "running"
  <2>1. CASE Handle(d)
    <3>1. pc[d] # "idle"
      BY <2>1
      DEF Handle, DropOwnCall, DropRejectedCall, MissBucketName, TagsUnreadable, TagsExempt,
          TagsJudged, RemediationApplied, RemediationThrottled, RemediationRefused,
          ReportWeakened, OwnershipUnreadable, OwnershipEnforced, PublishMetric, SendMail,
          ReadsTags, Handles, Passes
    <3> QED
      BY <3>1, HandlerKnows
  <2>2. CASE Crash(d)
    BY <2>2 DEF Crash, Raise, Platform!Fail
  <2> QED
    BY <2>1, <2>2
<1> QED
  BY <1>2, <1>3, <1>5, <1>6

(* A step of one delivery leaves the others where they are.                *)
LEMMA OthersKept ==
  ASSUME Shape, NEW d \in Deliveries, Start(d) \/ Expire(d) \/ Crash(d) \/ Handle(d)
  PROVE  /\ status[d] # "unsent" /\ status'[d] # "unsent"
         /\ UNCHANGED <<roleKnown, record, tags>>
         /\ \A e \in Deliveries \ {d} :
              status'[e] = status[e] /\ pc'[e] = pc[e] /\ verdict'[e] = verdict[e]
<1> USE DEF Shape, TypeOK, Platform!TypeOK
<1>1. CASE Start(d) \/ Expire(d)
  <2>1. /\ status[d] = "queued" /\ UNCHANGED <<roleKnown, record, tags, verdict>>
        /\ \E s \in {"running", "dlq"} : status' = [status EXCEPT ![d] = s]
        /\ \A e \in Deliveries \ {d} : pc'[e] = pc[e]
    <3>1. CASE Start(d)
      <4>1. /\ status[d] = "queued" /\ status' = [status EXCEPT ![d] = "running"]
            /\ pc' = [pc EXCEPT ![d] = "guard"]
            /\ UNCHANGED <<roleKnown, record, tags, verdict>>
        BY <3>1 DEF Start, Platform!Start
      <4> QED
        BY <4>1
    <3>2. CASE Expire(d)
      BY <3>2 DEF Expire, Platform!Expire
    <3> QED
      BY <1>1, <3>1, <3>2
  <2> QED
    BY <2>1
<1>2. CASE Crash(d) \/ Handle(d)
  <2>1. status[d] = "running" /\ UNCHANGED <<roleKnown, record, tags>>
    BY <1>2, HandlerEffect
  <2>2. CASE Return(d)
    BY <2>1, <2>2 DEF Return, Leave, Platform!Succeed
  <2>3. CASE Raise(d)
    BY <2>1, <2>3 DEF Raise, Leave, Platform!Fail
  <2>4. ASSUME NEW v, NEW next, Decide(d, v, next)
        PROVE  /\ status' = status
               /\ \A e \in Deliveries \ {d} : pc'[e] = pc[e] /\ verdict'[e] = verdict[e]
    BY <2>4 DEF Decide
  <2> QED
    BY <1>2, <2>1, <2>2, <2>3, <2>4, HandlerEffect
<1> QED
  BY <1>1, <1>2

(* A handler publishes about its own delivery only, never of a call it     *)
(* takes for the engine's, and a failure only once it has seen one.        *)
LEMMA HandlerNotes ==
  ASSUME Shape, NEW d \in Deliveries, Handle(d), NEW n \in published' \ published
  PROVE  /\ n.by = d
         /\ status[d] = "running"
         /\ ~IsSelfInvocation(record[d].caller)
         /\ n.what = "failed" => verdict[d] = "failed"
<1>1. /\ pc[d] # "idle"
      /\ n.by = d
      /\ n.what = "failed" => verdict[d] = "failed"
      /\ ~IsSelfInvocation(record[d].caller)
  <2>1. CASE TagsJudged(d)
    <3>1. pc[d] = "guard" /\ ~IsSelfInvocation(record[d].caller)
      BY <2>1 DEF TagsJudged, ReadsTags, Handles, Passes
    <3>2. n = Note(d, "exemption rejected", "metric")
      BY <2>1 DEF TagsJudged, Publish
    <3>3. n.by = d /\ n.what = "exemption rejected"
      BY <3>2 DEF Note
    <3> QED
      BY <3>1, <3>3
  <2>2. CASE RemediationThrottled(d) \/ PublishMetric(d) \/ SendMail(d)
    <3>1. /\ pc[d] \in {"remediate", "metric", "mail"}
          /\ \E what \in {"throttled", verdict[d]}, channel \in {"metric", "mail"} :
               n = Note(d, what, channel)
      BY <2>2 DEF RemediationThrottled, PublishMetric, SendMail, Publish
    <3>2. n.by = d /\ n.what \in {"throttled", verdict[d]}
      BY <3>1 DEF Note
    <3> QED
      BY <3>1, <3>2 DEF Shape, Local
  <2>3. CASE ~(TagsJudged(d) \/ RemediationThrottled(d) \/ PublishMetric(d) \/ SendMail(d))
    <3>1. published' = published
      BY <2>3
      DEF Handle, DropOwnCall, DropRejectedCall, MissBucketName, TagsUnreadable, TagsExempt,
          RemediationApplied, RemediationRefused, ReportWeakened, OwnershipUnreadable,
          OwnershipEnforced
    <3> QED
      BY <3>1
  <2> QED
    BY <2>1, <2>2, <2>3
<1>2. status[d] = "running"
  BY <1>1, HandlerKnows
<1> QED
  BY <1>1, <1>2

LEMMA OthersPublishNothing ==
  ASSUME [Next]_vars, ~\E d \in Deliveries : Handle(d)
  PROVE  UNCHANGED <<published, lost, refused>>
BY DEF Next, vars, Call, CallRejected, Redeliver, DeliverEcho, Deliver, Start, Expire, Crash,
       PutBlock, ChangeTags

(* The record of a delivery, once made, is what the handler judges to the  *)
(* end.                                                                    *)
LEMMA RecordsFixed ==
  ASSUME Shape, [Next]_vars, NEW e \in Deliveries, status[e] # "unsent"
  PROVE  status'[e] # "unsent" /\ record'[e] = record[e] /\ roleKnown' = roleKnown
<1>1. ASSUME NEW d \in Deliveries, NEW rec, Deliver(d, rec), roleKnown' = roleKnown
      PROVE  status'[e] # "unsent" /\ record'[e] = record[e]
  BY <1>1 DEF Deliver, Platform!Accept, Shape, TypeOK, Platform!TypeOK
<1>2. ASSUME NEW d \in Deliveries, Start(d) \/ Expire(d) \/ Crash(d) \/ Handle(d)
      PROVE  status'[e] # "unsent" /\ record'[e] = record[e] /\ roleKnown' = roleKnown
  BY <1>2, OthersKept
<1>3. CASE \/ UNCHANGED vars
           \/ \E on \in BlockSettings : PutBlock(on)
           \/ \E t \in {"not_tagged", "exempt", "rejected"} : ChangeTags(t)
  BY <1>3 DEF vars, PutBlock, Change, ChangeTags
<1> QED
  BY <1>1, <1>2, <1>3 DEF Next, Call, Change, CallRejected, Redeliver, DeliverEcho

-----------------------------------------------------------------------------
(* The engine and its own calls.                                           *)

(* What reaches the engine in its own name asks for the mandated key.      *)
OwnRecords ==
  /\ \A rec \in echoes : MandatedKeyRecord(rec)
  /\ \A d \in Deliveries :
       status[d] # "unsent" /\ record[d].caller \in EngineIdentities =>
         MandatedKeyRecord(record[d])

Own == Shape /\ OwnRecords

LEMMA OwnNext == Own /\ [Next]_vars => Own'
<1> SUFFICES ASSUME Own, [Next]_vars PROVE OwnRecords'
  BY ShapeNext DEF Own
<1>1. Shape
  BY DEF Own
<1>2. ASSUME NEW rec \in echoes' PROVE MandatedKeyRecord(rec)
  <2>1. CASE rec \in echoes
    BY <2>1 DEF Own, OwnRecords
  <2>2. CASE rec \notin echoes
    <3>1. PICK d \in Deliveries : RemediationApplied(d) \/ RemediationRefused(d)
      BY <2>2
      DEF Next, vars, Call, CallRejected, Redeliver, DeliverEcho, Start, Expire, Crash,
          PutBlock, ChangeTags, Handle, DropOwnCall, DropRejectedCall, MissBucketName,
          TagsUnreadable, TagsExempt, TagsJudged, RemediationThrottled, ReportWeakened,
          OwnershipUnreadable, OwnershipEnforced, PublishMetric, SendMail
    <3>2. /\ pc[d] = "remediate"
          /\ \E denied \in BOOLEAN : EchoedAs(Request(d), denied)
      BY <3>1 DEF RemediationApplied, RemediationRefused
    <3>3. /\ Request(d) \in AllRequests /\ Request(d).name \in Remediating
          /\ bucket \in Buckets
      BY <1>1, <3>2, HandlerKnows DEF Shape, Local, TypeOK
    <3> QED
      BY <2>2, <3>2, <3>3, EchoesAskForTheKey
  <2> QED
    BY <2>1, <2>2
<1>3. ASSUME NEW e \in Deliveries, status'[e] # "unsent", record'[e].caller \in EngineIdentities
      PROVE  MandatedKeyRecord(record'[e])
  <2>1. CASE status[e] # "unsent"
    BY <1>1, <1>3, <2>1, RecordsFixed DEF Own, OwnRecords
  <2>2. CASE status[e] = "unsent"
    <3>1. ASSUME NEW d \in Deliveries, Start(d) \/ Expire(d) \/ Crash(d) \/ Handle(d)
          PROVE  FALSE
      BY <1>1, <1>3, <2>2, <3>1, OthersKept
    <3>2. PICK d, rec : /\ d \in Deliveries /\ Deliver(d, rec)
                        /\ \/ \E q \in Requests, id \in Callers, denied \in BOOLEAN :
                                rec = Recorded(q, id, denied)
                           \/ \E f \in Deliveries : record[f] # NoRecord /\ rec = record[f]
                           \/ rec \in echoes
      BY <1>3, <2>2, <3>1
      DEF Next, vars, Call, CallRejected, Redeliver, DeliverEcho, PutBlock, ChangeTags
    <3>3. d = e /\ record'[e] = rec
      BY <1>1, <1>3, <2>2, <3>2 DEF Deliver, Platform!Accept, Shape, TypeOK, Platform!TypeOK
    <3>4. CASE \E q \in Requests, id \in Callers, denied \in BOOLEAN :
                 rec = Recorded(q, id, denied)
      BY <1>3, <3>3, <3>4, CallersAreOthers DEF Recorded
    <3>5. ASSUME NEW f \in Deliveries, record[f] # NoRecord, rec = record[f]
          PROVE  MandatedKeyRecord(record'[e])
      BY <1>1, <1>3, <3>3, <3>5 DEF Shape, Local, Own, OwnRecords
    <3> QED
      BY <3>2, <3>3, <3>4, <3>5 DEF Own, OwnRecords
  <2> QED
    BY <2>1, <2>2
<1> QED
  BY <1>2, <1>3 DEF OwnRecords, MandatedKeyRecord

LEMMA OwnInit == Init => Own
<1> SUFFICES ASSUME Init PROVE OwnRecords
  BY ShapeInit DEF Own
<1>1. \A d \in Deliveries : status[d] = "unsent"
  BY DEF Init, Platform!Init
<1> QED
  BY <1>1 DEF Init, OwnRecords

(* Whether its role is known or not, whatever form its identity takes, and *)
(* however often a record of its own call is delivered, the engine never   *)
(* comes to remediate what it wrote itself.                                *)
THEOREM EngineNeverRemediatesItself == Spec => []NoFeedbackLoop
<1>1. Own => NoFeedbackLoop
  <2> SUFFICES ASSUME Own, NEW d \in Deliveries, pc[d] = "remediate",
                      record[d].caller \in EngineIdentities
               PROVE  FALSE
    BY DEF NoFeedbackLoop
  <2>1. status[d] = "running" /\ Request(d) \in AllRequests /\ ViolationRequested(Request(d))
    BY HandlerKnows DEF Own, Shape, Local
  <2>2. Request(d) = MandatedKey
    BY <2>1 DEF Own, OwnRecords, MandatedKeyRecord, Request
  <2>3. MandatedKey.asks = "mandated key"
    BY DEF MandatedKey
  <2> QED
    BY <2>1, <2>2, <2>3, ViolationsAskForIt
<1> QED
  BY <1>1, OwnInit, OwnNext, PTL DEF Spec

(* What was published is about a record the platform delivered, and not    *)
(* one of the engine's own.                                                *)
Quiet ==
  /\ Shape
  /\ \A n \in published : n.by \in Deliveries /\ status[n.by] # "unsent"
  /\ OwnCallsAreQuiet

LEMMA QuietNext == Quiet /\ [Next]_vars => Quiet'
<1> SUFFICES ASSUME Quiet, [Next]_vars PROVE Quiet'
  OBVIOUS
<1>1. Shape /\ Shape'
  BY ShapeNext DEF Quiet
<1>2. ASSUME NEW n \in published'
      PROVE  /\ n.by \in Deliveries /\ status'[n.by] # "unsent"
             /\ roleKnown' => record'[n.by].caller \notin EngineIdentities
  <2>1. /\ n.by \in Deliveries /\ status[n.by] # "unsent"
        /\ roleKnown => record[n.by].caller \notin EngineIdentities
    <3>1. CASE n \in published
      BY <3>1 DEF Quiet, OwnCallsAreQuiet
    <3>2. CASE n \notin published
      <4>1. PICK d \in Deliveries : Handle(d)
        BY <1>2, <3>2, OthersPublishNothing
      <4>2. n.by = d /\ status[d] = "running" /\ ~IsSelfInvocation(record[d].caller)
        BY <1>1, <1>2, <3>2, <4>1, HandlerNotes
      <4> QED
        BY <4>2, EngineRecognised
    <3> QED
      BY <3>1, <3>2
  <2> QED
    BY <1>1, <2>1, RecordsFixed
<1> QED
  BY <1>1, <1>2 DEF Quiet, OwnCallsAreQuiet

(* Once the engine knows its role, no metric and no mail ever comes of a   *)
(* call of its own, successful or rejected, delivered once or many times.  *)
THEOREM EngineIsSilentOnItself == Spec => []OwnCallsAreQuiet
<1>1. Init => Quiet
  BY ShapeInit DEF Init, Quiet, OwnCallsAreQuiet
<1>2. Quiet => OwnCallsAreQuiet
  BY DEF Quiet
<1> QED
  BY <1>1, <1>2, QuietNext, PTL DEF Spec

LEMMA RefusedGrows ==
  ASSUME Shape, [Next]_vars
  PROVE  refused \subseteq refused'
BY HandlerEffect, OthersPublishNothing

(* A failure is published only for a remediation S3 refused: no throttle,  *)
(* crash, retry or second delivery makes one up.                           *)
THEOREM FailuresAreReal == Spec => []NoManufacturedFailure
<1>1. Init => Shape /\ NoManufacturedFailure
  BY ShapeInit DEF Init, NoManufacturedFailure
<1>2. Shape /\ NoManufacturedFailure /\ [Next]_vars => NoManufacturedFailure'
  <2> SUFFICES ASSUME Shape, NoManufacturedFailure, [Next]_vars,
                      NEW n \in published', n.what = "failed"
               PROVE  n.by \in refused'
    BY DEF NoManufacturedFailure
  <2>1. n.by \in refused
    <3>1. CASE n \in published
      BY <3>1 DEF NoManufacturedFailure
    <3>2. CASE n \notin published
      <4>1. PICK d \in Deliveries : Handle(d)
        BY <3>2, OthersPublishNothing
      <4>2. n.by = d /\ verdict[d] = "failed"
        BY <3>2, <4>1, HandlerNotes
      <4> QED
        BY <4>2 DEF Shape, Local
    <3> QED
      BY <3>1, <3>2
  <2> QED
    BY <2>1, RefusedGrows
<1> QED
  BY <1>1, <1>2, ShapeNext, PTL DEF Spec

-----------------------------------------------------------------------------
(* Nobody is owed an answer.                                               *)

(* Every record that opens the bucket or weakens its encryption names it.  *)
Reachable ==
  \A q \in Nameless : q.asks \notin {"public", "removal", "ObjectWriter", "AES256"}

(* What the handler has still to do, or has done, about a call that asked  *)
(* for one of these things and was not dealt with.                         *)
Owes(d, what) ==
  /\ status[d] # "unsent"
  /\ ~record[d].denied
  /\ Request(d).asks \in what
  /\ Request(d) \notin Nameless
  /\ ~IsSelfInvocation(record[d].caller)
  /\ verdict[d] # "applied"
  /\ AccountsFor(d)

Opens == {"public", "removal", "ObjectWriter"}
Weakens == {"AES256"}

LEMMA HistoryGrows ==
  ASSUME Shape, [Next]_vars
  PROVE  published \subseteq published' /\ lost \subseteq lost'
<1>1. ASSUME NEW d \in Deliveries, Handle(d)
      PROVE  published \subseteq published' /\ lost \subseteq lost'
  BY <1>1
  DEF Handle, DropOwnCall, DropRejectedCall, MissBucketName, TagsUnreadable, TagsExempt,
      TagsJudged, RemediationApplied, RemediationThrottled, RemediationRefused, Publish,
      ReportWeakened, OwnershipUnreadable, OwnershipEnforced, PublishMetric, SendMail
<1> QED
  BY <1>1, OthersPublishNothing

(* A handler that owes an answer goes on owing it or gives it, unless it   *)
(* remediates.                                                             *)
LEMMA HandlerAnswers ==
  ASSUME Shape, NEW d \in Deliveries, Handle(d), ~RemediationApplied(d),
         NEW what \in {Opens, Weakens}, Owes(d, what)
  PROVE  Owes(d, what)'
<1>1. /\ status[d] = "running" /\ Shape' /\ record[d] \in Records
      /\ UNCHANGED <<roleKnown, record>> /\ published \subseteq published' /\ lost \subseteq lost'
  BY HandlerEffect, HandlerKnows, ShapeHandle, HistoryGrows DEF Next, Shape, Local
<1>2. ASSUME status'[d] # "unsent", verdict'[d] # "applied", AccountsFor(d)'
      PROVE  Owes(d, what)'
  BY <1>1, <1>2 DEF Owes, Request, IsSelfInvocation
<1>3. Request(d) \in AllRequests /\ Request(d).asks \in {"public", "removal", "ObjectWriter", "AES256"}
  BY <1>1 DEF Owes, Opens, Weakens, Records, Request
<1>4. ASSUME Raise(d)
      PROVE  Owes(d, what)'
  <2>1. status'[d] \in {"queued", "dlq"} /\ verdict'[d] = "none"
    BY <1>4 DEF Raise, Leave, Platform!Fail, Shape, TypeOK, Platform!TypeOK
  <2> QED
    BY <1>2, <2>1 DEF AccountsFor
<1>5. ASSUME NEW v \in Verdicts \ {"applied"}, NEW next, Decide(d, v, next)
      PROVE  Owes(d, what)'
  <2>1. status'[d] = "running" /\ verdict'[d] = v
    BY <1>1, <1>5 DEF Decide, Shape, TypeOK
  <2> QED
    BY <1>2, <2>1 DEF AccountsFor
<1>6. CASE DropOwnCall(d) \/ MissBucketName(d) \/ OwnershipEnforced(d)
  BY <1>3, <1>6 DEF DropOwnCall, MissBucketName, OwnershipEnforced, Owes
<1>7. CASE TagsUnreadable(d) \/ RemediationThrottled(d)
  BY <1>4, <1>7 DEF TagsUnreadable, RemediationThrottled
<1>8. CASE \/ DropRejectedCall(d) \/ TagsExempt(d) \/ RemediationRefused(d)
           \/ ReportWeakened(d) \/ OwnershipUnreadable(d)
  BY <1>5, <1>8
  DEF DropRejectedCall, TagsExempt, RemediationRefused, ReportWeakened,
      OwnershipUnreadable, Verdicts
<1>9. CASE TagsJudged(d)
  <2>1. Request(d).name \in Remediating
    BY <1>9 DEF TagsJudged, ReadsTags, Handles
  <2>2. ViolationRequested(Request(d))
    BY <1>3, <2>1, RequestKinds, ViolationsAskForIt DEF Remediating
  <2> QED
    BY <1>5, <1>9, <2>2 DEF TagsJudged, Verdicts
<1>10. CASE PublishMetric(d)
  <2>1. verdict[d] \in Verdicts \ {"applied"}
    BY DEF Owes, Shape, TypeOK
  <2> QED
    BY <1>5, <1>10, <2>1 DEF PublishMetric
<1>11. CASE SendMail(d)
  <2>1. verdict[d] \in {"exempt", "failed", "weakened", "undetermined"}
    BY <1>11 DEF SendMail, Owes, Shape, TypeOK, Local, Verdicts
  <2>2. Publish(d, verdict[d], "mail") /\ Return(d)
    BY <1>11 DEF SendMail
  <2>3. Told(d)' \/ d \in lost'
    BY <2>1, <2>2 DEF Publish, Told, Note
  <2>4. status'[d] = "done" /\ verdict'[d] = "none"
    BY <2>2 DEF Return, Leave, Platform!Succeed, Shape, TypeOK, Platform!TypeOK
  <2> QED
    BY <1>2, <2>3, <2>4 DEF AccountsFor
<1> QED
  BY <1>6, <1>7, <1>8, <1>9, <1>10, <1>11 DEF Handle

LEMMA OwesKept ==
  ASSUME Shape, [Next]_vars, NEW e \in Deliveries, NEW what \in {Opens, Weakens},
         Owes(e, what), ~RemediationApplied(e)
  PROVE  Owes(e, what)'
<1>1. /\ published \subseteq published' /\ lost \subseteq lost'
      /\ status[e] # "unsent" /\ record'[e] = record[e] /\ roleKnown' = roleKnown
  BY HistoryGrows, RecordsFixed DEF Owes
<1>2. ASSUME status'[e] # "unsent", verdict'[e] # "applied", AccountsFor(e)'
      PROVE  Owes(e, what)'
  BY <1>1, <1>2 DEF Owes, Request, IsSelfInvocation
<1>3. ASSUME status'[e] = status[e], verdict'[e] = verdict[e]
      PROVE  Owes(e, what)'
  <2>1. AccountsFor(e)'
    BY <1>1, <1>3 DEF Owes, AccountsFor, Told, Note
  <2> QED
    BY <1>1, <1>2, <1>3, <2>1 DEF Owes
<1>4. ASSUME NEW d \in Deliveries, NEW rec, Deliver(d, rec)
      PROVE  Owes(e, what)'
  <2>1. status'[e] = status[e] /\ verdict'[e] = verdict[e]
    BY <1>1, <1>4 DEF Deliver, Platform!Accept, Shape, TypeOK, Platform!TypeOK
  <2> QED
    BY <1>3, <2>1
<1>5. ASSUME NEW d \in Deliveries, d # e, Start(d) \/ Expire(d) \/ Crash(d) \/ Handle(d)
      PROVE  Owes(e, what)'
  BY <1>3, <1>5, OthersKept
<1>6. ASSUME Start(e) \/ Expire(e) \/ Crash(e)
      PROVE  Owes(e, what)'
  <2>1. CASE Start(e)
    <3>1. status'[e] = "running" /\ verdict'[e] = verdict[e]
      BY <2>1 DEF Start, Platform!Start, Shape, TypeOK, Platform!TypeOK
    <3> QED
      BY <1>2, <3>1 DEF AccountsFor, Owes
  <2>2. CASE Expire(e)
    <3>1. status'[e] = "dlq" /\ verdict'[e] = verdict[e]
      BY <2>2 DEF Expire, Platform!Expire, Shape, TypeOK, Platform!TypeOK
    <3> QED
      BY <1>2, <3>1 DEF AccountsFor, Owes
  <2>3. CASE Crash(e)
    <3>1. status'[e] \in {"queued", "dlq"} /\ verdict'[e] = "none"
      BY <2>3 DEF Crash, Raise, Leave, Platform!Fail, Shape, TypeOK, Platform!TypeOK
    <3> QED
      BY <1>2, <3>1 DEF AccountsFor
  <2> QED
    BY <1>6, <2>1, <2>2, <2>3
<1>7. CASE \/ UNCHANGED vars
           \/ \E on \in BlockSettings : PutBlock(on)
           \/ \E t \in {"not_tagged", "exempt", "rejected"} : ChangeTags(t)
  BY <1>3, <1>7 DEF vars, PutBlock, ChangeTags
<1> QED
  BY <1>4, <1>5, <1>6, <1>7, HandlerAnswers
  DEF Next, Call, CallRejected, Redeliver, DeliverEcho

(* A call that AWS let through is owed an answer from the start.           *)
LEMMA CallOwes ==
  ASSUME Reachable, Shape, NEW d \in Deliveries, NEW q \in Requests, NEW id \in Callers,
         Call(d, q, id), NEW what \in {Opens, Weakens}, q.asks \in what
  PROVE  Owes(d, what)'
<1>1. /\ status'[d] = "queued" /\ record'[d] = Recorded(q, id, FALSE)
      /\ verdict'[d] = "none" /\ roleKnown' = roleKnown
  BY DEF Call, Change, Deliver, Platform!Accept, Shape, TypeOK, Local, Platform!TypeOK
<1>2. q \notin Nameless
  BY DEF Reachable, Opens, Weakens
<1>3. ~IsSelfInvocation(id)'
  BY <1>1, CallersAreOthers DEF IsSelfInvocation
<1>4. Recorded(q, id, FALSE).request = q /\ Recorded(q, id, FALSE).caller = id
        /\ ~Recorded(q, id, FALSE).denied
  BY DEF Recorded
<1> QED
  BY <1>1, <1>2, <1>3, <1>4 DEF Owes, Request, AccountsFor, IsSelfInvocation

(* The account changes by a call, by a person's PutPublicAccessBlock or by *)
(* a remediation.                                                          *)
LEMMA AccountChanges ==
  ASSUME [Next]_vars
  PROVE  \/ UNCHANGED <<bucket, openers, weakeners>>
         \/ \E d \in Deliveries, q \in Requests, id \in Callers :
              Call(d, q, id) /\ Change(After(q), {d}, q.asks)
         \/ \E on \in BlockSettings :
              Change([bucket EXCEPT !.blocked = on], {"nobody"},
                     IF on THEN "block" ELSE "removal")
         \/ \E d \in Deliveries :
              RemediationApplied(d) /\ Change(Remediated(Request(d)), {}, "remediation")
BY DEF Next, vars, Call, CallRejected, Redeliver, DeliverEcho, Start, Expire, Crash, PutBlock,
       ChangeTags, Handle, DropOwnCall, DropRejectedCall, MissBucketName, TagsUnreadable,
       TagsExempt, TagsJudged, RemediationApplied, RemediationThrottled, RemediationRefused,
       ReportWeakened, OwnershipUnreadable, OwnershipEnforced, PublishMetric, SendMail

(* Nobody is added to either history but by a call that asked for it.      *)
LEMMA HistoriesNext ==
  ASSUME [Next]_vars
  PROVE  /\ \A e \in openers' \ openers :
              \/ e = "nobody"
              \/ \E q \in Requests, id \in Callers :
                   e \in Deliveries /\ Call(e, q, id) /\ q.asks \in Opens
         /\ \A e \in weakeners' \ weakeners :
              \E q \in Requests, id \in Callers :
                e \in Deliveries /\ Call(e, q, id) /\ q.asks \in Weakens
<1>1. CASE UNCHANGED <<bucket, openers, weakeners>>
  BY <1>1
<1>2. ASSUME NEW d \in Deliveries, NEW q \in Requests, NEW id \in Callers,
             Call(d, q, id), Change(After(q), {d}, q.asks)
      PROVE  /\ \A e \in openers' \ openers : e = d /\ q.asks \in Opens
             /\ \A e \in weakeners' \ weakeners : e = d /\ q.asks \in Weakens
  BY <1>2 DEF Change, Opens, Weakens
<1>3. ASSUME NEW on \in BlockSettings,
             Change([bucket EXCEPT !.blocked = on], {"nobody"},
                    IF on THEN "block" ELSE "removal")
      PROVE  openers' \subseteq openers \union {"nobody"} /\ weakeners' \subseteq weakeners
  BY <1>3 DEF Change
<1>4. ASSUME NEW d \in Deliveries, Change(Remediated(Request(d)), {}, "remediation")
      PROVE  openers' \subseteq openers /\ weakeners' \subseteq weakeners
  BY <1>4 DEF Change
<1> QED
  BY <1>1, <1>2, <1>3, <1>4, AccountChanges

(* What the engine has remediated is closed, or encrypted again.           *)
LEMMA RemediationCloses ==
  ASSUME Shape, NEW d \in Deliveries, RemediationApplied(d)
  PROVE  /\ Request(d).asks \in Opens => openers' = {}
         /\ Request(d).asks \in Weakens => weakeners' = {}
<1>1. /\ pc[d] = "remediate" /\ Request(d) \in AllRequests /\ bucket \in Buckets
      /\ Request(d).asks \in {"public", "AES256"}
      /\ Change(Remediated(Request(d)), {}, "remediation")
  BY HandlerKnows, ViolationsAskForIt DEF RemediationApplied, Shape, Local, TypeOK
<1>2. ASSUME Request(d).asks = "public"
      PROVE  openers' = {}
  <2>1. Remediated(Request(d)).blocked
    BY <1>1, <1>2, RequestKinds DEF Remediated, Buckets
  <2> QED
    BY <1>1, <2>1 DEF Change, Public
<1>3. ASSUME Request(d).asks = "AES256"
      PROVE  weakeners' = {}
  <2>1. Remediated(Request(d)).encryption = "mandated key"
    BY <1>1, <1>3, RequestKinds DEF Remediated, Buckets
  <2> QED
    BY <1>1, <2>1 DEF Change, Weak
<1> QED
  BY <1>1, <1>2, <1>3 DEF Opens, Weakens

(* A bucket does not become public without somebody having opened it.      *)
LEMMA SomebodyOpened ==
  ASSUME Shape, [Next]_vars, Public(bucket) => openers # {}
  PROVE  Public(bucket') => openers' # {}
<1>1. bucket \in Buckets
  BY DEF Shape, TypeOK
<1>2. CASE UNCHANGED <<bucket, openers, weakeners>>
  BY <1>2
<1>3. ASSUME NEW d \in Deliveries, NEW q \in Requests, NEW id \in Callers,
             Call(d, q, id), Change(After(q), {d}, q.asks), Public(After(q))
      PROVE  openers' # {}
  <2>1. CASE q.asks \in Opens
    BY <1>3, <2>1 DEF Change, Opens
  <2>2. CASE q.asks \notin Opens
    <3>1. q.name = "PutBucketEncryption"
      <4>1. q \in AllRequests
        BY RequestsAssumption
      <4>2. ASSUME q.name # "PutBucketEncryption"
            PROVE  q.asks \in {"private", "BucketOwnerEnforced"}
        BY <2>2, <4>1, <4>2, RequestKinds DEF Opens
      <4>3. q.asks # "private"
        BY <1>1, <1>3, <4>1, RequestKinds DEF After, Public, Buckets
      <4>4. q.asks # "BucketOwnerEnforced"
        BY <1>1, <1>3, <4>1, RequestKinds DEF After, Public, Buckets
      <4> QED
        BY <4>2, <4>3, <4>4
    <3>2. Public(bucket)
      BY <1>1, <1>3, <3>1 DEF After, Public, Buckets
    <3> QED
      BY <1>3, <2>2, <3>2 DEF Change, Opens
  <2> QED
    BY <2>1, <2>2
<1>4. ASSUME NEW on \in BlockSettings,
             Change([bucket EXCEPT !.blocked = on], {"nobody"},
                    IF on THEN "block" ELSE "removal"),
             Public([bucket EXCEPT !.blocked = on])
      PROVE  openers' # {}
  <2>1. ~on
    BY <1>1, <1>4 DEF Public, Buckets
  <2> QED
    BY <1>4, <2>1 DEF Change
<1>5. ASSUME NEW d \in Deliveries, Change(Remediated(Request(d)), {}, "remediation"),
             Public(Remediated(Request(d)))
      PROVE  openers' # {}
  <2>1. Public(bucket)
    BY <1>1, <1>5 DEF Remediated, Public, Buckets
  <2> QED
    BY <1>5, <2>1 DEF Change
<1> QED
  BY <1>2, <1>3, <1>4, <1>5, AccountChanges DEF Change

OpenersAnswer ==
  /\ Shape
  /\ Public(bucket) => openers # {}
  /\ \A d \in openers \ {"nobody"} : Owes(d, Opens)

WeakenersAnswer ==
  /\ Shape
  /\ \A d \in weakeners : Owes(d, Weakens)

LEMMA OpenersAnswerNext ==
  ASSUME Reachable
  PROVE  OpenersAnswer /\ [Next]_vars => OpenersAnswer'
<1> SUFFICES ASSUME OpenersAnswer, [Next]_vars PROVE OpenersAnswer'
  OBVIOUS
<1>1. Shape /\ Shape'
  BY ShapeNext DEF OpenersAnswer
<1>2. ASSUME NEW e \in openers' \ {"nobody"}
      PROVE  Owes(e, Opens)'
  <2>1. CASE e \in openers
    <3>1. e \in Deliveries /\ Owes(e, Opens)
      BY <1>1, <1>2, <2>1 DEF OpenersAnswer, Shape, TypeOK
    <3>2. ~RemediationApplied(e)
      BY <1>1, <1>2, <3>1, RemediationCloses DEF Owes
    <3> QED
      BY <1>1, <3>1, <3>2, OwesKept
  <2>2. CASE e \notin openers
    BY <1>1, <1>2, <2>2, HistoriesNext, CallOwes
  <2> QED
    BY <2>1, <2>2
<1>3. Public(bucket') => openers' # {}
  BY <1>1, SomebodyOpened DEF OpenersAnswer
<1> QED
  BY <1>1, <1>2, <1>3 DEF OpenersAnswer

LEMMA WeakenersAnswerNext ==
  ASSUME Reachable
  PROVE  WeakenersAnswer /\ [Next]_vars => WeakenersAnswer'
<1> SUFFICES ASSUME WeakenersAnswer, [Next]_vars PROVE WeakenersAnswer'
  OBVIOUS
<1>1. Shape /\ Shape'
  BY ShapeNext DEF WeakenersAnswer
<1>2. ASSUME NEW e \in weakeners'
      PROVE  Owes(e, Weakens)'
  <2>1. CASE e \in weakeners
    <3>1. e \in Deliveries /\ Owes(e, Weakens)
      BY <1>1, <1>2, <2>1 DEF WeakenersAnswer, Shape, TypeOK
    <3>2. ~RemediationApplied(e)
      BY <1>1, <1>2, <3>1, RemediationCloses DEF Owes
    <3> QED
      BY <1>1, <3>1, <3>2, OwesKept
  <2>2. CASE e \notin weakeners
    BY <1>1, <1>2, <2>2, HistoriesNext, CallOwes
  <2> QED
    BY <2>1, <2>2
<1> QED
  BY <1>1, <1>2 DEF WeakenersAnswer

(* A public bucket always has a delivery, or the call no rule matches, to  *)
(* answer for it, and each such delivery is still to be handled, has had a *)
(* human mailed, or sits in the dead letter queue, for any number of       *)
(* people's calls, deliveries and retries, and whatever is lost on the way *)
(* but the mail itself.  Records that open the bucket name it.             *)
THEOREM PublicBucketIsAccountedFor ==
  ASSUME Reachable
  PROVE  Spec => []PublicBucketAccountedFor
<1>1. Init => OpenersAnswer
  <2> SUFFICES ASSUME Init PROVE OpenersAnswer
    OBVIOUS
  <2>1. bucket.acl = "private"
    BY BucketsAssumption DEF Init
  <2> QED
    BY <2>1, ShapeInit DEF Init, OpenersAnswer, Public
<1>2. OpenersAnswer => PublicBucketAccountedFor
  BY DEF OpenersAnswer, PublicBucketAccountedFor, Owes
<1> QED
  BY <1>1, <1>2, OpenersAnswerNext, PTL DEF Spec

(* The same for a call that left the bucket on the weaker encryption: in   *)
(* particular nobody's call is taken for the engine's own and dropped,     *)
(* though its role's name begin like the engine's.                         *)
THEOREM WeakEncryptionIsAccountedFor ==
  ASSUME Reachable
  PROVE  Spec => []WeakEncryptionAccountedFor
<1>1. Init => WeakenersAnswer
  BY ShapeInit DEF Init, WeakenersAnswer
<1>2. WeakenersAnswer => WeakEncryptionAccountedFor
  BY DEF WeakenersAnswer, WeakEncryptionAccountedFor, Owes
<1> QED
  BY <1>1, <1>2, WeakenersAnswerNext, PTL DEF Spec

-----------------------------------------------------------------------------
(* The handler refines the platform's promise.                             *)

(* Between two of a handler's calls Lambda sees nothing; otherwise it sees *)
(* a delivery accepted, started within the reservation, and ended, retried *)
(* or given up as lambda.tf configures, whichever of the rules ran.        *)
THEOREM HandlerImplementsDelivery == Spec => Platform!SafetySpec
<1>1. Init => Platform!Init
  BY DEF Init
<1>2. Shape /\ [Next]_vars => [Platform!Next]_(Platform!deliveryVars)
  <2> SUFFICES ASSUME Shape, [Next]_vars
               PROVE  [Platform!Next]_(Platform!deliveryVars)
    OBVIOUS
  <2> USE DEF Platform!Next, Platform!deliveryVars
  <2>1. ASSUME NEW d \in Deliveries, NEW rec, Deliver(d, rec)
        PROVE  Platform!Next
    BY <2>1 DEF Deliver
  <2>2. ASSUME NEW d \in Deliveries, Start(d) \/ Expire(d)
        PROVE  Platform!Next
    BY <2>2 DEF Start, Expire
  <2>3. ASSUME NEW d \in Deliveries, Crash(d) \/ Handle(d)
        PROVE  [Platform!Next]_(Platform!deliveryVars)
    <3>1. CASE Return(d) \/ Raise(d)
      BY <3>1 DEF Return, Raise
    <3>2. ASSUME NEW v, NEW next, Decide(d, v, next)
          PROVE  UNCHANGED Platform!deliveryVars
      BY <3>2 DEF Decide
    <3> QED
      BY <2>3, <3>1, <3>2, HandlerEffect
  <2>4. CASE \/ UNCHANGED vars
             \/ \E on \in BlockSettings : PutBlock(on)
             \/ \E t \in {"not_tagged", "exempt", "rejected"} : ChangeTags(t)
    BY <2>4 DEF vars, PutBlock, ChangeTags
  <2> QED
    BY <2>1, <2>2, <2>3, <2>4 DEF Next, Call, CallRejected, Redeliver, DeliverEcho
<1> QED
  BY <1>1, <1>2, ShapeInit, ShapeNext, PTL DEF Spec, Platform!SafetySpec

=============================================================================
