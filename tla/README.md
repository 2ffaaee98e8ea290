# Formal verification of the compliance remediation engine

TLA+ specifications of the AWS compliance remediation engine, the TLC runs that
check them on small instances, and TLAPS proofs of what holds of its detection and its
three rules, of its expiry sweep and of its reader for instances of every size. Every
invariant that a passing run checks is a theorem as well, under the assumptions that
section 4 names. Paths below are relative to the repository root.

## 1. The system

CloudTrail records an API call; an EventBridge rule matches it and invokes one
Lambda function asynchronously; `lambda_handler` drops what is not to be acted on
and routes the rest to a rule; the rule judges what was requested, remediates
through the AWS API, and publishes a metric and a mail. A failed invocation is
replayed *whole* by Lambda, twice, and then goes to a dead letter queue that has
an alarm. A daily schedule invokes the same function to announce exemptions that
are about to lapse. Beside the engine, a read-only MCP server answers questions
about it.

### Inventory

| Component | State it keeps | Operations | Correct when |
|---|---|---|---|
| Event delivery (`infrastructure/lambda.tf`, `eventbridge.tf`) | each accepted event: queued, running, done, dead-lettered; attempts made | accept, start within the reservation, succeed, fail and retry, expire | no accepted event is lost; a promised retry can be made; every event settles |
| Entry point (`src/lambda/handler.py`) | none across invocations | drop its own calls, report rejected calls, route, re-raise | its own calls never feed it; no other role is taken for it; a rejected call is no finding |
| Security-group rule (`rules/sg_rules.py`) | position in the loop over rules and ports, verdict on the rule | detect, group, revoke, report per port | every exposing rule is revoked, once, and no other that knows ports; no exposure forgotten; no failure made up; reports complete |
| S3 rules (`rules/s3_rules.py`) | verdict | four handlers: two remediate, two report | a public or weakly encrypted bucket is closed or known to a human |
| EC2 rule (`rules/ec2_rules.py`) | two batches of descriptions, position in the loop over instances, verdict | prefetch, describe, check volumes, tag, stop or terminate, report | no violator missed silently; nothing acted on by guess; a replay does not take a fix back |
| Exemption decision (`utils/exemption.py`) | none | parse the expiry, decide | a date lasts its day; an unusable expiry exempts nothing |
| Expiry sweep (`expiry_sweep.py`) | pages read, list of expiring resources | list, notify | every listed exemption is announced before it lapses |
| Notifier, metrics (`utils/notifier.py`, `utils/cloudwatch_utils.py`) | none | publish, swallowing errors | a lost publish never stops a remediation |
| AWS client (`utils/aws_client.py`) | none | bounded, retried calls; throttle classification | a throttle is re-raised, not recorded as a failure |
| Reader: resource state (`mcp_server/tools/resource_state.py`) | what the calls so far told | two or three lookups, a verdict of three values | the verdict is the engine's own; what cannot be read is never compliant |
| Reader: logs (`mcp_server/tools/logs.py`) | the query, polls made | start, poll, hand out, give up | an incomplete answer never passes for a complete one |
| Reader: exemptions (`mcp_server/tools/exemptions.py`) | page, entries so far | list page by page, judge each entry | what is listed as active the engine passes over; nothing missing without a word |
| Reader: posture (`mcp_server/tools/posture.py`) | none | search metrics, add up | shows what the engine counted |
| Agents (`mcp_server/agent.py`, `free_agent.py`) | turn, tool calls and results of the conversation | ask the model, make its calls, stop | the loop ends; each call has its result |
| MCP server (`mcp_server/server.py`, `config.py`) | none | register the tools, read the region | (dispatch only) |
| Alarms (`infrastructure/cloudwatch.tf`) | state of each alarm | sum a series each period | a count the engine published reaches its alarm |
| Identity, KMS, trail (`infrastructure/`) | - | declarative | (not modelled) |
| Scripts (`scripts/`) | - | run by hand | (not modelled) |

### What is hard

- *Replay.* An attempt is replayed from its first line, after any prefix of its
  calls took effect. What was revoked, stopped or mailed already is met again.
- *Concurrency.* The same record may be delivered twice, several records name the
  same resource, people act at the same time, and the rules judge the record
  while they act on the resource as it is now.
- *Partial failure.* Any call may be throttled, be refused, or lose its answer
  after taking effect; a batch may fail or leave things out; publishes are lost
  silently.
- *Feedback.* The engine's own `PutBucketEncryption` matches one of its rules.
- *Time.* Exemptions lapse with no event; the sweep may be late or fail, and its
  notices may be lost.
- *Two readings of one thing.* The reader judges resources by code of its own, in
  several calls between which they change; it names the engine's metrics from a
  list of its own; it filters log lines by a pattern while they still arrive.

`PROJECT.json` lists each hazard at its line with the properties that cover it.

## 2. The modules

| Module | Models |
|---|---|
| `Delivery` | the abstract promise of the platform, of which the rule modules are implementations; no run checks it alone |
| `SgDetection` | `is_public_ingress`, `group_by_rule`, `_revoke_rule` as operators, against what EC2 would hold; used by `MCSgRules` and `ResourceState` |
| `FoldProofs` | induction over numbers and finite sets, recursive functions, and lemmas on `FlattenSeq` and `MapThenSumSet`; about no code |
| `DetectionProofs` | theorems about `SgDetection` |
| `SgRules` | `lambda_handler` and `handle_authorize_sg_ingress` on one security group |
| `SgRulesProofs` | theorems about `SgRules` |
| `S3Rules` | `lambda_handler`, its self-invocation guard, and the four S3 handlers on one bucket |
| `S3RulesProofs` | theorems about `S3Rules` |
| `Ec2Rules` | `handle_run_instances` on the instances of one launch |
| `Ec2RulesProofs` | theorems about `Ec2Rules` |
| `VolumeEncryption` | `_volume_encryption_status`, shared with the reader |
| `Exemption` | `evaluate_exemption` and `_parse_until`, shared with the sweep |
| `ExpirySweep` | the schedule and `sweep` |
| `ExpirySweepProofs` | theorems about `ExpirySweep` |
| `Metrics` | every publisher of `cloudwatch_utils.py` as CloudWatch series, the alarms on them, `get_compliance_posture` |
| `MetricsProofs` | theorems about `Metrics` |
| `ResourceState` | `get_resource_state` for buckets, instances and security groups |
| `LogQuery` | `_run_query`, `search_logs`, `get_resource_history` against CloudWatch Logs Insights |
| `ExemptionListing` | `list_exemptions` |
| `Agent` | the tool-use loop of both agents, composed with the four modules above |
| `AgentProofs` | theorems about `Agent` and the tools |
| `MC...` | small values of the constants, for TLC |

### How they correspond to the code

One action is one remote call of the handler together with everything local that
follows it up to the next call; a call has one action per kind of answer (applied,
refused, throttled, answer lost). `pc[d]` names the next call of delivery `d`;
`ruleAt`, `portAt`, `at` are the loop positions; `verdict`/`remediated` is what the
handler is about to report. `Crash` ends an attempt between any two calls: function
timeout, kill, or an exception that nothing but `lambda_handler` catches, which
re-raises it. Local variables are reset by `Leave`, because an attempt leaves
nothing behind; what survives it is in the account (`group`, `bucket`, `life`,
`reason`) or has been published.

`published`, `refused`/`refusals`, `acted`, `passed`, `blamed`, `openers`, `weakeners`,
`lost`, `since`, `noticed`, `missed`, `seen`, `heard` and the field `had` of `asked` are
history: no guard of the code reads them (`missed` is bounded for TLC by `MaxMissed`).

- **Delivery.** `status` and `attempts` are Lambda's. `SgRules` repeats the steps
  with its own state around them and is shown to implement `Delivery`;
  `S3Rules` and `Ec2Rules` use its actions (`Platform!Start`, `Platform!Fail`, ...).
- **SgRules.** Detection enters through two constants, `RevokeList` and `Ports`.
  `DetectionAssumption` says what detection guarantees of them;
  `DetectionMeetsSgRules` proves it of the detection code, and
  `MCSgRules` computes the tables by `SgDetection` from two permission lists and
  asserts that they agree.
- **SgDetection.** An item is a record of its protocol, its range and its cidrs in the
  two lists. `ItemsAssumption` says what EC2 takes and CloudTrail therefore records: TCP
  and UDP come with a range of ports; ICMP, ICMPv6 and numeric protocols with a type and
  a code, or with neither; all traffic with whatever the caller wrote, which EC2 drops;
  each list holds cidrs of its family, none twice. `Held` is the rule EC2 keeps, as it
  came, and the reference `ReachesPort` goes by the protocol: SSH and RDP are reached over
  TCP, UDP or all traffic. The code looks at no protocol but `-1` and fills in 0 to 65535
  where a range is missing (`Filled`). `AddItem` grows a request and leaves out one that
  names a rule twice, which EC2 refuses.
- **S3Rules.** The bucket is its ACL, its block, its ownership and its encryption;
  `Granted` is what S3 lets through (a public ACL needs ACLs enabled and no block).
  A remediated ACL is masked, not removed, as in the code. The engine's
  `PutBucketEncryption` puts a record into `echoes`, in either form of identity,
  which is delivered like any other. Canned and explicit ACLs are told apart only
  by whether they are public. Tags are the outcome of `evaluate_exemption`.
  `PutPublicAccessBlock` matches no EventBridge rule: when it lifts the block there
  is no delivery, and `openers` holds `"nobody"`.
- **Ec2Rules.** `prefetched` and `prefetchedVolumes` are the batches' answers,
  `None` when a batch failed, and every verdict is taken from them although the
  instances go on changing. `Gaps` are the instances and volumes an answer may leave
  out. `passed` remembers what an attempt passed without a word, as encrypted or because
  its check failed, and how it was described; `blamed` what its last refusal was due to:
  an error of EC2's, a person who ended the instance, or the engine asking for what it had
  made impossible itself.
  `VolumeEncryptionStatus` returns a set because the order of EC2's answer decides between
  "unencrypted" and "undetermined" when both are found. `Publish` sends a set
  because a blocked launch is reported at once.
- **ExpirySweep.** Time is in ticks, several to a day. `rate(1 day)` fires at the time
  of day the rule was created at: `phase` is any tick of the day. A sweep runs within a
  tick of falling due (Lambda holds an event for six hours at most, which is less than a
  tick of twelve hours). `SendNotice` either publishes or loses its notice, as
  `send_notice` returns without a topic and swallows what SNS answers
  (`utils/notifier.py:73-97`): the sweep goes on either way. `missed` counts, for each
  resource since it was last tagged, the sweeps that came to nothing and the notices
  lost. Duplicate sweeps only add chances and are left out.
- **Metrics.** CloudWatch keeps a series for each name *and* set of dimensions and
  adds up nothing across them. `Put` is one `put_metric_data` call; a violation and
  its outcome are two series of one call. `AlarmDims` is empty because no alarm has a
  `dimensions` block. A call CloudWatch refuses changes nothing and has no action.
- **ResourceState.** `resource` is what is asked about; a bucket is its block, whether
  its algorithm is the mandated one, and its tags; an instance its life, mappings and
  tags; the rules of a group are the `perms` of `SgDetection`, so that the reader's
  routine is compared with the engine's on the very requests detection is checked on.
  One action is one AWS call, answered or failed; `known` is what the calls so far
  told, a failed call included (`"unread"`), `seen` every state the resource had since the
  first. A `ClientError` is an answer to the code; any other error leaves the tool
  (`ReadRaises`).
- **LogQuery.** `lines` are what the engine wrote, `ingested` those that have reached
  the log group; `server` is the service's side of the query, which has some of the
  records before it has all. `Containing` gives, for a resource, those whose lines its
  pattern matches too.
- **ExemptionListing.** A page is read as the tags are at that moment; `heard` collects
  all tags a resource had since the listing began. Judging is `Exemption!Reason`, whatever
  kind of resource it is; `PassedOver` is what the engine does, and it does not pass over
  a security group (`SecurityGroups`), whose rule reads no tags.
- **Agent.** A conversation of any number of calls of one tool: tools share no state,
  so mixing them adds nothing. The loop moves on only when the current call has its
  result; `ForgetQuery`, `ForgetListing` and `ForgetState` hand an answer over.
  `World` is the engine logging and counting, people, and AWS, in between.

Constants that are switches (`PublishMayFail`, `BlockSettings`, `Piecemeal`,
`Errors`, `Gaps`, `Nameless`, `NoGroupId`) admit a behaviour the code cannot defend against,
so that each property says what it depends on.

## 3. The runs

| Run | Shows | Bounds, and why they suffice |
|---|---|---|
| `reader` | detection: every rule that exposes 22 or 3389 is revoked, once, and reported in full, and no other that knows ports is; reader and engine agree on groups and instances, and a verdict on a bucket rests on what it was; the listing, the log answers and the posture are what they say; each call is answered; every question ends | all five tools; two turns of up to two calls, so that a call follows another, in its turn and in the next; two polls (a middle and a last one); requests of up to two items out of every combination of seven ranges on, inside and outside the boundaries, both families, tcp, icmp of any type, icmpv6 without type or code, and all traffic; one change to the resource, placed between any two of its calls; three pages of which `MAX_PAGES` reads two, any of them empty, one of a security group, one tag changed; three log lines under a limit of two, one resource's name containing the other's; two puts over three periods |
| `reader_unnamed` | **violation** of `InstanceVerdictAgrees` by a mapping without a VolumeId | one turn, instances with one sealed and one unnamed volume |
| `alarms` | **violation** of `UndeterminedRaisesAlarm`: alarm and publisher name different series | two puts, three periods |
| `posture` | **violation** of `PostureShowsEveryMetric`: metrics with a second dimension | two puts, three periods |
| `sg_safety` | no exposure forgotten, no failure made up, no finding for a rejected call, reports complete, no stale all-clear | two deliveries at once, a retry each; a request of two rules, the second with two ports, so both loops have a middle; people re-open and remove rules |
| `sg_platform` | `SgRules` implements `Delivery`; events settle; exposures are resolved | two deliveries under a reservation of one |
| `s3_public` | a public bucket always has a delivery that answers for it, and is closed or left to a human in the end | bucket made before or after April 2023, all calls that open it, `PutPublicAccessBlock` either way, two deliveries at once, a retry each, exemptions coming and going |
| `s3_encryption` | weak encryption answered for; own calls quiet; no feedback loop | a role whose name begins like the engine's, on records with no issuer; `ENGINE_ROLE_ARN` set or not; publishes lost; two deliveries are enough for a call and its echo |
| `sweep_warning` | every listed exemption announced before it lapses; a date lasts its day | two resources on two pages; a window of two days instead of seven; two ticks to a day, so that the schedule fires at midnight or at another time, and sweeps run late by a tick; five days; one chance lost, by a failed sweep or a lost notice. The bound is tight: two lost chances, or `<` for `<=`, and an exemption lapses unannounced. By the same count the real window of seven days has seven chances to lose |
| `ec2_batch` | no instance missed but in two ways, each shown by a violating run; nothing acted on by guess; reason tagged first; failures real; violators resolved; a replay takes no fix back | an instance with an encrypted and an unencrypted volume, mapped in either order while it is pending and perhaps described in between, before one that cannot be assessed, at which an attempt may end when the first was dealt with; one event of two attempts; batches that fail or leave the first instance or its unencrypted volume out; every error, a failing volume check of one instance included; people tagging and ending the violator; stop, the action with the more ways to fail (the theorems cover both actions, several deliveries and launches of any size) |
| `ec2_silent` | **violation** of `NoSilentMiss` by a volume check that fails | one instance, one attempt |
| `ec2_pending` | **violation** of `PassedMeansSeen` by an instance described while its mappings fill up | one instance, one attempt, no errors |

Every run sets `CHECK_DEADLOCK FALSE`: once all deliveries are settled and the
clock has run out, nothing need happen.

Each property has a mutant, a definition of the module that carries a plausible
bug ("Faulty variant" in the comments), under which TLC finds it violated.

### Fairness

`Fairness` asks that `Start` and `Handle \/ Crash` of each delivery are not
forever put off. Lambda keeps polling its queue, and every attempt is bounded by
the client timeouts (`utils/aws_client.py`) and the function timeout
(`infrastructure/lambda.tf`). Nothing is asked of people, of answers being
positive, or of exemptions: an attempt may crash every time, and then the dead
letter queue is where the event ends. `ExpirySweep` has no fairness; it checks that
no lapse *precedes* its notice, with the schedule's promise in the guard of `Tick`.

`Agent` asks that `RunAgent` is not forever put off: every call of the model and of
AWS returns or times out, and then the loop goes on. Nothing is asked of `World`: in
particular a query may run forever, and `AgentEnds` rests on the polls being bounded.

### Where the code and its words part

Five disagreements have a run that shows them:

- `ec2_silent`: `ec2_rules.py:401` goes on after a failed volume check with no metric
  and no notice, unlike the describe failure at line 340.
- `ec2_pending`: `_volume_encryption_status` looks at the state of an instance only when
  it has no mapping at all (`ec2_rules.py:265`). One that is pending with its encrypted
  volume mapped, and its unencrypted one not yet, is passed as compliant: no metric, no
  mail, and no later event. The docstring says that "Every path that cannot see the data
  returns ENCRYPTION_UNDETERMINED rather than guessing" (`ec2_rules.py:258-259`).
- `reader_unnamed`: `resource_state.py:80` passes over mappings without a VolumeId and
  may call an instance compliant that `_volume_encryption_status` calls undetermined,
  while the module says it "cannot disagree with what the engine would do" and that
  what cannot be read is "undetermined, never compliant" (`resource_state.py:3-6`).
- `alarms`: no alarm of `cloudwatch.tf` on the engine's metrics has dimensions, and every
  publisher adds to dimensioned series only, so "without this alarm nothing says so"
  (`cloudwatch.tf:17`) is what happens. The widgets at `cloudwatch.tf:148-151` name
  the same empty series.
- `posture`: `SEARCH('{namespace,dimension} ...')` finds series with exactly that one
  dimension; `ExemptionsRejected` and `ViolationAttemptsBlocked` are put with two and
  are in no posture, though `docs/engineering-log.md:870` says both "lists now cover all
  eight".

Other disagreements have no run of their own. They are in the models, the passing runs
meet them, and the properties name them as explicit exceptions:

- *Rules without ports* (`ExposedRulesAreRevoked`). `_port_range` fills in 0 to 65535 for
  every protocol but `-1` (`sg_rules.py:46`), which its docstring warns of ("a fabricated
  full range makes one rule look like it trips every restricted port independently",
  `sg_rules.py:41-42`). For an ICMPv6 or numeric item without a range the engine finds SSH
  and RDP exposed and asks EC2 to revoke a range no rule has, although the request is
  meant to match "the rule AWS actually holds" (`sg_rules.py:126-127`). EC2 answers
  NotFound, which the engine mails as remediated. An ICMP item of any type but of one code
  may be taken for a range of ports as well. `DetectionMeetsSgRules` is for requests of
  rules that know ports.
- *Buckets whose algorithm cannot be read* (`BucketVerdictWitnessed`). A failed
  `get_bucket_encryption` counts as no algorithm and the bucket as violating
  (`resource_state.py:186-187`, `203`), although "a resource whose state cannot be read is
  undetermined" (`resource_state.py:5-6`). Tags that cannot be read count as no exemption.
  A private bucket without a block is violating to the reader and compliant to the engine,
  although the two "cannot disagree" (`resource_state.py:4`): the property says what a
  verdict rests on, not that the two agree.
- *Exempt security groups* (`ActiveIsHonoured`). The listing judges any tagged resource
  (`exemptions.py:61-66`) and says that "This tag makes the engine skip a resource
  entirely" (`exemptions.py:96`); the security-group rule reads no tags
  (`sg_rules.py:143-230`) and remediates a group listed as exempt. Of such an answer
  `resource_state.py:29-30` says that it "is worse than no tool".
- *The two EC2 misses*, again (`NoOtherMiss`, `ViolatorResolved`): `PassedPending` is the
  instance of `ec2_pending`, `CheckFailed` that of `ec2_silent`, and nothing else is
  excused. `NoSilentMiss`, which excuses neither, is the property `ec2_silent` violates.
- *Replays that fail* (`FixNotTakenBack`). When a person ends a stopped instance after the
  replay read its batch, or EC2 refuses the replay's tag or stop, the engine mails a
  failure after its mail of the fix, although "Replaying an event must not manufacture a
  failure." (`tests/unit/test_replay_safety.py:1`). `blamed` holds whose doing it was, and
  the property allows these two.
- *Lost notices* (`WarnedBeforeLapse`). A notice that SNS does not take is a chance
  missed, like a sweep that fails: once as many are missed as the window has days, the
  exemption lapses unannounced.

More boundaries of the properties above are visible in the models.

Of the engine: `send_alert` swallows every error, so a rule that EC2 refused to revoke
may stay open with nobody told (`docs/build-log.md:11` says it "must either fix it
automatically or alert a human"); with `PublishMayFail` the exposure properties hold of
mails SNS took. When an exemption lapses nothing checks the resource again, although
the notice says that "After that the engine checks it again and will remediate anything
it finds" (`src/lambda/expiry_sweep.py:141`): the engine looks only when a call names
the resource. `eventbridge.tf:102` matches `DeleteBucketPublicAccessBlock` alone;
`PutPublicAccessBlock` with the settings off exposes an ACL the engine had only masked,
and `PublicBucketAccountedFor` excuses a bucket that `"nobody"` answers for. An instance
exempted after the batch was read is stopped all the same. A date written
`YYYYMMDD` lapses at the midnight it begins with (`Exemption!End`); an exemption written
`TRUE` is honoured and listed neither by the sweep (`Listed`) nor by the reader
(`Carries`); an exemption with an unusable expiry is counted in a log line only
(`LapsesSoon`); encryption with any KMS key is compliant whatever the key
(`ViolationRequested`).

Of the reader: the listing stops at `MAX_PAGES` with no word of what is beyond. A history
matches lines of resources whose names contain the one asked for, which may use up the
limit, and lines not yet ingested are unknown to it; only an answer below the limit is
claimed complete. A search without records and a query that timed out carry no warning.

## 4. The proofs

Every theorem holds for any values of the constants that satisfy the assumptions
named in the modules; what a theorem assumes beyond those stands in its statement
(`ASSUME ... PROVE`) and below. In every proof module the plan is the same: `TypeOK`
is not inductive, because a step reads a table or a sequence at a position that
must be inside it; `Shape` (for the sweep and the tools, a stronger invariant of
another name) adds per delivery what the code relies on; and on it rest the
invariants that make a property inductive, each preserved step by step with one case
per action.

### The security-group rule

`SgRulesProofs`, for any sets of deliveries, rules and requests, any number of retries
and any reservation:

| Theorem | States |
|---|---|
| `TypeCorrect` | `[]TypeOK` |
| `FailuresAreReal` | `[]NoManufacturedFailure` |
| `DeniedCallsAreNoFindings` | `[]NoFindingForDeniedCall` |
| `HandlerImplementsDelivery` | `ImplementsDelivery`: every step is a step of `Delivery` or a stutter |
| `NoExposureForgotten` | `[]ExposureAccountedFor`, assuming `Reachable` |
| `FinishedIsReported` | `[]FinishedMeansReported`, assuming that publishes arrive |
| `AllClearsAreNotStale` | `AllClearNotStale`, a property of steps, assuming `Reachable` |

*Assumptions.* `AttemptsAssumption`, `ConcurrencyAssumption`, `DetectionAssumption`
(each request revokes its exposing rules, each once: the detection code does, by
`DetectionMeetsSgRules` below) and `PublishAssumption`. `Reachable` says that publishes are not
lost, and that a record without a groupId opens nothing. Both parts are needed: a mail
that SNS loses after a refused revocation leaves the rule open with nobody told, and
`MissGroupId` drops the record of the second. The theorems without it hold whether or
not publishes are lost.

*The argument.* A step at `"revoke"` reads `RevokeList[request[d]][ruleAt[d]]`, so
`Shape` adds that where the handler is agrees with where Lambda thinks it is, that the
loop positions are inside their lists, and that a queued delivery has an attempt left.
On it rest five strengthenings. `FailuresReal`: a failure *about to be* reported stands
for a refusal too. `DeniedQuiet`: who wrote a note was delivered, and what a delivery
is about never changes. `Accounted`: the ports of a failed rule that the report loop
has passed were mailed. `Reporting`: so was every port of every rule the loop has
passed, in a metric as well, and a port between its metric and its mail has the metric.
`Clearing`: when the handler is about to report a success on a rule that is in the group,
another delivery answers for it. The work of `NoExposureForgotten` is in
`AccountingKept`: a delivery that accounts for a rule goes on doing so until the rule is
gone, because a throttle or a crash sends the whole event back to the queue, and the loop
leaves a rule only with the rule revoked or the failure reported in full. The same lemma
carries `AllClearsAreNotStale`, with `NewExposure`: who opens a rule answers for it.

### What the security-group rule finds

`DetectionProofs`, for requests of any length, of any items, with any cidrs:

| Theorem | States |
|---|---|
| `RevokesTheExposed` | the revocations of a request that names no rule twice hold its exposed rules, each once; any other is of a protocol without ports, its range filled in |
| `ReportsEveryPort` | each exposed rule has a group of findings, with every restricted port it exposes; each group names its ports lowest first |
| `DetectionMeetsSgRules` | the tables such requests yield, of rules that know ports, satisfy `SgRules`' `DetectionAssumption` |

*Assumptions.* `ItemsAssumption`, which is what EC2 takes: a TCP or UDP item has its range
of ports, and an ICMP item of any type is of any code.

*The argument.* `IsPublicIngress` flattens a sequence of sequences and `GroupByRule`
folds over what comes out. The installed provers have no induction over an operator, so
`FoldProofs` states induction of *sets*: what holds 0 and the successor of each number it
holds has them all (`NaturalInduct`), and likewise for the subsets of a finite set
(`SubsetInduct`), both from the library's `WFMin`. From these it shows that a function
defined by recursion exists (`RecursionDefined`, `FoldDefined`), which the `CHOOSE` of a
fold is then equal to, and what `FlattenSeq` yields: the elements of its parts
(`FlattenElements`), in an order the parts keep (`FlattenOrdered`). Detection then has two
halves. The findings are those of the open cidrs with each port covered, and of one rule
come lowest port first, because one item lists them so and no two items make the same
rule (`NoRuleTwice`). The fold, prefix by prefix (`GroupsUnfold`, `RecordedStep`), has one
group per rule met, with its ports in the order met (`GroupsRecord`). A request to
revoke is the rule EC2 holds with a missing range filled in (`HeldIsRevoked`), and of a
rule that knows ports just that rule (`PortsAreKept`); the rule can be told from it
(`RevokeRequestInjective`), and no two rules are filled in alike (`FilledInjective`: no
type and code is a full range), so that no two groups ask for the same revocation. That
is what detection flags (`RevokesTheFlagged`). Of the rules that know ports the flagged
ones are the exposed ones, through the same ports (`PortsAreReached`, `ExposedAreFlagged`);
a rule of another protocol exposes nothing.

### What the posture counts

`MetricsProofs` shows, of any calls the publishers may have put, that the posture counts
them (`PostureOfThePublished`). A total sums over the series a search finds. `CallShape`
says that one call adds to one series of a name, so that the calls counted for two series
are disjoint and the sum of their numbers is the number of their union (`SumOfSizes`,
`TotalCounts`); that a search finds every series of a name, but for the two names put
with a second dimension, makes that union all that was put (`TotalIsStored`).
`CallOutcome` says that a violation is put in one call with one outcome, so that the
window cuts no finding off from its outcome, wherever it begins.

### The S3 rules

`S3RulesProofs`, for any deliveries, requests, callers and new buckets:

| Theorem | States |
|---|---|
| `TypeCorrect` | `[]TypeOK` |
| `EngineNeverRemediatesItself` | `[]NoFeedbackLoop` |
| `EngineIsSilentOnItself` | `[]OwnCallsAreQuiet` |
| `FailuresAreReal` | `[]NoManufacturedFailure` |
| `PublicBucketIsAccountedFor` | `[]PublicBucketAccountedFor`, assuming `Reachable` |
| `WeakEncryptionIsAccountedFor` | `[]WeakEncryptionAccountedFor`, assuming `Reachable` |
| `HandlerImplementsDelivery` | `Spec => Platform!SafetySpec` |

*Assumptions.* Besides the kinds of the constants, `CallersAssumption`: people call
under another role, or without an issuer and under a session that is not the engine's
own. The engine's role can be assumed by Lambda alone (`infrastructure/iam.tf`); a
person who called under it would be dropped, by design. `Reachable` says that a record
that opens the bucket or weakens its encryption names it, since `MissBucketName` drops
the others. Publishes may be lost: the two properties hold of mails SNS took.

*The argument.* `Own` adds to `Shape` that every record of a call of the engine's, in
`echoes` or delivered, asks for the mandated key; then `ViolationRequested` is false of
it and the handler never gets to `"remediate"`, *whether or not* `ENGINE_ROLE_ARN` is
set. The feedback loop is thus broken twice, and `EngineIsSilentOnItself`, which does
need the role, says what the guard adds. `Quiet` says that who published was delivered.
For the last two, `Owes` is what a delivery has still to do, or has done, about a call
that asked for something: it names the bucket, it is no call of the engine's, no verdict
of success is on its way, and it accounts for the call. `OpenersAnswer` (a public
bucket has openers, and each `Owes`) and `WeakenersAnswer` are inductive: `OwesKept`
takes a delivery through every step but the remediation that closes the bucket, and
`RemediationCloses` shows that this one empties the history.

### The EC2 rule

`Ec2RulesProofs`, for any fleet, any launch (one that names an instance twice
included), any volumes and any errors:

| Theorem | States |
|---|---|
| `TypeCorrect` | `[]TypeOK` |
| `NeverActsOnAGuess` | `[]OnlyViolatorsActedOn` |
| `ReasonComesFirst` | `[]ActedMeansTagged` |
| `FailuresAreReal` | `[]NoManufacturedFailure` |
| `NobodyIsMissed` | `[]NoOtherMiss`, assuming that mails arrive |
| `FixesAreNotTakenBack` | `FixNotTakenBack`, a property of steps, assuming `Repairable` |
| `LoopImplementsDelivery` | `Spec => Platform!SafetySpec` |

*Assumptions.* `NoneAssumption` (the answer of a failed batch is no description) and
`LaunchAssumption` (a launch names at least one instance, of the fleet). For `NobodyIsMissed`,
that mails arrive (`~PublishMayFail`). Neither known miss is assumed away: `NoOtherMiss`
names them (`PassedPending`, `CheckFailed`), and each has its violating run. `Repairable`: if the action is to terminate, the record names
no instance twice, since its second position would be judged by the batch that was read
before it was terminated. Under stop nothing is assumed: people may end instances and EC2
may answer anything, and the property says whom the failure is due to.

*The argument.* Between what EC2 said and what it is used for, anything may happen to an
instance, so the core is `Knowing`: each description, in the batch or just read, however
old, is `Seen`, that is, true of what the instance was *launched* with unless it is gone
by now (mappings only ever fill up, and end with the instance). `Finding` adds why the
handler stands where it does: at `"tag"` the instance violates, at `"act"` it is tagged,
and a verdict of failure has its refusal. `Answering` adds that each instance behind the
loop's position is gone, encrypted throughout, mailed about, showed only encrypted volumes
while pending, or had its volume check fail: `HandlerPasses`
shows that the loop leaves an instance only for a reason, and `EncryptedShows` that
"encrypted" is said of one that is not only if it was pending, because what is no longer
pending shows all its volumes. `Settling` adds that what a delivery mailed as fixed is
still stopped or gone, and that a refusal met since is due to a person or to EC2
(`RefusalsBlamed`): EC2 takes the tag and the stop of an instance that is stopped already.
For a termination, it adds that every description the instance may yet be judged by has no
mappings, which cannot violate: so the order in which the batch is read once, before the
loop, and again by each attempt carries the theorem.

### The expiry sweep

`ExpirySweepProofs`, for any pages, tags and window, any number of ticks to a day and any
phase of the schedule:

| Theorem | States |
|---|---|
| `TypeCorrect` | `[]TypeOK` |
| `DatesLastTheirDay` | `[]DateLastsItsDay` |
| `NoticeComesFirst` | `[]WarnedBeforeLapse` |

*Assumptions.* `SweepAssumption` and `TicksAssumption`. How many chances come to nothing
is not assumed: the property speaks of the resources of which fewer did, by failed sweeps
or by lost notices, than the window has days. That is tight: with as many, TLC finds a
lapse without a notice.

*The argument.* `Sweeping` counts chances, in days that begin when the schedule fires:
for a resource still owed a notice,
`Today + WarnWithinDays + 1 <= LastDay + missed + Pending`, where `Pending` is 1 while a
sweep that may still notice it is due or at work. The tick at which the schedule fires
moves `Today` on and makes a sweep pending; a sweep that fails, and a notice that is lost,
move their 1 over to `missed`; a sweep that ends has listed the resource,
so that it is noticed, or was too early for it, which is the bound again
(`LeftOutIsEarly`). A resource retagged while a sweep runs is too early for it as well,
if it is owed a notice at all (`TaggedInTime`). The lemmas on days and ticks (`DayBounds`, `DayIsUnique`,
`DaysAdd`) are what the SMT solver does not find by itself about dividing by a number it is not given.

### The reader

`AgentProofs`, for any bounds on turns, calls, polls, lines, pages,
retags and changes, and any resources:

| Theorem | States |
|---|---|
| `CallsAnswered` | `[]EveryCallAnswered` |
| `CompleteAnswersAreComplete` | `[]CompleteMeansAll` |
| `NeverLoggedMeansNever` | `[]NeverLoggedIsTrue` |
| `ActiveAreHonoured` | `[]ActiveIsHonoured` |
| `ListingsAreComplete` | `[]ListingComplete` |
| `BucketVerdictsRestOnWhatWas` | `[]BucketVerdictWitnessed` |
| `InstanceVerdictsAgree` | `[]InstanceVerdictAgrees`, assuming `EveryMappingNamed` |
| `ExposedAreRevoked` | `[]ExposedRulesAreRevoked` |
| `ExposedPortsAreReported` | `[]EveryExposedPortReported` |
| `GroupVerdictsAgree` | `[]GroupVerdictAgrees` |
| `PosturesCount` | `[]PostureCounts` |
| `TypeCorrect` | `[]TypeOK` |

*Assumptions.* `AgentAssumption`, `QueryAssumption` (a resource's lines match its own
pattern), `ListingAssumption` (a listing has at least one page), `ItemsAssumption`. `EveryMappingNamed` is
needed: `reader_unnamed` is the counterexample without it.

*The argument.* Each tool has an invariant of its own, and every action that is not the
tool's leaves its state alone, so that each is preserved separately. `Loop` counts the
results against the position in the message. `Querying` says that what the log group had
when asked is still what the query matches, and that the service holds nothing outside a
query, or an old answer could be handed out to a new question; that an answer below the
limit is not cut off is `NotCutOff`, by taking the last line that would be missing: all
`Limit` lines after it are in the answer. `Listing` adds to the promise, which is about
the end, what the pages read so far have brought, and that the tags of the moment are
among those heard. `BucketRead` says of each fact already learnt that some state seen
since the first call bears it out, or that the call for it failed. `InstanceRead` keeps what was described until the
volumes are answered about, where `VolumesAgree` compares the two routines. `Requested`
says that a group's rules came in by requests EC2 took, of which `DetectionProofs` speaks;
the reader's own routine, which looks at no protocol but `-1` either, finds the ports of
each rule that detection finds of it once filled in, by `OpenPortsAre`. `Published` says that
CloudWatch holds calls of the publishers. `TypeCorrect` has an invariant per tool
(`LoopKinds`, `QueryKinds`, `ListingKinds`, `StateKinds`), resting on the tool's own where it needs one:
that a result leads to a call or a turn within the limits is `Loop`, that the service hands
out lines there are is `Querying`, and that what is revoked has a range is `Requested`.

### Only model-checked

- Liveness (`ExposureResolved`, `EventuallySettled`, `PublicResolved`,
  `ViolatorResolved`, `AgentEnds`): the prover does not handle fairness.
- That `MCSgRules`' tables are those of `SgDetection` is asserted by TLC of the two
  permission lists the runs use.
- The properties that are violated, in the runs that show it.

## 5. What is not modelled

- The wording of metrics, mails and logs; the namespaces; JSON shapes.
- The adaptive retries inside the AWS client: one call is one step, however often
  it is tried.
- Dead letters themselves: an event in the queue counts as answered for, since
  `infrastructure/cloudwatch.tf` raises an alarm on its depth.
- Declarative infrastructure (IAM, KMS, CloudTrail, the alarms on Lambda and on the
  dead letter queue). That CloudTrail delivers a record at least once is assumed.
- The MCP protocol and the registration of tools; `describe_engine_rules`, which returns
  a constant; what the model says; which model an agent talks to.
- The window of a log query, whose ends `logs.py:51-52` cuts to whole seconds: a line of
  the very second in which it is asked may be outside.
- Paging inside Logs Insights and in `describe_trails`; the `NextToken` of
  `get_metric_data`, which `posture.py:72` does not follow; metrics that CloudWatch shows
  with a delay.
- Structured logging, which nothing reads but people and the log tools.
- The scripts: they are run by hand. `check_prerequisites.py` is a sequential list of
  lookups, each of which either answers or counts as a problem.

## 6. Plan

Done, in this order, most important behaviour first: delivery and the
security-group rule (state, safety, refinement, proofs), S3, EC2, exemptions and the
sweep, the metrics with their alarms, and the reader: resource state, logs, exemption
listing, posture, and the agents' loop around them, with proofs; then the proofs of S3,
EC2 and the sweep, of the action properties, and of detection and the posture, which are
recursive.

What could still be done:

1. `S3Rules` takes from a record whether its ACL is public; the canned ACLs, grant headers
   and grant lists that make it so could be operators of their own, as in `SgDetection`.
2. `check_cloudtrail` of `scripts/check_prerequisites.py`.
