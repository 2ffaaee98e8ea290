--------------------------- MODULE ResourceState ---------------------------
(***************************************************************************)
(* The reader's get_resource_state (mcp_server/tools/resource_state.py):   *)
(* one bucket, instance or security group read by a few calls, each of     *)
(* which may fail, while people change it, and a verdict of three values   *)
(* that is to be the engine's own.                                         *)
(***************************************************************************)
EXTENDS SgDetection, FiniteSets, VolumeEncryption

CONSTANTS
  Buckets,   (* How a bucket may be: its existence, block, algorithm and   *)
             (* tags ...                                                   *)
  Launched,  (* ... and an instance: its existence, life, mappings, tags.  *)
  MaxChanges (* Bound on the changes during a behaviour.                   *)

VARIABLES
  resource, (* The resource asked about; the rules of a group are perms.   *)
  changes,  (* Changes made.                                               *)
  reading,  (* The next call; "idle", "told" or "raised".                  *)
  known,    (* What the calls so far told.                                 *)
  told,     (* The verdict and the exemption returned.                     *)
  seen      (* History: all the resource was since the first call.         *)

readerVars == <<reading, known, told>>
resourceVars == <<perms, resource, changes, seen>>
stateVars == <<readerVars, resourceVars>>

Group == [kind |-> "group"]
Nothing == [kind |-> "nothing"]

(* bool(blocked and algorithm == REQUIRED_SSE_ALGORITHM), null when the    *)
(* block could not be read: an algorithm that was not read is '', another. *)
BucketVerdict(block, algorithm) ==
  IF block = "unread" THEN "undetermined"
  ELSE IF block = "on" /\ algorithm = "mandated" THEN "compliant" ELSE "violating"

Untold == [verdict |-> "none", exempt |-> FALSE]

ReaderInit(r) ==
  /\ perms = <<>>
  /\ resource = r
  /\ changes = 0
  /\ reading = "idle"
  /\ known = Nothing
  /\ told = Untold
  /\ seen = {}

-----------------------------------------------------------------------------
(* The account.  Mappings of a pending instance fill up, and what has been *)
(* deleted stays so.                                                       *)

CanBecome(r) ==
  /\ r.kind = resource.kind
  /\ r # resource
  /\ r.kind = "instance" =>
       /\ resource.exists
       /\ r.life = "pending" =>
            resource.life = "pending" /\ resource.mappings \subseteq r.mappings
       /\ resource.life = "terminated" => r.life = "terminated"

Change(r) ==
  /\ changes < MaxChanges
  /\ CanBecome(r)
  /\ resource' = r
  /\ changes' = changes + 1
  /\ seen' = IF reading \in {"idle", "told", "raised"} THEN seen ELSE seen \union {r}
  /\ UNCHANGED <<readerVars, perms>>

(* A rule is added to the group.                                           *)
Open(item) ==
  /\ resource = Group
  /\ AddItem(item)
  /\ UNCHANGED <<readerVars, resource, changes, seen>>

-----------------------------------------------------------------------------

At(kind, call) == resource.kind = kind /\ reading = call

First == UNCHANGED <<perms, resource, changes>> /\ seen' = {resource}

Tell(verdict, exempt) ==
  /\ reading' = "told"
  /\ told' = [verdict |-> verdict, exempt |-> exempt]

Learn(what, call) ==
  /\ known' = what
  /\ reading' = call
  /\ UNCHANGED told

(* _bucket_state: a bucket that is not there is not judged.                *)
GetPublicAccessBlock ==
  /\ At("bucket", "idle")
  /\ First
  /\ IF resource.exists
     THEN Learn([block |-> resource.block, algorithm |-> "unread"], "encryption")
     ELSE Tell("undetermined", FALSE) /\ UNCHANGED known

GetPublicAccessBlockFails ==
  /\ At("bucket", "idle")
  /\ First
  /\ Learn([block |-> "unread", algorithm |-> "unread"], "encryption")

(* Faulty variant: an algorithm that cannot be read is taken for right.    *)
GetBucketEncryptionHoping(answered) ==
  /\ At("bucket", "encryption")
  /\ Learn([known EXCEPT !.algorithm =
              IF answered /\ resource.exists /\ ~ resource.kms THEN "another"
              ELSE "mandated"], "tagging")
  /\ UNCHANGED resourceVars

(* A ClientError, or an answer without rules: no algorithm.                *)
GetBucketEncryption(answered) ==
  /\ At("bucket", "encryption")
  /\ Learn([known EXCEPT !.algorithm =
              IF ~ (answered /\ resource.exists) THEN "unread"
              ELSE IF resource.kms THEN "mandated" ELSE "another"], "tagging")
  /\ UNCHANGED resourceVars

(* A ClientError: no tags.                                                 *)
GetBucketTagging(answered) ==
  /\ At("bucket", "tagging")
  /\ Tell(BucketVerdict(known.block, known.algorithm),
          answered /\ resource.exists /\ resource.tags = "exempt")
  /\ UNCHANGED <<known, resourceVars>>

-----------------------------------------------------------------------------
(* _instance_state                                                         *)

(* Faulty variant: no mappings means no volumes.                           *)
DescribeInstancesTooSoon ==
  /\ At("instance", "idle")
  /\ First
  /\ IF ~resource.exists
     THEN Tell("undetermined", FALSE) /\ UNCHANGED known
     ELSE /\ known' = resource
          /\ IF resource.mappings = {}
             THEN Tell("compliant", resource.tags = "exempt")
             ELSE reading' = "volumes" /\ UNCHANGED told

DescribeInstances ==
  /\ At("instance", "idle")
  /\ First
  /\ IF ~resource.exists
     THEN Tell("undetermined", FALSE) /\ UNCHANGED known
     ELSE /\ known' = resource
          /\ IF resource.mappings = {}
             THEN Tell(IF resource.life = "pending" THEN "undetermined"
                       ELSE "compliant", resource.tags = "exempt")
             ELSE reading' = "volumes" /\ UNCHANGED told

DescribeInstancesFails ==
  /\ At("instance", "idle")
  /\ First
  /\ Tell("undetermined", FALSE)
  /\ UNCHANGED known

(* Mappings without a VolumeId are passed over.  Asked about no volume in  *)
(* particular, EC2 answers about every volume there is.                    *)
DescribeVolumes ==
  /\ At("instance", "volumes")
  /\ LET ids == Named(known.mappings)
         whole == IF ids = {} THEN Named(DOMAIN Kind) ELSE ids
     IN  \E volumes \in SUBSET whole :
           Tell(IF \/ Cardinality(volumes) # Cardinality(ids)
                   \/ \E v \in volumes : Kind[v] = "unsaid"
                THEN "undetermined"
                ELSE IF \A v \in volumes : Kind[v] = "encrypted"
                THEN "compliant" ELSE "violating",
                known.tags = "exempt")
  /\ UNCHANGED <<known, resourceVars>>

(* Nothing catches an error of describe_volumes, nor, of any call, one that*)
(* is no ClientError, such as a timeout (of a first call, see CallFails).  *)
ReadRaises ==
  /\ reading \in {"encryption", "tagging", "volumes"}
  /\ reading' = "raised"
  /\ UNCHANGED <<known, told, resourceVars>>

-----------------------------------------------------------------------------
(* _security_group_state                                                   *)

(* Faulty variant: a rule for all traffic is judged by its range.          *)
OpenPortsByRange(held) ==
  IF held.cidr \in OpenCidrs
  THEN {p \in RestrictedPorts : held.from <= p /\ p <= held.to}
  ELSE {}

(* permission.get('FromPort', 0), permission.get('ToPort', 65535)          *)
OpenPorts(held) ==
  LET from == IF held.from = Absent THEN 0 ELSE held.from
      to == IF held.to = Absent THEN 65535 ELSE held.to
  IN  IF held.cidr \notin OpenCidrs THEN {}
      ELSE IF held.protocol = AllTraffic THEN RestrictedPorts
      ELSE {p \in RestrictedPorts : from <= p /\ p <= to}

(* open_restricted_ports, of the rules the group holds.                    *)
GroupPorts == UNION {OpenPorts(held) : held \in StoredRules(perms)}

DescribeSecurityGroups ==
  /\ At("group", "idle")
  /\ First
  /\ Tell(IF GroupPorts = {} THEN "compliant" ELSE "violating", FALSE)
  /\ UNCHANGED known

DescribeSecurityGroupsFails ==
  /\ At("group", "idle")
  /\ First
  /\ Tell("undetermined", FALSE)
  /\ UNCHANGED known

-----------------------------------------------------------------------------

Read ==
  \/ GetPublicAccessBlock \/ GetPublicAccessBlockFails
  \/ \E answered \in BOOLEAN :
       GetBucketEncryption(answered) \/ GetBucketTagging(answered)
  \/ DescribeInstances \/ DescribeInstancesFails
  \/ DescribeVolumes \/ ReadRaises
  \/ DescribeSecurityGroups \/ DescribeSecurityGroupsFails

Account ==
  \/ \E r \in Buckets \union Launched : Change(r)
  \/ \E item \in Items : Open(item)

(* The caller has the answer.                                              *)
ForgetState ==
  /\ reading \in {"told", "raised"}
  /\ reading' = "idle"
  /\ known' = Nothing
  /\ told' = Untold
  /\ seen' = {}
  /\ UNCHANGED <<perms, resource, changes>>

-----------------------------------------------------------------------------

(* What a verdict on a bucket rests on, whichever calls fail and however   *)
(* the bucket changes between them.  It is called compliant only if its    *)
(* block was on at some moment of the call and its algorithm the mandated  *)
(* one; violating only if at some moment the block was off or the          *)
(* algorithm another, or (here the code does not call undetermined what it *)
(* could not read) get_bucket_encryption failed; undetermined only if the  *)
(* block was not read or the bucket not there; and exempt only if the      *)
(* engine would have passed it over at some moment.                        *)
BucketVerdictWitnessed ==
  reading = "told" /\ resource.kind = "bucket" =>
    /\ told.verdict = "compliant" =>
         /\ \E b \in seen : b.exists /\ b.block = "on"
         /\ \E b \in seen : b.exists /\ b.kms
    /\ told.verdict = "violating" =>
         \/ \E b \in seen : b.exists /\ (b.block # "on" \/ ~ b.kms)
         \/ known.algorithm = "unread"
    /\ told.verdict = "undetermined" =>
         \/ \E b \in seen : ~ b.exists
         \/ known.block = "unread"
    /\ told.exempt => \E b \in seen : b.exists /\ b.tags = "exempt"

(* "This cannot disagree with what the engine would do" (resource_state.py)*)
(* of an instance: it is called compliant only if the EC2 rule, told the   *)
(* same of it, would pass it as encrypted, and violating only if the rule  *)
(* may remediate it.                                                       *)
InstanceVerdictAgrees ==
  reading = "told" /\ resource.kind = "instance" /\ known # Nothing =>
    LET engine == VolumeEncryptionStatus(known, known.mappings)
    IN  /\ told.verdict = "compliant" => engine = {"encrypted"}
        /\ told.verdict = "violating" => "unencrypted" \in engine

(* The same of a group: by a routine of its own, reading what EC2 holds,   *)
(* the reader finds the very ports for which the engine, reading what      *)
(* CloudTrail recorded, revokes rules.                                     *)
GroupVerdictAgrees ==
  LET groups == GroupByRule(IsPublicIngress(perms))
  IN  GroupPorts = UNION {ToSet(groups[i].ports) : i \in DOMAIN groups}

=============================================================================
