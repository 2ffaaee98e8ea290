------------------------------ MODULE Metrics ------------------------------
(***************************************************************************)
(* What the engine counts in CloudWatch, and who looks at the counts: the  *)
(* alarms of infrastructure/cloudwatch.tf and the reader's                 *)
(* get_compliance_posture.  CloudWatch keeps one series for every metric   *)
(* name and set of dimensions, and adds up nothing across them: a look at  *)
(* a metric without its dimensions is a look at another series.            *)
(***************************************************************************)
EXTENDS Naturals, Sequences, FiniteSets, FiniteSetsExt

CONSTANTS
  Checks,     (* Violation and check types.                                *)
  Events,     (* API calls AWS may reject ...                              *)
  Codes,      (* ... and the errorCodes it does it with.                   *)
  Reasons,    (* Reasons for which an exemption does not hold.             *)
  Hours,      (* Windows asked for.                                        *)
  MaxHours,   (* MAX_HOURS of posture.py.                                  *)
  PeriodsPerHour,
  MaxPuts,    (* Bound on the put_metric_data calls considered ...         *)
  MaxPeriods  (* ... and on the periods.                                   *)

ASSUME MetricsAssumption ==
  /\ MaxHours \in Nat \ {0}
  /\ PeriodsPerHour \in Nat \ {0}
  /\ MaxPeriods \in Nat \ {0}
  /\ MaxPuts \in Nat
  /\ Hours \subseteq Nat

VARIABLES
  puts,   (* What CloudWatch took: the series one call added 1 to, when.   *)
  period, (* The current period of 300 seconds.                            *)
  alarm   (* The state of each alarm, as of the last period that ended.    *)

metricVars == <<puts, period, alarm>>

-----------------------------------------------------------------------------
(* The publishers of utils/cloudwatch_utils.py, each one call.             *)

Series(name, dims) == [name |-> name, dims |-> dims]
OfType(name, c) == Series(name, [ViolationType |-> c])
OfCheck(name, c) == Series(name, [CheckType |-> c])

publish_violation(c, remediated) ==
  {OfType("ViolationsDetected", c),
   OfType(IF remediated THEN "RemediationsApplied" ELSE "RemediationsFailed", c)}

publish_detection_undetermined(c) == {OfCheck("DetectionsUndetermined", c)}
publish_exemption(c)              == {OfCheck("ExemptionsApplied", c)}
publish_throttled(c)              == {OfCheck("RemediationsThrottled", c)}
publish_protection_weakened(c)    == {OfCheck("ProtectionsWeakened", c)}
publish_exemption_expiring ==
  {OfCheck("ExemptionsExpiringSoon", "ExemptionExpiry")}

publish_attempt_blocked(e, code) ==
  {Series("ViolationAttemptsBlocked", [EventName |-> e, ErrorCode |-> code])}

publish_exemption_rejected(c, reason) ==
  {Series("ExemptionsRejected", [CheckType |-> c, Reason |-> reason])}

(* CloudWatch takes the call.  One it refuses is logged and forgotten, and *)
(* changes nothing.                                                        *)
Put(series) ==
  /\ Len(puts) < MaxPuts
  /\ puts' = Append(puts, [series |-> series, period |-> period])
  /\ UNCHANGED <<period, alarm>>

Publish ==
  \/ \E c \in Checks :
       \/ \E remediated \in BOOLEAN : Put(publish_violation(c, remediated))
       \/ Put(publish_detection_undetermined(c))
       \/ Put(publish_exemption(c))
       \/ Put(publish_throttled(c))
       \/ Put(publish_protection_weakened(c))
       \/ \E reason \in Reasons : Put(publish_exemption_rejected(c, reason))
  \/ \E e \in Events, code \in Codes : Put(publish_attempt_blocked(e, code))
  \/ Put(publish_exemption_expiring)

-----------------------------------------------------------------------------
(* The alarms.                                                             *)

SumOf(series, periods) ==
  Cardinality({i \in DOMAIN puts :
                 series \in puts[i].series /\ puts[i].period \in periods})

(* metric_name and threshold of each; none has a dimensions block.         *)
Threshold == [ViolationsDetected |-> 20, DetectionsUndetermined |-> 0,
              ExemptionsApplied |-> 3, RemediationsThrottled |-> 0]
AlarmDims == <<>>

(* statistic Sum, one evaluation period, missing data does not breach.     *)
EndPeriod ==
  /\ period < MaxPeriods
  /\ period' = period + 1
  /\ alarm' = [name \in DOMAIN Threshold |->
                 SumOf(Series(name, AlarmDims), {period}) > Threshold[name]]
  /\ UNCHANGED puts

MetricsInit ==
  /\ puts = <<>>
  /\ period = 1
  /\ alarm = [name \in DOMAIN Threshold |-> FALSE]

MetricsNext == Publish \/ EndPeriod

MetricsSpec == MetricsInit /\ [][MetricsNext]_metricVars

-----------------------------------------------------------------------------
(* The reader.                                                             *)

(* Faulty variant: everything is searched by the check.                    *)
DimensionCheck ==
  [name \in {"ViolationsDetected", "RemediationsApplied", "RemediationsFailed",
             "DetectionsUndetermined", "ExemptionsApplied", "ExemptionsRejected",
             "RemediationsThrottled", "ExemptionsExpiringSoon",
             "ProtectionsWeakened", "ViolationAttemptsBlocked"} |-> "CheckType"]

(* ENGINE_METRICS, and the one dimension each is searched by.              *)
Dimension ==
  [ViolationsDetected |-> "ViolationType", RemediationsApplied |-> "ViolationType",
   RemediationsFailed |-> "ViolationType", DetectionsUndetermined |-> "CheckType",
   ExemptionsApplied |-> "CheckType", ExemptionsRejected |-> "CheckType",
   RemediationsThrottled |-> "CheckType", ExemptionsExpiringSoon |-> "CheckType",
   ProtectionsWeakened |-> "CheckType", ViolationAttemptsBlocked |-> "EventName"]

Clamp(hours) ==
  IF hours < 1 THEN 1 ELSE IF hours > MaxHours THEN MaxHours ELSE hours

Window(hours) == {p \in 1 .. period : p + Clamp(hours) * PeriodsPerHour > period}

(* SEARCH('{namespace,dimension} MetricName="..."') finds the series of    *)
(* that name with that dimension and no other.                             *)
Search(name) ==
  {s \in UNION {puts[i].series : i \in DOMAIN puts} :
     s.name = name /\ DOMAIN s.dims = {Dimension[name]}}

Total(name, hours) ==
  MapThenSumSet(LAMBDA s : SumOf(s, Window(hours)), Search(name))

(* totals of get_compliance_posture; a warning is added when it is empty.  *)
Totals(hours) ==
  [name \in {n \in DOMAIN Dimension : Total(n, hours) > 0} |-> Total(name, hours)]

-----------------------------------------------------------------------------

(* What the engine put under a name, whatever the dimensions.              *)
Stored(name, hours) ==
  Cardinality({i \in DOMAIN puts :
                 /\ name \in {s.name : s \in puts[i].series}
                 /\ puts[i].period \in Window(hours)})

Names == UNION {{s.name : s \in puts[i].series} : i \in DOMAIN puts}

(* Put with a second dimension, which no search names.                     *)
TwoDimensional == {"ExemptionsRejected", "ViolationAttemptsBlocked"}

(* The reader and the engine agree on what was counted (test_mcp_metric_   *)
(* agreement): a posture over any window shows each metric with all that   *)
(* the engine put in it, but for those put with a second dimension.  And   *)
(* no finding is without its outcome: whatever calls CloudWatch loses and  *)
(* wherever a window is cut, what was detected is what was fixed and what  *)
(* failed.                                                                 *)
PostureCounts ==
  \A hours \in Hours :
    /\ \A name \in Names \ TwoDimensional :
         /\ name \in DOMAIN Dimension
         /\ Total(name, hours) = Stored(name, hours)
    /\ Total("ViolationsDetected", hours)
         = Total("RemediationsApplied", hours) + Total("RemediationsFailed", hours)

(* "A metric that is [not] queried ... silently absent from every posture  *)
(* report" (test_mcp_metric_agreement): whatever the engine put in a       *)
(* window, the posture of that window names the metric.                    *)
PostureShowsEveryMetric ==
  \A hours \in Hours, name \in Names :
    Stored(name, hours) > 0 => name \in DOMAIN Totals(hours)

(* "Threshold 0 because one undetermined check already means a resource    *)
(* went unassessed" (cloudwatch.tf): a period in which the engine counted  *)
(* a check without a verdict ends with that alarm raised.                  *)
UndeterminedRaisesAlarm ==
  [][period' # period /\ (\E i \in DOMAIN puts :
                            /\ puts[i].period = period
                            /\ "DetectionsUndetermined" \in {s.name : s \in puts[i].series})
     => alarm'["DetectionsUndetermined"]]_metricVars

=============================================================================
