----------------------------- MODULE Exemption -----------------------------
(***************************************************************************)
(* The decision whether a resource's tags exempt it, which the S3 rules,   *)
(* the EC2 rule and the expiry sweep share (utils/exemption.py).           *)
(*                                                                         *)
(* Time is counted in ticks, TicksPerDay to the day, day 0 starting at     *)
(* tick 0.  A tag is what was written in it: a form and, for a date, its   *)
(* day, for a timestamp, its tick.                                         *)
(***************************************************************************)
EXTENDS Integers

CONSTANT TicksPerDay

ASSUME TicksAssumption == TicksPerDay \in Nat \ {0}

(* ComplianceExempt: "true" itself, "TRUE" or " true", anything else, none.*)
Values == {"true", "true in other letters", "something else", "absent"}

(* ComplianceExemptUntil: YYYY-MM-DD, YYYYMMDD, a timestamp, text that     *)
(* fromisoformat rejects or blanks, none.                                  *)
ReadableForms == {"date", "compact date", "timestamp"}
UntilForms == ReadableForms \union {"unreadable", "absent"}

Tags == [value : Values, until : UntilForms, at : Nat]

(* Faulty variant: every date lapses at the midnight it starts with.       *)
EndAtMidnight(tags) ==
  CASE tags.until = "timestamp" -> tags.at + 1
    [] OTHER -> tags.at * TicksPerDay + 1

(* The first tick at which the tags of a readable form have lapsed.        *)
(* _parse_until stretches a date to the end of its day when it was written *)
(* in ten characters; evaluate_exemption honours the instant itself.       *)
End(tags) ==
  CASE tags.until = "date" -> (tags.at + 1) * TicksPerDay
    [] tags.until = "compact date" -> tags.at * TicksPerDay + 1
    [] tags.until = "timestamp" -> tags.at + 1

(* The reason evaluate_exemption gives; the resource is exempt exactly     *)
(* when it is "exempt".                                                    *)
Reason(tags, now) ==
  CASE tags.value \notin {"true", "true in other letters"} -> "not_tagged"
    [] tags.value \in {"true", "true in other letters"}
         /\ tags.until = "absent" -> "missing_expiry"
    [] tags.value \in {"true", "true in other letters"}
         /\ tags.until = "unreadable" -> "malformed_expiry"
    [] tags.value \in {"true", "true in other letters"}
         /\ tags.until \in ReadableForms ->
         IF now >= End(tags) THEN "expired" ELSE "exempt"

Exempt(tags, now) == Reason(tags, now) = "exempt"

(* (until - now).days, rounded down as timedelta does: a date ends a       *)
(* moment before the tick End names, a timestamp a whole tick before.      *)
DaysLeft(tags, now) == (End(tags) - 1 - now) \div TicksPerDay

=============================================================================
