---------------------------- MODULE ExpirySweep ----------------------------
(***************************************************************************)
(* The daily sweep that warns of exemptions about to lapse: a schedule     *)
(* (infrastructure/eventbridge.tf) invokes lambda_handler, which runs      *)
(* sweep: it lists the resources tagged exempt, page by page, and then     *)
(* sends a notice for each that lapses within WARN_WITHIN_DAYS.  Meanwhile *)
(* time passes and people change tags.                                     *)
(***************************************************************************)
EXTENDS Exemption, Sequences, FiniteSets

CONSTANTS
  Pages,           (* The resources of the account as the tagging API pages *)
                   (* them: a sequence of disjoint sets.                    *)
  TagChoices,      (* The tags people put on a resource.                    *)
  WarnWithinDays,  (* WARN_WITHIN_DAYS.                                     *)
  MaxMissed,       (* Bound on the chances to warn that come to nothing.    *)
  LastTick         (* Bound on the time modelled.                           *)

Resources == UNION {Pages[i] : i \in DOMAIN Pages}

ASSUME SweepAssumption ==
  /\ Pages \in Seq(SUBSET Resources)
  /\ TagChoices \subseteq Tags
  /\ WarnWithinDays \in Nat
  /\ MaxMissed \in Nat
  /\ LastTick \in Nat

VARIABLES
  now,       (* The present tick.                                           *)
  phase,     (* The time of the day at which the schedule fires.            *)
  tags,      (* The tags of each resource.                                  *)
  since,     (* History: the tick each resource was last tagged at ...      *)
  noticed,   (* ..., the resources a notice was published for since then,   *)
  missed,    (* and how many chances of that came to nothing.               *)
  sweep,     (* "idle", "due", "listing" or "sending".                      *)
  late,      (* Whether a tick passed since the sweep fell due.             *)
  startedAt, (* sweep's own "now".                                          *)
  page,      (* Pages listed.                                               *)
  expiring   (* sweep's list of resources to warn about.                    *)

tagVars   == <<tags, since, noticed, missed>>
sweepVars == <<sweep, startedAt, page, expiring>>
vars == <<now, phase, tagVars, sweepVars, late>>

(* rate(1 day): a day after it last fired, the first time whenever the     *)
(* rule was created.                                                       *)
Fires(tick) == (tick - phase) % TicksPerDay = 0

Init ==
  /\ now = 0
  /\ phase \in 0 .. TicksPerDay - 1
  /\ tags \in [Resources -> TagChoices]
  /\ since = [r \in Resources |-> 0]
  /\ noticed = {}
  /\ missed = [r \in Resources |-> 0]
  /\ sweep = IF Fires(0) THEN "due" ELSE "idle"
  /\ late = FALSE
  /\ startedAt = 0
  /\ page = 0
  /\ expiring = {}

-----------------------------------------------------------------------------

(* Time passes.  The schedule fires every day; Lambda holds its event for  *)
(* six hours at most and runs it for a minute at most, so a sweep is at    *)
(* most a tick late.                                                       *)
Tick ==
  /\ now < LastTick
  /\ sweep # "idle" => ~late
  /\ now' = now + 1
  /\ late' = (sweep # "idle")
  /\ sweep # "idle" => ~Fires(now')
  /\ sweep' = IF Fires(now') THEN "due" ELSE sweep
  /\ UNCHANGED <<phase, tagVars, startedAt, page, expiring>>

Retag(r, t) ==
  /\ tags' = [tags EXCEPT ![r] = t]
  /\ since' = [since EXCEPT ![r] = now]
  /\ noticed' = noticed \ {r}
  /\ missed' = [missed EXCEPT ![r] = 0]
  /\ UNCHANGED <<now, phase, sweepVars, late>>

(* lambda_handler recognises the Scheduled Event.                          *)
StartSweep ==
  /\ sweep = "due"
  /\ sweep' = "listing"
  /\ startedAt' = now
  /\ page' = 0
  /\ expiring' = {}
  /\ UNCHANGED <<now, phase, tagVars, late>>

(* The tag filter of get_resources compares exactly.                       *)
Listed(r) == tags[r].value = "true"

(* Faulty variant: warn strictly within the days.                          *)
LapsesSoonStrictly(r) ==
  /\ Exempt(tags[r], startedAt)
  /\ DaysLeft(tags[r], startedAt) < WarnWithinDays

LapsesSoon(r) ==
  /\ Exempt(tags[r], startedAt)
  /\ DaysLeft(tags[r], startedAt) <= WarnWithinDays

ListPage ==
  /\ sweep = "listing"
  /\ page < Len(Pages)
  /\ page' = page + 1
  /\ expiring' = expiring \union {r \in Pages[page + 1] : Listed(r) /\ LapsesSoon(r)}
  /\ UNCHANGED <<now, phase, tagVars, sweep, startedAt, late>>

EndListing ==
  /\ sweep = "listing"
  /\ page = Len(Pages)
  /\ sweep' = "sending"
  /\ UNCHANGED <<now, phase, tagVars, startedAt, page, expiring, late>>

(* A chance to warn of each resource is missed.                            *)
MissAll ==
  /\ \A r \in Resources : missed[r] < MaxMissed
  /\ missed' = [r \in Resources |-> missed[r] + 1]
  /\ UNCHANGED <<tags, since, noticed>>

(* Faulty variant: what earlier pages held outlives the failed sweep.      *)
ListingFailsKeepingList ==
  /\ sweep = "listing"
  /\ MissAll
  /\ sweep' = "idle"
  /\ UNCHANGED <<now, phase, startedAt, page, expiring, late>>

(* A page cannot be read: sweep reports the error and returns, and what it *)
(* found on earlier pages is dropped.  Lambda is satisfied.                *)
ListingFails ==
  /\ sweep = "listing"
  /\ MissAll
  /\ sweep' = "idle"
  /\ expiring' = {}
  /\ UNCHANGED <<now, phase, startedAt, page, late>>

(* publish_exemption_expiring and send_notice for one resource.  A publish *)
(* that fails is logged and swallowed, and without SNS_TOPIC_ARN nothing is*)
(* published: either way the sweep goes on as if the notice had gone out.  *)
SendNotice(r) ==
  /\ sweep = "sending"
  /\ r \in expiring
  /\ \/ noticed' = noticed \union {r} /\ UNCHANGED missed
     \/ /\ missed[r] < MaxMissed
        /\ missed' = [missed EXCEPT ![r] = @ + 1]
        /\ UNCHANGED noticed
  /\ expiring' = expiring \ {r}
  /\ UNCHANGED <<now, phase, tags, since, sweep, startedAt, page, late>>

EndSweep ==
  /\ sweep = "sending"
  /\ expiring = {}
  /\ sweep' = "idle"
  /\ UNCHANGED <<now, phase, tagVars, startedAt, page, expiring, late>>

(* An attempt that times out or crashes is made again by Lambda ...        *)
AttemptFails ==
  /\ sweep \in {"listing", "sending"}
  /\ sweep' = "due"
  /\ expiring' = {}
  /\ UNCHANGED <<now, phase, tagVars, startedAt, page, late>>

(* ... until its attempts are spent.                                       *)
SweepDropped ==
  /\ sweep \in {"due", "listing", "sending"}
  /\ MissAll
  /\ sweep' = "idle"
  /\ expiring' = {}
  /\ UNCHANGED <<now, phase, startedAt, page, late>>

Next ==
  \/ Tick
  \/ \E r \in Resources, t \in TagChoices : Retag(r, t)
  \/ StartSweep \/ ListPage \/ EndListing \/ ListingFails
  \/ \E r \in Resources : SendNotice(r)
  \/ EndSweep \/ AttemptFails \/ SweepDropped

Spec == Init /\ [][Next]_vars

-----------------------------------------------------------------------------

TypeOK ==
  /\ now \in 0 .. LastTick
  /\ phase \in 0 .. TicksPerDay - 1
  /\ tags \in [Resources -> TagChoices]
  /\ since \in [Resources -> 0 .. now]
  /\ noticed \subseteq Resources
  /\ missed \in [Resources -> 0 .. MaxMissed]
  /\ sweep \in {"idle", "due", "listing", "sending"}
  /\ late \in BOOLEAN
  /\ startedAt \in 0 .. now
  /\ page \in 0 .. Len(Pages)
  /\ expiring \subseteq Resources
  /\ sweep \in {"idle", "due"} => expiring = {}

(* The tags were left alone during the whole warning window.               *)
Settled(r) == since[r] + (WarnWithinDays + 1) * TicksPerDay < End(tags[r])

(* "A daily sweep gives seven chances to see it before the exemption       *)
(* actually lapses" (eventbridge.tf): an exemption that was in place for   *)
(* the warning window does not lapse without a notice, at whatever time of *)
(* the day the sweeps fall due and however late they run, unless since it  *)
(* was tagged as many sweeps failed, or notices of it were lost, as the    *)
(* window has days.  It must be written the way the filter reads: one      *)
(* written TRUE is honoured by the engine and lapses unannounced.          *)
WarnedBeforeLapse ==
  \A r \in Resources :
    /\ Reason(tags[r], now) = "expired"
    /\ Listed(r) /\ Settled(r)
    /\ missed[r] < WarnWithinDays
    => r \in noticed

(* "A date with no time means through the end of that day" (exemption.py): *)
(* on its day, a dated exemption is honoured.  A compact date lapses at the*)
(* midnight it starts with, and is left out here.                          *)
DateLastsItsDay ==
  \A r \in Resources :
    /\ tags[r].value = "true"
    /\ tags[r].until = "date"
    /\ tags[r].at = now \div TicksPerDay
    => Exempt(tags[r], now)

=============================================================================
