--------------------------- MODULE Ec2RulesProofs ---------------------------
(***************************************************************************)
(* What holds of the EC2 rule for every launch, however many instances and *)
(* volumes it has, any number of deliveries and retries, and any           *)
(* reservation.                                                            *)
(***************************************************************************)
EXTENDS Ec2Rules, TLAPS

USE DEF fleetVars, lambdaVars, loopVars, batchVars, doneVars, reportVars, engineVars

FleetTyped ==
  /\ life \in [Fleet -> Lives]
  /\ attached \in [Fleet -> SUBSET AllVolumes]
  /\ tags \in [Fleet -> Exemptions]
  /\ reason \in [Fleet -> {"none", "stop", "terminate"}]

Notes == [by : Deliveries, on : Fleet \union {"unknown", "volume"}, channel : {"metric", "mail"},
          what : Verdicts \union {"exemption rejected", "throttled", "blocked"}]

Passes == [Deliveries -> SUBSET [on : Fleet, life : Lives, seen : SUBSET AllVolumes,
                                how : {"encrypted", "failed"}]]

ReportsTyped ==
  /\ published \subseteq Notes
  /\ refusals \subseteq Deliveries \X Fleet
  /\ acted \subseteq Fleet
  /\ passed \in Passes
  /\ blamed \in [Deliveries -> {"nobody", "person", "error", "engine"}]

LoopTyped ==
  /\ pc \in [Deliveries -> {"idle", "guard", "prefetch volumes", "describe", "check",
                            "tag", "act", "metric", "mail"}]
  /\ at \in [Deliveries -> 1 .. Len(Instances)]
  /\ instance \in [Deliveries -> Descriptions \union {None}]
  /\ verdict \in [Deliveries -> Verdicts]
  /\ prefetched \in [Deliveries -> Batches \union {None}]
  /\ prefetchedVolumes \in [Deliveries -> (SUBSET AllVolumes) \union {None}]

(* Where the handler is agrees with where Lambda thinks it is, and with    *)
(* what it holds.                                                          *)
Local(d) ==
  /\ status[d] = "unsent" => attempts[d] = 0
  /\ status[d] = "queued" => attempts[d] < MaxAttempts
  /\ pc[d] # "idle" <=> status[d] = "running"
  /\ pc[d] = "prefetch volumes" => prefetched[d] \in Batches
  /\ pc[d] \in {"idle", "guard", "prefetch volumes"} => at[d] = 1
  /\ pc[d] \in {"check", "tag", "act"} => instance[d] # None
  /\ verdict[d] # "none" <=> pc[d] \in {"metric", "mail"}

Shape == TypeOK /\ \A d \in Deliveries : Local(d)

LEMMA ShapeParts ==
  Shape <=> /\ FleetTyped /\ ReportsTyped /\ LoopTyped
            /\ record \in [Deliveries -> Records]
            /\ Platform!TypeOK
            /\ \A d \in Deliveries : Local(d)
BY DEF Shape, TypeOK, FleetTyped, ReportsTyped, LoopTyped, Notes, Passes, Local

-----------------------------------------------------------------------------
(* The operators of the model.                                             *)

LEMMA LaunchIsOrdered ==
  /\ Len(Instances) \in Nat \ {0}
  /\ \A k \in 1 .. Len(Instances) : Instances[k] \in Fleet
  /\ \A i \in Fleet : \E k \in 1 .. Len(Instances) : Instances[k] = i
<1>1. Instances \in Seq(Fleet) /\ Instances # <<>>
  BY LaunchAssumption
<1>2. Len(Instances) \in Nat \ {0} /\ DOMAIN Instances = 1 .. Len(Instances)
  BY <1>1
<1> QED
  BY <1>1, <1>2 DEF Fleet

LEMMA CurrentInFleet ==
  ASSUME LoopTyped, NEW d \in Deliveries
  PROVE  Current(d) \in Fleet
BY LaunchIsOrdered DEF LoopTyped, Current

LEMMA NoteTyped ==
  ASSUME NEW d \in Deliveries, NEW i \in Fleet \union {"unknown", "volume"},
         NEW what \in Verdicts \union {"exemption rejected", "throttled", "blocked"},
         NEW channel \in {"metric", "mail"}
  PROVE  Note(d, i, what, channel) \in Notes
BY DEF Note, Notes

LEMMA PublishTyped ==
  ASSUME ReportsTyped, NEW notes \in SUBSET Notes, Publish(notes),
         UNCHANGED <<refusals, acted, blamed>>, passed' \in Passes
  PROVE  ReportsTyped'
BY DEF Publish, ReportsTyped

LEMMA PassingTyped ==
  ASSUME LoopTyped, ReportsTyped, NEW d \in Deliveries, instance[d] # None,
         NEW how \in {"encrypted", "failed"}
  PROVE  Passing(d, how) \in Passes
<1> DEFINE p == [on |-> Current(d), life |-> instance[d].life,
                 seen |-> instance[d].mappings, how |-> how]
<1>1. p \in [on : Fleet, life : Lives, seen : SUBSET AllVolumes, how : {"encrypted", "failed"}]
  BY CurrentInFleet DEF LoopTyped, Descriptions
<1> HIDE DEF p
<1>2. Passing(d, how) = [passed EXCEPT ![d] = @ \union {p}]
  BY DEF Passing, p
<1> QED
  BY <1>1, <1>2 DEF ReportsTyped, Passes

LEMMA RejectedExemptionTyped ==
  ASSUME LoopTyped, NEW d \in Deliveries
  PROVE  RejectedExemption(d) \subseteq Notes
BY CurrentInFleet, NoteTyped DEF RejectedExemption

LEMMA DescribedTyped ==
  ASSUME FleetTyped, NEW i \in Fleet
  PROVE  Described(i) \in Descriptions /\ Described(i) # None
BY NoneAssumption DEF FleetTyped, Described, Descriptions

LEMMA BatchTyped ==
  ASSUME FleetTyped, NEW seen \in SUBSET Fleet
  PROVE  [i \in seen |-> Described(i)] \in Batches
<1>1. [i \in seen |-> Described(i)] \in [seen -> Descriptions]
  BY DescribedTyped
<1> QED
  BY <1>1 DEF Batches

(* A batch names instances of the launch and describes each.               *)
LEMMA BatchHolds ==
  ASSUME NEW batch \in Batches, NEW i \in DOMAIN batch
  PROVE  i \in Fleet /\ batch[i] \in Descriptions /\ batch[i] # None
<1>1. PICK seen \in SUBSET Fleet : batch \in [seen -> Descriptions]
  BY DEF Batches
<1> QED
  BY <1>1, NoneAssumption

LEMMA AskedTyped ==
  ASSUME NEW d \in Deliveries, prefetched[d] \in Batches
  PROVE  Asked(d) \subseteq AllVolumes
<1> SUFFICES ASSUME NEW i \in DOMAIN prefetched[d], NEW v \in Named(prefetched[d][i].mappings)
             PROVE  v \in AllVolumes
  BY DEF Asked
<1>1. prefetched[d][i].mappings \subseteq AllVolumes
  BY BatchHolds DEF Descriptions
<1> QED
  BY <1>1 DEF Named

LEMMA ActionTyped == RemediationAction \in {"stop", "terminate"}
BY DEF RemediationAction

-----------------------------------------------------------------------------
(* The shape is inductive.                                                 *)

LEMMA ShapeInit == Init => Shape
<1> SUFFICES ASSUME Init PROVE Shape
  OBVIOUS
<1>1. Platform!TypeOK /\ \A d \in Deliveries : status[d] = "unsent" /\ attempts[d] = 0
  BY PlatformAssumption DEF Init, Platform!Init, Platform!TypeOK, Platform!Status
<1>2. FleetTyped /\ record \in [Deliveries -> Records]
  BY DEF Init, FleetTyped, Lives, Exemptions, Records
<1>3. ReportsTyped
  BY DEF Init, ReportsTyped, Passes
<1>4. LoopTyped
  <2>1. 1 \in 1 .. Len(Instances)
    BY LaunchIsOrdered
  <2> QED
    BY <2>1 DEF Init, LoopTyped, Verdicts
<1>5. ASSUME NEW d \in Deliveries PROVE Local(d)
  BY <1>1, <1>5 DEF Init, Local
<1> QED
  BY <1>1, <1>2, <1>3, <1>4, <1>5, ShapeParts

(* What a step of d leaves alone.                                          *)
OthersKept(d) ==
  \A e \in Deliveries \ {d} :
    /\ status'[e] = status[e] /\ attempts'[e] = attempts[e] /\ pc'[e] = pc[e]
    /\ at'[e] = at[e] /\ instance'[e] = instance[e] /\ verdict'[e] = verdict[e]
    /\ prefetched'[e] = prefetched[e] /\ prefetchedVolumes'[e] = prefetchedVolumes[e]

LEMMA ShapeStep ==
  ASSUME Shape, NEW d \in Deliveries, OthersKept(d), Local(d)',
         FleetTyped', ReportsTyped', LoopTyped', Platform!TypeOK',
         record' \in [Deliveries -> Records]
  PROVE  Shape'
<1>1. ASSUME NEW e \in Deliveries PROVE Local(e)'
  BY <1>1 DEF OthersKept, Shape, Local
<1> QED
  BY <1>1 DEF Shape, TypeOK, FleetTyped, ReportsTyped, LoopTyped, Notes, Passes, Local

(* The end of an attempt, whether the handler returned or raised.          *)
LEMMA LeaveEffect ==
  ASSUME Shape, NEW d \in Deliveries, Return(d) \/ Raise(d)
  PROVE  /\ OthersKept(d) /\ LoopTyped' /\ Platform!TypeOK' /\ UNCHANGED attempts
         /\ status[d] = "running" /\ pc'[d] = "idle" /\ at'[d] = 1
         /\ verdict'[d] = "none" /\ instance'[d] = None /\ prefetched'[d] = None
         /\ \/ Return(d) /\ status'[d] = "done"
            \/ Raise(d) /\ status'[d] \in {"queued", "dlq"}
         /\ status'[d] = "queued" => attempts[d] < MaxAttempts
<1>1. LoopTyped /\ Platform!TypeOK
  BY ShapeParts
<1>2. /\ pc' = [pc EXCEPT ![d] = "idle"] /\ at' = [at EXCEPT ![d] = 1]
      /\ instance' = [instance EXCEPT ![d] = None]
      /\ verdict' = [verdict EXCEPT ![d] = "none"]
      /\ prefetched' = [prefetched EXCEPT ![d] = None]
      /\ prefetchedVolumes' = [prefetchedVolumes EXCEPT ![d] = None]
  BY DEF Return, Raise, Leave
<1>3. PICK s \in {"queued", "done", "dlq"} :
        /\ status' = [status EXCEPT ![d] = s]
        /\ \/ Return(d) /\ s = "done"
           \/ Raise(d) /\ s \in {"queued", "dlq"}
        /\ s = "queued" => attempts[d] < MaxAttempts
  BY DEF Return, Raise, Platform!Succeed, Platform!Fail
<1>4. status[d] = "running" /\ UNCHANGED attempts
  BY DEF Return, Raise, Platform!Succeed, Platform!Fail
<1>5. LoopTyped'
  <2>1. 1 \in 1 .. Len(Instances)
    BY LaunchIsOrdered
  <2> QED
    BY <1>1, <1>2, <2>1 DEF LoopTyped, Verdicts
<1>6. Platform!TypeOK'
  <2>1. s \in Platform!Status
    BY DEF Platform!Status
  <2> QED
    BY <1>1, <1>3, <1>4, <2>1 DEF Platform!TypeOK
<1>7. OthersKept(d)
  BY <1>1, <1>2, <1>3, <1>4 DEF OthersKept, LoopTyped, Platform!TypeOK
<1>8. status'[d] = s
  BY <1>1, <1>3 DEF Platform!TypeOK
<1>9. /\ pc'[d] = "idle" /\ at'[d] = 1 /\ verdict'[d] = "none"
      /\ instance'[d] = None /\ prefetched'[d] = None
  BY <1>1, <1>2 DEF LoopTyped
<1> QED
  BY <1>3, <1>4, <1>5, <1>6, <1>7, <1>8, <1>9

LEMMA ShapeLeave ==
  ASSUME Shape, UNCHANGED <<fleetVars, record>>, ReportsTyped',
         NEW d \in Deliveries, Return(d) \/ Raise(d)
  PROVE  Shape'
<1>1. FleetTyped' /\ record' \in [Deliveries -> Records]
  BY ShapeParts DEF FleetTyped
<1>2. Local(d)'
  BY LeaveEffect DEF Local
<1> QED
  BY <1>1, <1>2, LeaveEffect, ShapeStep

(* A change of the account, or of nothing, leaves the shape.               *)
LEMMA ShapeFleet ==
  ASSUME Shape, FleetTyped', UNCHANGED engineVars
  PROVE  Shape'
BY DEF Shape, TypeOK, FleetTyped, Platform!TypeOK, Local

(* The handler goes on to its next call.                                   *)
LEMMA GotoEffect ==
  ASSUME Shape, NEW d \in Deliveries, pc[d] # "idle",
         NEW label \in {"prefetch volumes", "describe", "check", "tag", "act", "metric", "mail"},
         Goto(d, label)
  PROVE  /\ UNCHANGED <<status, attempts>> /\ Platform!TypeOK' /\ status'[d] = "running"
         /\ pc' \in [Deliveries -> {"idle", "guard", "prefetch volumes", "describe", "check",
                                    "tag", "act", "metric", "mail"}]
         /\ pc'[d] = label
         /\ \A e \in Deliveries \ {d} : pc'[e] = pc[e]
BY DEF Shape, TypeOK, Local, Goto, Platform!TypeOK

LEMMA ShapeGoto ==
  ASSUME Shape, FleetTyped', ReportsTyped', UNCHANGED <<record, loopVars, batchVars>>,
         NEW d \in Deliveries, pc[d] \notin {"idle", "metric", "mail"},
         NEW label \in {"describe", "tag", "act"}, Goto(d, label),
         label \in {"tag", "act"} => pc[d] \in {"check", "tag"}
  PROVE  Shape'
<1>1. LoopTyped'
  BY GotoEffect DEF Shape, TypeOK, LoopTyped
<1>2. OthersKept(d)
  BY GotoEffect DEF OthersKept
<1>3. Local(d)'
  BY GotoEffect DEF Shape, Local
<1>4. record' \in [Deliveries -> Records]
  BY DEF Shape, TypeOK
<1> QED
  BY <1>1, <1>2, <1>3, <1>4, GotoEffect, ShapeStep

LEMMA ShapeDecide ==
  ASSUME Shape, FleetTyped', ReportsTyped', UNCHANGED record,
         NEW d \in Deliveries, pc[d] \notin {"idle", "guard", "prefetch volumes"},
         NEW v \in Verdicts, NEW label \in {"tag", "metric", "mail"}, Decide(d, v, label),
         v = "none" <=> label = "tag", label = "tag" => pc[d] = "check"
  PROVE  Shape'
<1>1. /\ Goto(d, label) /\ verdict' = [verdict EXCEPT ![d] = v]
      /\ UNCHANGED <<at, instance, batchVars>>
  BY DEF Decide
<1>2. LoopTyped'
  BY <1>1, GotoEffect DEF Shape, TypeOK, LoopTyped
<1>3. OthersKept(d)
  BY <1>1, GotoEffect DEF OthersKept, Shape, TypeOK
<1>4. Local(d)'
  <2>1. verdict'[d] = v
    BY <1>1 DEF Shape, TypeOK
  <2> QED
    BY <1>1, <2>1, GotoEffect DEF Shape, Local
<1>5. record' \in [Deliveries -> Records]
  BY DEF Shape, TypeOK
<1> QED
  BY <1>1, <1>2, <1>3, <1>4, <1>5, GotoEffect, ShapeStep

(* The loop goes on with the next instance.                                *)
LEMMA NextEffect ==
  ASSUME Shape, NEW d \in Deliveries, pc[d] # "idle", Advance(d), at[d] < Len(Instances)
  PROVE  /\ at'[d] = at[d] + 1 /\ instance'[d] = None /\ verdict'[d] = "none"
         /\ pc'[d] = "describe" /\ UNCHANGED batchVars
         /\ LoopTyped' /\ OthersKept(d) /\ UNCHANGED lambdaVars /\ status'[d] = "running"
<1>1. /\ at' = [at EXCEPT ![d] = at[d] + 1]
      /\ instance' = [instance EXCEPT ![d] = None]
      /\ verdict' = [verdict EXCEPT ![d] = "none"]
      /\ Goto(d, "describe") /\ UNCHANGED batchVars
  BY DEF Advance
<1>2. at[d] + 1 \in 1 .. Len(Instances)
  <2>1. at[d] \in 1 .. Len(Instances) /\ Len(Instances) \in Nat
    BY LaunchIsOrdered DEF Shape, TypeOK
  <2> QED
    BY <2>1
<1>3. LoopTyped'
  BY <1>1, <1>2, GotoEffect DEF Shape, TypeOK, LoopTyped, Verdicts
<1>4. OthersKept(d)
  BY <1>1, GotoEffect DEF OthersKept, Shape, TypeOK
<1> QED
  BY <1>1, <1>3, <1>4, GotoEffect DEF Shape, TypeOK

LEMMA ShapeAdvance ==
  ASSUME Shape, UNCHANGED <<fleetVars, record>>, ReportsTyped',
         NEW d \in Deliveries, pc[d] # "idle", Advance(d)
  PROVE  Shape'
<1>1. CASE at[d] < Len(Instances)
  <2>1. Local(d)'
    BY <1>1, NextEffect DEF Shape, Local
  <2>2. FleetTyped' /\ record' \in [Deliveries -> Records] /\ Platform!TypeOK'
    BY <1>1, ShapeParts, NextEffect DEF FleetTyped, Platform!TypeOK
  <2> QED
    BY <1>1, <2>1, <2>2, NextEffect, ShapeStep
<1>2. CASE ~(at[d] < Len(Instances))
  BY <1>2, ShapeLeave DEF Advance
<1> QED
  BY <1>1, <1>2

LEMMA ShapeThrottle ==
  ASSUME Shape, NEW d \in Deliveries, NEW i \in Fleet \union {"volume"}, Throttle(d, i)
  PROVE  Shape'
<1>1. Note(d, i, "throttled", "metric") \in Notes
  BY NoteTyped
<1>2. Publish({Note(d, i, "throttled", "metric")}) /\ UNCHANGED doneVars
  BY DEF Throttle
<1>3. ReportsTyped'
  BY <1>1, <1>2, ShapeParts, PublishTyped DEF ReportsTyped
<1> QED
  BY <1>3, ShapeLeave DEF Throttle

LEMMA ShapePrefetch ==
  ASSUME Shape, NEW d \in Deliveries, Prefetch(d)
  PROVE  Shape'
<1>1. FleetTyped /\ ReportsTyped /\ LoopTyped
  BY ShapeParts
<1>2. CASE PrefetchInstances(d)
  <2>1. PICK seen \in SUBSET Fleet :
          /\ prefetched' = [prefetched EXCEPT ![d] = [i \in seen |-> Described(i)]]
          /\ Goto(d, IF seen = {} THEN "describe" ELSE "prefetch volumes")
    BY <1>2 DEF PrefetchInstances, AnswersTo
  <2> DEFINE batch == [i \in seen |-> Described(i)]
             label == IF seen = {} THEN "describe" ELSE "prefetch volumes"
  <2>2. batch \in Batches /\ label \in {"describe", "prefetch volumes"}
    BY <1>1, BatchTyped
  <2>3. prefetched' = [prefetched EXCEPT ![d] = batch] /\ Goto(d, label)
    BY <2>1
  <2> HIDE DEF batch, label
  <2>4. pc[d] = "guard" /\ UNCHANGED <<fleetVars, record, loopVars, prefetchedVolumes, reportVars>>
    BY <1>2 DEF PrefetchInstances, Prefetching
  <2>5. LoopTyped'
    BY <1>1, <2>2, <2>3, <2>4, GotoEffect DEF LoopTyped
  <2>6. OthersKept(d)
    BY <1>1, <2>2, <2>3, <2>4, GotoEffect DEF OthersKept, LoopTyped
  <2>7. Local(d)'
    <3>1. prefetched'[d] = batch /\ pc'[d] = label /\ status'[d] = "running"
      BY <1>1, <2>2, <2>3, <2>4, GotoEffect DEF LoopTyped
    <3> QED
      BY <2>2, <2>3, <2>4, <3>1 DEF Shape, Local
  <2>8. FleetTyped' /\ ReportsTyped' /\ record' \in [Deliveries -> Records] /\ Platform!TypeOK'
    BY <1>1, <2>2, <2>3, <2>4, GotoEffect DEF FleetTyped, ReportsTyped, Shape, TypeOK
  <2> QED
    BY <2>5, <2>6, <2>7, <2>8, ShapeStep
<1>3. CASE PrefetchVolumes(d)
  <2>1. PICK seen \in SUBSET Asked(d) : prefetchedVolumes' = [prefetchedVolumes EXCEPT ![d] = seen]
    BY <1>3 DEF PrefetchVolumes, AnswersTo
  <2>2. pc[d] = "prefetch volumes" /\ Goto(d, "describe")
        /\ UNCHANGED <<fleetVars, record, loopVars, prefetched, reportVars>>
    BY <1>3 DEF PrefetchVolumes
  <2>3. seen \in SUBSET AllVolumes
    BY <2>2, AskedTyped DEF Shape, Local
  <2>4. LoopTyped'
    BY <1>1, <2>1, <2>2, <2>3, GotoEffect DEF LoopTyped
  <2>5. OthersKept(d)
    BY <1>1, <2>1, <2>2, GotoEffect DEF OthersKept, LoopTyped
  <2>6. Local(d)'
    BY <2>2, GotoEffect DEF Shape, Local
  <2>7. FleetTyped' /\ ReportsTyped' /\ record' \in [Deliveries -> Records] /\ Platform!TypeOK'
    BY <1>1, <2>2, GotoEffect DEF FleetTyped, ReportsTyped, Shape, TypeOK
  <2> QED
    BY <2>4, <2>5, <2>6, <2>7, ShapeStep
<1>4. CASE PrefetchInstancesFails(d) \/ PrefetchVolumesFails(d)
  <2>1. pc[d] \in {"guard", "prefetch volumes"} /\ Goto(d, "describe")
        /\ UNCHANGED <<fleetVars, record, loopVars, batchVars, reportVars>>
    BY <1>4 DEF PrefetchInstancesFails, PrefetchVolumesFails, Prefetching
  <2>2. FleetTyped' /\ ReportsTyped'
    BY <1>1, <2>1 DEF FleetTyped, ReportsTyped
  <2> QED
    BY <2>1, <2>2, ShapeGoto
<1>5. CASE PrefetchInstancesThrottled(d) \/ PrefetchVolumesThrottled(d)
  <2>1. Instances[1] \in Fleet
    BY LaunchIsOrdered
  <2> QED
    BY <1>5, <2>1, ShapeThrottle DEF PrefetchInstancesThrottled, PrefetchVolumesThrottled
<1> QED
  BY <1>2, <1>3, <1>4, <1>5 DEF Prefetch

LEMMA ShapeLook ==
  ASSUME Shape, NEW d \in Deliveries, pc[d] = "describe",
         NEW description \in Descriptions, Look(d, description)
  PROVE  Shape'
<1>1. /\ instance' = [instance EXCEPT ![d] = description] /\ Goto(d, "check")
      /\ UNCHANGED <<fleetVars, record, at, verdict, batchVars, reportVars>>
  BY DEF Look
<1>2. LoopTyped'
  BY <1>1, GotoEffect DEF Shape, TypeOK, LoopTyped
<1>3. OthersKept(d)
  BY <1>1, GotoEffect DEF OthersKept, Shape, TypeOK
<1>4. Local(d)'
  <2>1. instance'[d] = description
    BY <1>1 DEF Shape, TypeOK
  <2> QED
    BY <1>1, <2>1, GotoEffect, NoneAssumption DEF Shape, Local
<1>5. FleetTyped' /\ ReportsTyped' /\ record' \in [Deliveries -> Records]
  BY <1>1 DEF Shape, TypeOK, FleetTyped, ReportsTyped, Notes, Passes
<1> QED
  BY <1>1, <1>2, <1>3, <1>4, <1>5, GotoEffect, ShapeStep

LEMMA ShapeRefuse ==
  ASSUME Shape, NEW d \in Deliveries, pc[d] \in {"tag", "act"}, NEW possible, Refuse(d, possible)
  PROVE  Shape'
<1>1. FleetTyped /\ ReportsTyped /\ Current(d) \in Fleet
  BY ShapeParts, CurrentInFleet
<1>2. FleetTyped' /\ ReportsTyped'
  <2>1. blamed' \in [Deliveries -> {"nobody", "person", "error", "engine"}]
    BY <1>1 DEF Refuse, ReportsTyped
  <2> QED
    BY <1>1, <2>1 DEF Refuse, FleetTyped, ReportsTyped
<1> QED
  BY <1>2, ShapeDecide DEF Refuse, Verdicts

(* What the account makes of a stop or a termination.                      *)
LEMMA ActTyped ==
  ASSUME FleetTyped, NEW i \in Fleet, Act(i)
  PROVE  FleetTyped'
BY DEF FleetTyped, Act, End, Lives

(* The check of the volumes ends in one of three ways.                     *)
LEMMA CheckVolumesEnds ==
  ASSUME NEW d \in Deliveries, CheckVolumes(d)
  PROVE  /\ Advance(d) \/ Decide(d, "undetermined", "metric") \/ Decide(d, "none", "tag")
         /\ passed' \in {passed, Passing(d, "encrypted")}
<1>1. PICK answered \in Answers(d) :
        \E encryption \in VolumeEncryptionStatus(instance[d], answered) :
          /\ CASE encryption = "encrypted" -> Advance(d)
               [] encryption = "undetermined" -> Decide(d, "undetermined", "metric")
               [] encryption = "unencrypted" -> Decide(d, "none", "tag")
          /\ passed' = IF encryption = "encrypted" THEN Passing(d, "encrypted") ELSE passed
  BY DEF CheckVolumes
<1>2. VolumeEncryptionStatus(instance[d], answered)
        \subseteq {"encrypted", "undetermined", "unencrypted"}
  BY DEF VolumeEncryptionStatus
<1> QED
  BY <1>1, <1>2

LEMMA ShapeHandle ==
  ASSUME Shape, NEW d \in Deliveries, Handle(d)
  PROVE  Shape'
<1>1. FleetTyped /\ ReportsTyped /\ LoopTyped /\ Current(d) \in Fleet
  BY ShapeParts, CurrentInFleet
<1>2. CASE DropRejectedCall(d)
  <2>1. {Note(d, "unknown", "blocked", c) : c \in {"metric", "mail"}} \subseteq Notes
    BY NoteTyped
  <2>2. ReportsTyped'
    BY <1>1, <1>2, <2>1, PublishTyped DEF DropRejectedCall, ReportsTyped
  <2> QED
    BY <1>2, <2>2, ShapeLeave DEF DropRejectedCall
<1>3. CASE MissInstances(d)
  <2>1. ReportsTyped'
    BY <1>1, <1>3 DEF MissInstances, ReportsTyped
  <2> QED
    BY <1>3, <2>1, ShapeLeave DEF MissInstances
<1>4. CASE Prefetch(d)
  BY <1>4, ShapePrefetch
<1>5. ASSUME Unanswered(d), pc[d] = "describe"
      PROVE  Shape'
  <2>1. FleetTyped' /\ ReportsTyped'
    BY <1>1, <1>5 DEF Unanswered, FleetTyped, ReportsTyped
  <2> QED
    BY <1>5, <2>1, ShapeDecide DEF Unanswered, Verdicts
<1>6. CASE LookUp(d)
  <2>1. CASE Current(d) \in DOMAIN prefetched[d]
    <3>1. prefetched[d] \in Batches
      BY <1>1, <1>6 DEF LookUp, LoopTyped
    <3> QED
      BY <1>6, <2>1, <3>1, BatchHolds, ShapeLook DEF LookUp
  <2>2. CASE Current(d) \notin DOMAIN prefetched[d]
    BY <1>5, <1>6, <2>2 DEF LookUp
  <2> QED
    BY <2>1, <2>2
<1>7. CASE DescribeInstance(d)
  BY <1>1, <1>7, DescribedTyped, ShapeLook DEF DescribeInstance
<1>8. CASE DescribeInstanceFails(d)
  BY <1>5, <1>8 DEF DescribeInstanceFails
<1>9. CASE \/ DescribeInstanceThrottled(d) \/ CheckVolumesThrottled(d)
           \/ RemediationThrottled(d)
  BY <1>1, <1>9, ShapeThrottle
  DEF DescribeInstanceThrottled, CheckVolumesThrottled, RemediationThrottled
<1>10. CASE ExemptByTag(d)
  <2>1. FleetTyped' /\ ReportsTyped'
    BY <1>1, <1>10 DEF ExemptByTag, FleetTyped, ReportsTyped
  <2> QED
    BY <1>10, <2>1, ShapeDecide DEF ExemptByTag, Verdicts
<1>11. CASE CheckVolumes(d)
  <2>0. passed' \in Passes
    <3>1. instance[d] # None
      BY <1>11 DEF CheckVolumes, Checking, Shape, Local
    <3> QED
      BY <1>1, <1>11, <3>1, CheckVolumesEnds, PassingTyped DEF ReportsTyped
  <2>1. FleetTyped' /\ ReportsTyped' /\ UNCHANGED <<fleetVars, record>> /\ pc[d] = "check"
    BY <1>1, <1>11, <2>0, RejectedExemptionTyped, PublishTyped
    DEF CheckVolumes, Checking, FleetTyped
  <2>2. Advance(d) \/ Decide(d, "undetermined", "metric") \/ Decide(d, "none", "tag")
    BY <1>11, CheckVolumesEnds
  <2> QED
    BY <2>1, <2>2, ShapeAdvance, ShapeDecide DEF Verdicts
<1>12. CASE CheckVolumesFails(d)
  <2>0. passed' \in Passes
    <3>1. instance[d] # None
      BY <1>12 DEF CheckVolumesFails, Checking, Shape, Local
    <3> QED
      BY <1>1, <1>12, <3>1, PassingTyped DEF CheckVolumesFails
  <2>1. ReportsTyped' /\ UNCHANGED <<fleetVars, record>> /\ pc[d] = "check"
    BY <1>1, <1>12, <2>0, RejectedExemptionTyped, PublishTyped
    DEF CheckVolumesFails, Checking
  <2> QED
    BY <1>12, <2>1, ShapeAdvance DEF CheckVolumesFails
<1>13. CASE TagInstance(d)
  <2>1. FleetTyped' /\ ReportsTyped'
    BY <1>1, <1>13, ActionTyped DEF TagInstance, FleetTyped, ReportsTyped
  <2> QED
    BY <1>13, <2>1, ShapeGoto DEF TagInstance
<1>14. CASE TagInstanceFails(d) \/ ActionRefused(d)
  BY <1>14, ShapeRefuse DEF TagInstanceFails, ActionRefused
<1>15. CASE ActionApplied(d)
  <2>1. FleetTyped'
    BY <1>1, <1>15, ActTyped DEF ActionApplied
  <2>2. ReportsTyped'
    BY <1>1, <1>15 DEF ActionApplied, Act, ReportsTyped
  <2>3. record' = record
    BY <1>15 DEF ActionApplied, Act
  <2> QED
    BY <1>15, <2>1, <2>2, <2>3, ShapeDecide DEF ActionApplied, Verdicts
<1>16. ASSUME NEW channel \in {"metric", "mail"},
              Publish({Note(d, Current(d), verdict[d], channel)}), UNCHANGED doneVars
       PROVE  ReportsTyped'
  <2>1. Note(d, Current(d), verdict[d], channel) \in Notes
    BY <1>1, NoteTyped DEF LoopTyped
  <2> QED
    BY <1>1, <1>16, <2>1, PublishTyped DEF ReportsTyped
<1>17. CASE PublishMetric(d)
  <2>1. FleetTyped' /\ ReportsTyped' /\ verdict[d] \in Verdicts \ {"none"}
    BY <1>1, <1>16, <1>17 DEF PublishMetric, FleetTyped, Shape, Local, LoopTyped
  <2> QED
    BY <1>17, <2>1, ShapeDecide DEF PublishMetric
<1>18. CASE SendMail(d)
  <2>1. ReportsTyped' /\ UNCHANGED <<fleetVars, record>> /\ pc[d] = "mail"
    BY <1>16, <1>18 DEF SendMail
  <2> QED
    BY <1>18, <2>1, ShapeAdvance DEF SendMail
<1> QED
  BY <1>2, <1>3, <1>4, <1>6, <1>7, <1>8, <1>9, <1>10, <1>11, <1>12, <1>13, <1>14, <1>15,
     <1>17, <1>18 DEF Handle

(* Lambda accepts, starts and gives up.                                    *)
LEMMA ShapeLambda ==
  ASSUME Shape, NEW d \in Deliveries,
         (\E rec \in Records : Deliver(d, rec)) \/ Start(d) \/ Expire(d)
  PROVE  Shape' /\ OthersKept(d)
<1>1. FleetTyped /\ ReportsTyped /\ LoopTyped /\ Platform!TypeOK
  BY ShapeParts
<1>2. FleetTyped' /\ ReportsTyped'
  BY <1>1 DEF Deliver, Start, Expire, FleetTyped, ReportsTyped, Passes
<1>3. record' \in [Deliveries -> Records]
  BY DEF Deliver, Start, Expire, Shape, TypeOK
<1>4. UNCHANGED <<loopVars, batchVars>>
  BY DEF Deliver, Start, Expire
<1>5. CASE \E rec \in Records : Deliver(d, rec)
  <2>1. /\ status[d] = "unsent" /\ status' = [status EXCEPT ![d] = "queued"]
        /\ UNCHANGED <<attempts, pc>>
    BY <1>5 DEF Deliver, Platform!Accept
  <2>2. Platform!TypeOK' /\ LoopTyped'
    BY <1>1, <1>4, <2>1 DEF Platform!TypeOK, Platform!Status, LoopTyped
  <2>3. OthersKept(d)
    BY <1>1, <1>4, <2>1 DEF OthersKept, Platform!TypeOK
  <2>4. Local(d)'
    <3>1. status'[d] = "queued" /\ pc'[d] = "idle" /\ attempts'[d] = 0 /\ 0 < MaxAttempts
      <4>1. 0 < MaxAttempts
        BY PlatformAssumption
      <4>2. pc[d] = "idle" /\ attempts[d] = 0
        BY <2>1 DEF Shape, Local
      <4>3. status'[d] = "queued"
        BY <1>1, <2>1 DEF Platform!TypeOK
      <4> QED
        BY <2>1, <4>1, <4>2, <4>3
    <3>2. at'[d] = 1 /\ verdict'[d] = "none"
      BY <1>1, <1>4, <2>1, <3>1 DEF Shape, Local
    <3> QED
      BY <3>1, <3>2 DEF Local
  <2> QED
    BY <1>2, <1>3, <2>2, <2>3, <2>4, ShapeStep
<1>6. CASE Start(d)
  <2>1. /\ status[d] = "queued" /\ status' = [status EXCEPT ![d] = "running"]
        /\ attempts' = [attempts EXCEPT ![d] = attempts[d] + 1]
        /\ pc' = [pc EXCEPT ![d] = "guard"]
    BY <1>6 DEF Start, Platform!Start
  <2>2. attempts[d] \in 0 .. MaxAttempts /\ attempts[d] < MaxAttempts
    BY <1>1, <2>1 DEF Shape, Local, Platform!TypeOK
  <2>3. attempts[d] + 1 \in 0 .. MaxAttempts
    BY <2>2, PlatformAssumption
  <2>4. Platform!TypeOK' /\ LoopTyped'
    BY <1>1, <1>4, <2>1, <2>3 DEF Platform!TypeOK, Platform!Status, LoopTyped
  <2>5. OthersKept(d)
    BY <1>1, <1>4, <2>1 DEF OthersKept, Platform!TypeOK, LoopTyped
  <2>6. Local(d)'
    BY <1>1, <1>4, <2>1 DEF Shape, Local, Platform!TypeOK, LoopTyped
  <2> QED
    BY <1>2, <1>3, <2>4, <2>5, <2>6, ShapeStep
<1>7. CASE Expire(d)
  <2>1. /\ status[d] = "queued" /\ status' = [status EXCEPT ![d] = "dlq"]
        /\ UNCHANGED <<attempts, pc>>
    BY <1>7 DEF Expire, Platform!Expire
  <2>2. Platform!TypeOK' /\ LoopTyped'
    BY <1>1, <1>4, <2>1 DEF Platform!TypeOK, Platform!Status, LoopTyped
  <2>3. OthersKept(d)
    BY <1>1, <1>4, <2>1 DEF OthersKept, Platform!TypeOK
  <2>4. Local(d)'
    BY <1>1, <1>4, <2>1 DEF Shape, Local, Platform!TypeOK
  <2> QED
    BY <1>2, <1>3, <2>2, <2>3, <2>4, ShapeStep
<1> QED
  BY <1>5, <1>6, <1>7

(* Instances come up and people tag and end them.                          *)
FleetChanges ==
  \/ \E i \in Fleet : Attach(i) \/ ComeUp(i)
  \/ \E i \in Tagged, t \in Exemptions : Retag(i, t)
  \/ \E i \in Ended : EndByHand(i)

LEMMA ShapeFleetChanges ==
  ASSUME Shape, FleetChanges
  PROVE  Shape' /\ UNCHANGED engineVars
<1>1. UNCHANGED engineVars
  BY DEF FleetChanges, Attach, ComeUp, Retag, EndByHand
<1>2. FleetTyped
  BY ShapeParts
<1>3. FleetTyped'
  <2>1. ASSUME NEW i \in Fleet, Attach(i) PROVE FleetTyped'
    <3>1. PICK vs \in SUBSET Volumes[i] : attached' = [attached EXCEPT ![i] = vs]
      BY <2>1 DEF Attach
    <3>2. vs \in SUBSET AllVolumes
      BY <3>1, LaunchAssumption
    <3> QED
      BY <1>2, <2>1, <3>1, <3>2 DEF Attach, FleetTyped
  <2>2. ASSUME NEW i \in Fleet, ComeUp(i) PROVE FleetTyped'
    BY <1>2, <2>2 DEF ComeUp, FleetTyped, Lives
  <2>3. ASSUME NEW i \in Tagged, NEW t \in Exemptions, Retag(i, t) PROVE FleetTyped'
    BY <1>2, <2>3 DEF Retag, FleetTyped
  <2>4. ASSUME NEW i \in Ended, EndByHand(i) PROVE FleetTyped'
    BY <1>2, <2>4 DEF EndByHand, End, FleetTyped, Lives
  <2> QED
    BY <2>1, <2>2, <2>3, <2>4 DEF FleetChanges
<1> QED
  BY <1>1, <1>3, ShapeFleet

LEMMA NextCases ==
  ASSUME [Next]_vars
  PROVE  \/ FleetChanges
         \/ \E d \in Deliveries :
              \/ (\E rec \in Records : Deliver(d, rec)) \/ Start(d) \/ Expire(d)
              \/ Crash(d) \/ Handle(d)
         \/ UNCHANGED vars
BY DEF Next, FleetChanges

LEMMA ShapeNext == Shape /\ [Next]_vars => Shape'
<1> SUFFICES ASSUME Shape, [Next]_vars PROVE Shape'
  OBVIOUS
<1>1. ASSUME NEW d \in Deliveries, Crash(d)
      PROVE  Shape'
  <2>1. ReportsTyped'
    BY <1>1, ShapeParts DEF Crash, ReportsTyped
  <2> QED
    BY <1>1, <2>1, ShapeLeave DEF Crash
<1>2. CASE UNCHANGED vars
  <2>1. FleetTyped' /\ UNCHANGED engineVars
    BY <1>2, ShapeParts DEF vars, FleetTyped
  <2> QED
    BY <2>1, ShapeFleet
<1> QED
  BY <1>1, <1>2, NextCases, ShapeHandle, ShapeLambda, ShapeFleetChanges

(* Every variable keeps its type: the loop never leaves the launch, what   *)
(* the handler is about to judge it was told by EC2, and no event is       *)
(* started more than MaxAttempts times.                                    *)
THEOREM TypeCorrect == Spec => []TypeOK
<1>1. Shape => TypeOK
  BY DEF Shape
<1> QED
  BY <1>1, ShapeInit, ShapeNext, PTL DEF Spec

-----------------------------------------------------------------------------
(* What a step of the handler leaves alone and what it adds.               *)

LEMMA HandleFrame ==
  ASSUME Shape, NEW d \in Deliveries, Handle(d) \/ Crash(d)
  PROVE  /\ pc[d] # "idle" /\ status[d] = "running"
         /\ OthersKept(d) /\ UNCHANGED record
<1>1. LoopTyped /\ Platform!TypeOK
  BY ShapeParts
<1>2. pc[d] # "idle"
  <2>1. CASE Handle(d)
    BY <2>1
    DEF Handle, DropRejectedCall, MissInstances, Prefetch, PrefetchInstances,
        PrefetchInstancesFails, PrefetchInstancesThrottled, PrefetchVolumes,
        PrefetchVolumesFails, PrefetchVolumesThrottled, Prefetching, LookUp,
        DescribeInstance, DescribeInstanceFails, DescribeInstanceThrottled, ExemptByTag,
        CheckVolumes, CheckVolumesFails, CheckVolumesThrottled, Checking, TagInstance,
        TagInstanceFails, RemediationThrottled, ActionApplied, ActionRefused,
        PublishMetric, SendMail
  <2>2. CASE Crash(d)
    BY <2>2 DEF Crash, Raise, Platform!Fail, Shape, Local
  <2> QED
    BY <2>1, <2>2
<1>3. status[d] = "running"
  BY <1>2 DEF Shape, Local
<1>4. UNCHANGED record
  BY DEF Crash, Handle, DropRejectedCall, MissInstances, Prefetch, PrefetchInstances,
         PrefetchInstancesFails, PrefetchInstancesThrottled, PrefetchVolumes,
         PrefetchVolumesFails, PrefetchVolumesThrottled, LookUp, Look, Unanswered,
         DescribeInstance, DescribeInstanceFails, DescribeInstanceThrottled, Throttle,
         ExemptByTag, CheckVolumes, CheckVolumesFails, CheckVolumesThrottled, TagInstance,
         TagInstanceFails, Refuse, RemediationThrottled, ActionApplied, Act, ActionRefused,
         PublishMetric, SendMail
<1> SUFFICES OthersKept(d)
  BY <1>2, <1>3, <1>4
<1>5. CASE Return(d) \/ Raise(d)
  BY <1>5, LeaveEffect
<1>6. ASSUME Advance(d)
      PROVE  OthersKept(d)
  BY <1>2, <1>5, <1>6, NextEffect DEF Advance
<1>7. ASSUME NEW v, NEW label, Decide(d, v, label)
      PROVE  OthersKept(d)
  BY <1>1, <1>7 DEF Decide, Goto, OthersKept, LoopTyped
<1>8. ASSUME NEW description, Look(d, description)
      PROVE  OthersKept(d)
  BY <1>1, <1>8 DEF Look, Goto, OthersKept, LoopTyped
<1>9. ASSUME NEW label, Goto(d, label), UNCHANGED loopVars,
             UNCHANGED prefetched \/ \E batch : prefetched' = [prefetched EXCEPT ![d] = batch],
             \/ UNCHANGED prefetchedVolumes
             \/ \E vs : prefetchedVolumes' = [prefetchedVolumes EXCEPT ![d] = vs]
      PROVE  OthersKept(d)
  BY <1>1, <1>9 DEF Goto, OthersKept, LoopTyped
<1>10. CASE \/ DropRejectedCall(d) \/ MissInstances(d) \/ PrefetchInstancesThrottled(d)
            \/ PrefetchVolumesThrottled(d) \/ DescribeInstanceThrottled(d)
            \/ CheckVolumesThrottled(d) \/ RemediationThrottled(d) \/ Crash(d)
  BY <1>5, <1>10
  DEF DropRejectedCall, MissInstances, PrefetchInstancesThrottled, PrefetchVolumesThrottled,
      DescribeInstanceThrottled, CheckVolumesThrottled, RemediationThrottled, Throttle, Crash
<1>11. CASE \/ PrefetchInstances(d) \/ PrefetchInstancesFails(d) \/ PrefetchVolumes(d)
            \/ PrefetchVolumesFails(d) \/ TagInstance(d)
  BY <1>9, <1>11
  DEF PrefetchInstances, PrefetchInstancesFails, PrefetchVolumes, PrefetchVolumesFails,
      TagInstance
<1>12. CASE \/ LookUp(d) \/ DescribeInstance(d) \/ DescribeInstanceFails(d)
            \/ ExemptByTag(d) \/ TagInstanceFails(d) \/ ActionApplied(d)
            \/ ActionRefused(d) \/ PublishMetric(d)
  BY <1>7, <1>8, <1>12
  DEF LookUp, DescribeInstance, DescribeInstanceFails, Unanswered, ExemptByTag,
      TagInstanceFails, ActionApplied, ActionRefused, Refuse, PublishMetric
<1>13. CASE CheckVolumes(d)
  <2>1. Advance(d) \/ Decide(d, "undetermined", "metric") \/ Decide(d, "none", "tag")
    BY <1>13, CheckVolumesEnds
  <2> QED
    BY <1>6, <1>7, <2>1
<1>14. CASE CheckVolumesFails(d) \/ SendMail(d)
  BY <1>6, <1>14 DEF CheckVolumesFails, SendMail
<1> QED
  BY <1>10, <1>11, <1>12, <1>13, <1>14 DEF Handle, Prefetch

-----------------------------------------------------------------------------
(* What the engine was told of an instance, at whatever time, is true of   *)
(* what it was launched with, unless the instance is gone by now.          *)

Seen(description, i, lifeNow) ==
  /\ description.mappings \subseteq Volumes[i]
  /\ description.life = "terminated" => lifeNow = "terminated"
  /\ description.life \in {"running", "stopped"} /\ lifeNow # "terminated" =>
       description.mappings = Volumes[i]
  /\ ~Piecemeal /\ lifeNow # "terminated" => description.mappings \in {{}, Volumes[i]}

Truthful == \A i \in Fleet : Seen(Described(i), i, life[i])

Known(d) ==
  /\ instance[d] # None => Seen(instance[d], Current(d), life[Current(d)])
  /\ prefetched[d] # None =>
       \A i \in DOMAIN prefetched[d] : Seen(prefetched[d][i], i, life[i])

Knowing == Shape /\ Truthful /\ \A d \in Deliveries : Known(d)

LEMMA EngineOnFleet ==
  ASSUME NEW d \in Deliveries, Handle(d) \/ Crash(d)
  PROVE  \/ UNCHANGED <<life, attached>>
         \/ ActionApplied(d) /\ CanAct(Current(d)) /\ Act(Current(d))
BY DEF Crash, Handle, DropRejectedCall, MissInstances, Prefetch, PrefetchInstances,
       PrefetchInstancesFails, PrefetchInstancesThrottled, PrefetchVolumes,
       PrefetchVolumesFails, PrefetchVolumesThrottled, LookUp, Look, Unanswered,
       DescribeInstance, DescribeInstanceFails, DescribeInstanceThrottled, Throttle,
       ExemptByTag, CheckVolumes, CheckVolumesFails, CheckVolumesThrottled, TagInstance,
       TagInstanceFails, Refuse, RemediationThrottled, ActionApplied, ActionRefused,
       PublishMetric, SendMail

LEMMA TruthNext ==
  ASSUME Shape, Truthful, [Next]_vars
  PROVE  /\ Truthful'
         /\ \A i \in Fleet : life[i] = "terminated" => life'[i] = "terminated"
<1> USE DEF Truthful, Seen, Described
<1>1. FleetTyped
  BY ShapeParts
<1>2. CASE UNCHANGED <<life, attached>>
  BY <1>2
<1>3. ASSUME NEW j \in Fleet, Attach(j)
      PROVE  Truthful' /\ \A i \in Fleet : life[i] = "terminated" => life'[i] = "terminated"
  BY <1>1, <1>3 DEF Attach, FleetTyped
<1>4. ASSUME NEW j \in Fleet, ComeUp(j)
      PROVE  Truthful' /\ \A i \in Fleet : life[i] = "terminated" => life'[i] = "terminated"
  BY <1>1, <1>4 DEF ComeUp, FleetTyped
<1>5. ASSUME NEW j \in Fleet, End(j)
      PROVE  Truthful' /\ \A i \in Fleet : life[i] = "terminated" => life'[i] = "terminated"
  BY <1>1, <1>5 DEF End, FleetTyped
<1>6. ASSUME NEW j \in Fleet, CanAct(j), Act(j)
      PROVE  Truthful' /\ \A i \in Fleet : life[i] = "terminated" => life'[i] = "terminated"
  <2>1. CASE RemediationAction = "terminate"
    BY <1>5, <1>6, <2>1 DEF Act
  <2>2. CASE RemediationAction # "terminate"
    BY <1>1, <1>6, <2>2 DEF Act, CanAct, FleetTyped
  <2> QED
    BY <2>1, <2>2
<1>7. CASE FleetChanges
  <2>1. CASE \E i \in Tagged, t \in Exemptions : Retag(i, t)
    BY <1>2, <2>1 DEF Retag
  <2>2. CASE \E i \in Ended : EndByHand(i)
    BY <1>5, <2>2, LaunchAssumption DEF EndByHand
  <2> QED
    BY <1>3, <1>4, <1>7, <2>1, <2>2 DEF FleetChanges
<1>8. ASSUME NEW d \in Deliveries, Handle(d) \/ Crash(d)
      PROVE  Truthful' /\ \A i \in Fleet : life[i] = "terminated" => life'[i] = "terminated"
  <2>1. Current(d) \in Fleet
    BY ShapeParts, CurrentInFleet
  <2> QED
    BY <1>2, <1>6, <1>8, <2>1, EngineOnFleet
<1>9. CASE \/ UNCHANGED vars
           \/ \E d \in Deliveries :
                (\E rec \in Records : Deliver(d, rec)) \/ Start(d) \/ Expire(d)
  BY <1>2, <1>9 DEF vars, Deliver, Start, Expire
<1> QED
  BY <1>7, <1>8, <1>9, NextCases

LEMMA SeenKept ==
  ASSUME NEW description, NEW i, NEW before, NEW after,
         before = "terminated" => after = "terminated", Seen(description, i, before)
  PROVE  Seen(description, i, after)
BY DEF Seen

(* What a handler holds is what EC2 told it, now or in its batch.          *)
LEMMA HandlerLearns ==
  ASSUME Shape, NEW d \in Deliveries, Handle(d) \/ Crash(d)
  PROVE  /\ \/ instance'[d] = None
            \/ instance'[d] = instance[d] /\ at'[d] = at[d]
            \/ /\ at'[d] = at[d] /\ prefetched[d] # None
               /\ Current(d) \in DOMAIN prefetched[d]
               /\ instance'[d] = prefetched[d][Current(d)]
            \/ at'[d] = at[d] /\ instance'[d] = Described(Current(d))
         /\ \/ prefetched'[d] = None
            \/ prefetched'[d] = prefetched[d]
            \/ \E seen \in SUBSET Fleet : prefetched'[d] = [i \in seen |-> Described(i)]
<1> DEFINE Holds ==
             \/ instance'[d] = None
             \/ instance'[d] = instance[d] /\ at'[d] = at[d]
             \/ /\ at'[d] = at[d] /\ prefetched[d] # None
                /\ Current(d) \in DOMAIN prefetched[d]
                /\ instance'[d] = prefetched[d][Current(d)]
             \/ at'[d] = at[d] /\ instance'[d] = Described(Current(d))
           Batch ==
             \/ prefetched'[d] = None
             \/ prefetched'[d] = prefetched[d]
             \/ \E seen \in SUBSET Fleet : prefetched'[d] = [i \in seen |-> Described(i)]
<1>1. LoopTyped /\ pc[d] # "idle"
  BY ShapeParts, HandleFrame
<1> SUFFICES Holds /\ Batch
  OBVIOUS
<1>2. CASE Return(d) \/ Raise(d)
  BY <1>2, LeaveEffect
<1>3. ASSUME Advance(d)
      PROVE  Holds /\ Batch
  BY <1>1, <1>2, <1>3, NextEffect DEF Advance
<1>4. ASSUME NEW v, NEW label, Decide(d, v, label)
      PROVE  Holds /\ Batch
  BY <1>4 DEF Decide
<1>5. ASSUME NEW description, Look(d, description)
      PROVE  /\ at'[d] = at[d] /\ instance'[d] = description
             /\ prefetched'[d] = prefetched[d]
  BY <1>1, <1>5 DEF Look, LoopTyped
<1>6. CASE \/ DropRejectedCall(d) \/ MissInstances(d) \/ PrefetchInstancesThrottled(d)
           \/ PrefetchVolumesThrottled(d) \/ DescribeInstanceThrottled(d)
           \/ CheckVolumesThrottled(d) \/ RemediationThrottled(d) \/ Crash(d)
  BY <1>2, <1>6
  DEF DropRejectedCall, MissInstances, PrefetchInstancesThrottled, PrefetchVolumesThrottled,
      DescribeInstanceThrottled, CheckVolumesThrottled, RemediationThrottled, Throttle, Crash
<1>7. CASE PrefetchInstances(d)
  <2>1. PICK seen \in SUBSET Fleet :
          prefetched' = [prefetched EXCEPT ![d] = [i \in seen |-> Described(i)]]
    BY <1>7 DEF PrefetchInstances, AnswersTo
  <2>2. prefetched'[d] = [i \in seen |-> Described(i)]
    BY <1>1, <2>1 DEF LoopTyped
  <2>3. UNCHANGED loopVars
    BY <1>7 DEF PrefetchInstances
  <2> QED
    BY <2>2, <2>3
<1>8. CASE \/ PrefetchInstancesFails(d) \/ PrefetchVolumes(d)
           \/ PrefetchVolumesFails(d) \/ TagInstance(d)
  BY <1>8 DEF PrefetchInstancesFails, PrefetchVolumes, PrefetchVolumesFails, TagInstance
<1>9. CASE LookUp(d) \/ DescribeInstance(d)
  BY <1>4, <1>5, <1>9 DEF LookUp, DescribeInstance, Unanswered
<1>10. CASE \/ DescribeInstanceFails(d) \/ ExemptByTag(d) \/ TagInstanceFails(d)
            \/ ActionApplied(d) \/ ActionRefused(d) \/ PublishMetric(d)
  BY <1>4, <1>10
  DEF DescribeInstanceFails, Unanswered, ExemptByTag, TagInstanceFails, ActionApplied,
      ActionRefused, Refuse, PublishMetric
<1>11. CASE CheckVolumes(d)
  BY <1>3, <1>4, <1>11, CheckVolumesEnds
<1>12. CASE CheckVolumesFails(d) \/ SendMail(d)
  BY <1>3, <1>12 DEF CheckVolumesFails, SendMail
<1> HIDE DEF Holds, Batch
<1> QED
  BY <1>6, <1>7, <1>8, <1>9, <1>10, <1>11, <1>12 DEF Handle, Prefetch

LEMMA KnowingInit == Init => Knowing
<1> SUFFICES ASSUME Init PROVE Knowing
  OBVIOUS
<1>1. Truthful
  BY DEF Init, Truthful, Seen, Described
<1>2. \A d \in Deliveries : Known(d)
  BY DEF Init, Known
<1> QED
  BY <1>1, <1>2, ShapeInit DEF Knowing

LEMMA KnowingNext == Knowing /\ [Next]_vars => Knowing'
<1> SUFFICES ASSUME Knowing, [Next]_vars PROVE Knowing'
  OBVIOUS
<1>1. Shape /\ Shape' /\ Truthful /\ Truthful' /\ LoopTyped
  BY ShapeNext, TruthNext, ShapeParts DEF Knowing
<1>2. \A i \in Fleet : life[i] = "terminated" => life'[i] = "terminated"
  BY <1>1, TruthNext
<1>3. ASSUME NEW e \in Deliveries, instance'[e] = instance[e], at'[e] = at[e],
             prefetched'[e] = prefetched[e]
      PROVE  Known(e)'
  <2>1. Current(e)' = Current(e) /\ Current(e) \in Fleet
    BY <1>1, <1>3, CurrentInFleet DEF Current
  <2>2. instance'[e] # None => Seen(instance'[e], Current(e)', life'[Current(e)'])
    BY <1>2, <1>3, <2>1, SeenKept DEF Knowing, Known
  <2>3. ASSUME prefetched'[e] # None, NEW i \in DOMAIN prefetched'[e]
        PROVE  Seen(prefetched'[e][i], i, life'[i])
    <3>1. i \in Fleet
      BY <1>1, <1>3, <2>3, BatchHolds DEF LoopTyped
    <3> QED
      BY <1>2, <1>3, <2>3, <3>1, SeenKept DEF Knowing, Known
  <2> QED
    BY <2>2, <2>3 DEF Known
<1>4. ASSUME NEW d \in Deliveries, Handle(d) \/ Crash(d), NEW e \in Deliveries
      PROVE  Known(e)'
  <2>1. CASE e # d
    BY <1>1, <1>3, <1>4, <2>1, HandleFrame DEF OthersKept
  <2>2. CASE e = d
    <3>1. Current(d) \in Fleet
      BY <1>1, CurrentInFleet
    <3>2. ASSUME instance'[d] # None
          PROVE  Seen(instance'[d], Current(d)', life'[Current(d)'])
      <4>1. at'[d] = at[d]
        BY <1>1, <1>4, <2>2, <3>2, HandlerLearns
      <4>2. Current(d)' = Current(d)
        BY <4>1 DEF Current
      <4>3. Seen(instance'[d], Current(d), life[Current(d)])
        <5>1. CASE instance'[d] = instance[d]
          BY <3>2, <5>1 DEF Knowing, Known
        <5>2. CASE /\ prefetched[d] # None /\ Current(d) \in DOMAIN prefetched[d]
                   /\ instance'[d] = prefetched[d][Current(d)]
          BY <5>2 DEF Knowing, Known
        <5>3. CASE instance'[d] = Described(Current(d))
          BY <1>1, <3>1, <5>3 DEF Truthful
        <5> QED
          BY <1>1, <1>4, <2>2, <3>2, <5>1, <5>2, <5>3, HandlerLearns
      <4> QED
        BY <1>2, <3>1, <4>2, <4>3, SeenKept
    <3>3. ASSUME prefetched'[d] # None, NEW i \in DOMAIN prefetched'[d]
          PROVE  Seen(prefetched'[d][i], i, life'[i])
      <4>1. i \in Fleet
        BY <1>1, <3>3, ShapeParts, BatchHolds DEF Shape, TypeOK
      <4>2. Seen(prefetched'[d][i], i, life[i])
        <5>1. CASE prefetched'[d] = prefetched[d]
          BY <3>3, <5>1 DEF Knowing, Known
        <5>2. ASSUME NEW seen \in SUBSET Fleet, prefetched'[d] = [k \in seen |-> Described(k)]
              PROVE  Seen(prefetched'[d][i], i, life[i])
          <6>1. prefetched'[d][i] = Described(i)
            BY <3>3, <5>2
          <6> QED
            BY <1>1, <4>1, <6>1 DEF Truthful
        <5> QED
          BY <1>1, <1>4, <2>2, <3>3, <5>1, <5>2, HandlerLearns
      <4> QED
        BY <1>2, <4>1, <4>2, SeenKept
    <3> QED
      BY <2>2, <3>2, <3>3 DEF Known
  <2> QED
    BY <2>1, <2>2
<1>5. ASSUME UNCHANGED <<loopVars, batchVars>>
      PROVE  \A e \in Deliveries : Known(e)'
  BY <1>3, <1>5
<1>6. ASSUME \/ FleetChanges \/ UNCHANGED vars
             \/ \E d \in Deliveries :
                  (\E rec \in Records : Deliver(d, rec)) \/ Start(d) \/ Expire(d)
      PROVE  UNCHANGED <<loopVars, batchVars>>
  BY <1>1, <1>6, ShapeFleetChanges DEF vars, Deliver, Start, Expire
<1>7. \A e \in Deliveries : Known(e)'
  BY <1>4, <1>5, <1>6, NextCases
<1> QED
  BY <1>1, <1>7 DEF Knowing

-----------------------------------------------------------------------------
(* What the handler found out justifies what it does and what it reports.  *)

Found(d) ==
  /\ verdict[d] = "failed" => <<d, Current(d)>> \in refusals
  /\ pc[d] \in {"tag", "act"} => Violates(Current(d))
  /\ pc[d] = "act" => reason[Current(d)] = RemediationAction

Finding ==
  /\ Knowing
  /\ \A d \in Deliveries : Found(d)
  /\ OnlyViolatorsActedOn
  /\ ActedMeansTagged

(* "unencrypted" is said of an instance only for a volume EC2 named.       *)
LEMMA UnencryptedViolates ==
  ASSUME Knowing, NEW d \in Deliveries, pc[d] = "check",
         NEW answered, "unencrypted" \in VolumeEncryptionStatus(instance[d], answered)
  PROVE  Violates(Current(d))
<1>1. instance[d].mappings \subseteq Volumes[Current(d)]
  BY DEF Knowing, Shape, Local, Known, Seen
<1>2. \E v \in instance[d].mappings : Kind[v] = "unencrypted"
  BY DEF VolumeEncryptionStatus
<1> QED
  BY <1>1, <1>2 DEF Violates

(* How the handler comes to act, and to a failure.                         *)
LEMMA HandlerFinds ==
  ASSUME Knowing, NEW d \in Deliveries, Handle(d) \/ Crash(d)
  PROVE  /\ pc'[d] = "tag" => Violates(Current(d)) /\ at'[d] = at[d]
         /\ pc'[d] = "act" => TagInstance(d)
         /\ verdict'[d] = "failed" =>
              /\ at'[d] = at[d]
              /\ \/ refusals' = refusals \union {<<d, Current(d)>>}
                 \/ verdict[d] = "failed" /\ refusals' = refusals
<1> DEFINE Goal ==
             /\ pc'[d] = "tag" => Violates(Current(d)) /\ at'[d] = at[d]
             /\ pc'[d] = "act" => TagInstance(d)
             /\ verdict'[d] = "failed" =>
                  /\ at'[d] = at[d]
                  /\ \/ refusals' = refusals \union {<<d, Current(d)>>}
                     \/ verdict[d] = "failed" /\ refusals' = refusals
<1>1. Shape /\ LoopTyped /\ pc[d] # "idle"
  BY ShapeParts, HandleFrame DEF Knowing
<1> SUFFICES Goal
  OBVIOUS
<1>2. CASE Return(d) \/ Raise(d)
  BY <1>1, <1>2, LeaveEffect
<1>3. ASSUME Advance(d)
      PROVE  Goal
  BY <1>1, <1>2, <1>3, NextEffect DEF Advance
<1>4. ASSUME NEW v \in Verdicts, NEW label, Decide(d, v, label)
      PROVE  /\ verdict'[d] = v /\ pc'[d] = label /\ at'[d] = at[d]
  BY <1>1, <1>4 DEF Decide, Goto, LoopTyped
<1>5. ASSUME NEW description, Look(d, description)
      PROVE  pc'[d] = "check" /\ verdict'[d] = verdict[d] /\ at' = at /\ refusals' = refusals
  BY <1>1, <1>5 DEF Look, Goto, LoopTyped
<1>6. CASE \/ DropRejectedCall(d) \/ MissInstances(d) \/ PrefetchInstancesThrottled(d)
           \/ PrefetchVolumesThrottled(d) \/ DescribeInstanceThrottled(d)
           \/ CheckVolumesThrottled(d) \/ RemediationThrottled(d) \/ Crash(d)
  BY <1>2, <1>6
  DEF DropRejectedCall, MissInstances, PrefetchInstancesThrottled, PrefetchVolumesThrottled,
      DescribeInstanceThrottled, CheckVolumesThrottled, RemediationThrottled, Throttle, Crash
<1>7. CASE \/ PrefetchInstances(d) \/ PrefetchInstancesFails(d) \/ PrefetchVolumes(d)
           \/ PrefetchVolumesFails(d)
  <2>1. /\ pc'[d] \in {"describe", "prefetch volumes"} /\ UNCHANGED <<loopVars, reportVars>>
    BY <1>1, <1>7
    DEF PrefetchInstances, PrefetchInstancesFails, PrefetchVolumes, PrefetchVolumesFails,
        Goto, LoopTyped
  <2> QED
    BY <2>1
<1>8. CASE TagInstance(d)
  <2>1. pc'[d] = "act" /\ UNCHANGED <<loopVars, reportVars>>
    BY <1>1, <1>8 DEF TagInstance, Goto, LoopTyped
  <2> QED
    BY <1>8, <2>1
<1>9. CASE LookUp(d) \/ DescribeInstance(d) \/ DescribeInstanceFails(d)
  <2>1. CASE Unanswered(d)
    BY <1>4, <2>1 DEF Unanswered, Verdicts
  <2>2. CASE \E description : Look(d, description)
    BY <1>5, <2>2
  <2> QED
    BY <1>9, <2>1, <2>2 DEF LookUp, DescribeInstance, DescribeInstanceFails
<1>10. CASE ExemptByTag(d) \/ ActionApplied(d)
  BY <1>4, <1>10 DEF ExemptByTag, ActionApplied, Verdicts
<1>11. CASE TagInstanceFails(d) \/ ActionRefused(d)
  BY <1>4, <1>11 DEF TagInstanceFails, ActionRefused, Refuse, Verdicts
<1>12. CASE PublishMetric(d)
  <2>1. verdict[d] \in Verdicts
    BY <1>1 DEF LoopTyped
  <2> QED
    BY <1>4, <1>12, <2>1 DEF PublishMetric
<1>13. CASE CheckVolumes(d)
  <2>1. PICK answered \in Answers(d) :
          \E encryption \in VolumeEncryptionStatus(instance[d], answered) :
            CASE encryption = "encrypted" -> Advance(d)
              [] encryption = "undetermined" -> Decide(d, "undetermined", "metric")
              [] encryption = "unencrypted" -> Decide(d, "none", "tag")
    BY <1>13 DEF CheckVolumes
  <2>2. VolumeEncryptionStatus(instance[d], answered)
          \subseteq {"encrypted", "undetermined", "unencrypted"}
    BY DEF VolumeEncryptionStatus
  <2>3. \/ Advance(d) \/ Decide(d, "undetermined", "metric")
        \/ /\ Decide(d, "none", "tag")
           /\ "unencrypted" \in VolumeEncryptionStatus(instance[d], answered)
    BY <2>1, <2>2
  <2>4. pc[d] = "check"
    BY <1>13 DEF CheckVolumes, Checking
  <2>5. ASSUME Decide(d, "none", "tag"),
               "unencrypted" \in VolumeEncryptionStatus(instance[d], answered)
        PROVE  Goal
    <3>1. Violates(Current(d))
      BY <2>4, <2>5, UnencryptedViolates
    <3> QED
      BY <1>4, <2>5, <3>1 DEF Verdicts
  <2>6. CASE Decide(d, "undetermined", "metric")
    BY <1>4, <2>6 DEF Verdicts
  <2> QED
    BY <1>3, <2>3, <2>5, <2>6
<1>14. CASE CheckVolumesFails(d) \/ SendMail(d)
  BY <1>3, <1>14 DEF CheckVolumesFails, SendMail
<1> HIDE DEF Goal
<1> QED
  BY <1>6, <1>7, <1>8, <1>9, <1>10, <1>11, <1>12, <1>13, <1>14 DEF Handle, Prefetch

(* Of a step's marks on the account, and on the history.                   *)
LEMMA MarksGrow ==
  ASSUME Shape, [Next]_vars
  PROVE  /\ refusals \subseteq refusals'
         /\ \A i \in Fleet : reason'[i] = reason[i] \/ reason'[i] = RemediationAction
         /\ \/ acted' = acted
            \/ \E d \in Deliveries :
                 pc[d] = "act" /\ acted' = acted \union {Current(d)} /\ UNCHANGED reason
<1>1. CASE FleetChanges
  BY <1>1 DEF FleetChanges, Attach, ComeUp, Retag, EndByHand
<1>2. ASSUME NEW d \in Deliveries, Crash(d) \/ Handle(d)
      PROVE  /\ refusals \subseteq refusals'
             /\ \/ reason' = reason
                \/ reason' = [reason EXCEPT ![Current(d)] = RemediationAction]
             /\ \/ acted' = acted
                \/ pc[d] = "act" /\ acted' = acted \union {Current(d)} /\ UNCHANGED reason
  BY <1>2
  DEF Crash, Handle, DropRejectedCall, MissInstances, Prefetch, PrefetchInstances,
      PrefetchInstancesFails, PrefetchInstancesThrottled, PrefetchVolumes,
      PrefetchVolumesFails, PrefetchVolumesThrottled, LookUp, Look, Unanswered,
      DescribeInstance, DescribeInstanceFails, DescribeInstanceThrottled, Throttle,
      ExemptByTag, CheckVolumes, CheckVolumesFails, CheckVolumesThrottled, TagInstance,
      TagInstanceFails, Refuse, RemediationThrottled, ActionApplied, Act, ActionRefused,
      PublishMetric, SendMail
<1>3. CASE \/ UNCHANGED vars
           \/ \E d \in Deliveries :
                (\E rec \in Records : Deliver(d, rec)) \/ Start(d) \/ Expire(d)
  BY <1>3 DEF vars, Deliver, Start, Expire
<1>4. reason \in [Fleet -> {"none", "stop", "terminate"}]
  BY DEF Shape, TypeOK
<1> QED
  BY <1>1, <1>2, <1>3, <1>4, NextCases

LEMMA FindingNext == Finding /\ [Next]_vars => Finding'
<1> SUFFICES ASSUME Finding, [Next]_vars PROVE Finding'
  OBVIOUS
<1>1. Knowing /\ Knowing' /\ Shape /\ Shape' /\ LoopTyped
  BY KnowingNext, ShapeNext, ShapeParts DEF Finding, Knowing
<1>2. ASSUME NEW e \in Deliveries, pc'[e] = pc[e] \/ pc'[e] \in {"idle", "guard"},
             at'[e] = at[e], verdict'[e] = verdict[e]
      PROVE  Found(e)'
  <2>1. Current(e)' = Current(e) /\ Current(e) \in Fleet
    BY <1>1, <1>2, CurrentInFleet DEF Current
  <2>2. verdict'[e] = "failed" => <<e, Current(e)'>> \in refusals'
    BY <1>1, <1>2, <2>1, MarksGrow DEF Finding, Found
  <2>3. pc'[e] \in {"tag", "act"} => Violates(Current(e)')
    BY <1>2, <2>1 DEF Finding, Found
  <2>4. pc'[e] = "act" => reason'[Current(e)'] = RemediationAction
    BY <1>1, <1>2, <2>1, MarksGrow DEF Finding, Found
  <2> QED
    BY <2>2, <2>3, <2>4 DEF Found, Violates
<1>3. ASSUME NEW d \in Deliveries, Handle(d) \/ Crash(d), NEW e \in Deliveries
      PROVE  Found(e)'
  <2>1. CASE e # d
    BY <1>1, <1>2, <1>3, <2>1, HandleFrame DEF OthersKept
  <2>2. CASE e = d
    <3>1. verdict'[d] = "failed" => <<d, Current(d)'>> \in refusals'
      <4>1. SUFFICES ASSUME verdict'[d] = "failed" PROVE <<d, Current(d)'>> \in refusals'
        OBVIOUS
      <4>2. at'[d] = at[d] /\ <<d, Current(d)>> \in refusals'
        BY <1>1, <1>3, <2>2, <4>1, HandlerFinds DEF Finding, Found
      <4> QED
        BY <4>2 DEF Current
    <3>2. ASSUME pc'[d] = "act"
          PROVE  Violates(Current(d)') /\ reason'[Current(d)'] = RemediationAction
      <4>1. TagInstance(d)
        BY <1>1, <1>3, <2>2, <3>2, HandlerFinds
      <4>2. Violates(Current(d)) /\ Current(d)' = Current(d) /\ Current(d) \in Fleet
        BY <1>1, <4>1, CurrentInFleet DEF TagInstance, Current, Finding, Found
      <4>3. reason' = [reason EXCEPT ![Current(d)] = RemediationAction]
        BY <4>1 DEF TagInstance
      <4>4. reason \in [Fleet -> {"none", "stop", "terminate"}]
        BY <1>1 DEF Shape, TypeOK
      <4> QED
        BY <4>2, <4>3, <4>4
    <3>3. pc'[d] = "tag" => Violates(Current(d)')
      BY <1>1, <1>3, <2>2, HandlerFinds DEF Current
    <3> QED
      BY <2>2, <3>1, <3>2, <3>3 DEF Found, Violates
  <2> QED
    BY <2>1, <2>2
<1>4. ASSUME NEW d \in Deliveries,
             (\E rec \in Records : Deliver(d, rec)) \/ Start(d) \/ Expire(d)
      PROVE  \A e \in Deliveries : Found(e)'
  <2>1. UNCHANGED <<at, verdict>>
    BY <1>4 DEF Deliver, Start, Expire
  <2>2. \A e \in Deliveries : pc'[e] = pc[e] \/ pc'[e] \in {"idle", "guard"}
    BY <1>1, <1>4 DEF Deliver, Start, Expire, LoopTyped
  <2> QED
    BY <1>2, <2>1, <2>2
<1>5. ASSUME FleetChanges \/ UNCHANGED vars
      PROVE  \A e \in Deliveries : Found(e)'
  <2>1. UNCHANGED <<at, verdict, pc>>
    BY <1>1, <1>5, ShapeFleetChanges DEF vars
  <2> QED
    BY <1>2, <2>1
<1>6. \A e \in Deliveries : Found(e)'
  BY <1>3, <1>4, <1>5, NextCases
<1>7. acted \subseteq Fleet
  BY <1>1 DEF Shape, TypeOK
<1>8. OnlyViolatorsActedOn' /\ ActedMeansTagged'
  <2>1. CASE acted' = acted
    BY <1>1, <1>7, <2>1, MarksGrow DEF Finding, OnlyViolatorsActedOn, ActedMeansTagged, Violates
  <2>2. ASSUME NEW d \in Deliveries, pc[d] = "act", acted' = acted \union {Current(d)},
               UNCHANGED reason
        PROVE  OnlyViolatorsActedOn' /\ ActedMeansTagged'
    BY <2>2 DEF Finding, Found, OnlyViolatorsActedOn, ActedMeansTagged, Violates
  <2> QED
    BY <1>1, <2>1, <2>2, MarksGrow
<1> QED
  BY <1>1, <1>6, <1>8 DEF Finding

LEMMA FindingInit == Init => Finding
<1> SUFFICES ASSUME Init PROVE Finding
  OBVIOUS
<1>1. \A d \in Deliveries : Found(d)
  BY DEF Init, Found
<1> QED
  BY <1>1, KnowingInit DEF Init, Finding, OnlyViolatorsActedOn, ActedMeansTagged

(* The engine stops and terminates only what was launched with an          *)
(* unencrypted volume: it never acts on a description that is out of date, *)
(* incomplete or silent, whoever attaches, tags or ends instances in       *)
(* between, and whatever the batches leave out.                            *)
THEOREM NeverActsOnAGuess == Spec => []OnlyViolatorsActedOn
<1>1. Finding => OnlyViolatorsActedOn
  BY DEF Finding
<1> QED
  BY <1>1, FindingInit, FindingNext, PTL DEF Spec

(* An instance the engine acted on has carried the reason since before the *)
(* action, whatever ended the attempt that acted.                          *)
THEOREM ReasonComesFirst == Spec => []ActedMeansTagged
<1>1. Finding => ActedMeansTagged
  BY DEF Finding
<1> QED
  BY <1>1, FindingInit, FindingNext, PTL DEF Spec

-----------------------------------------------------------------------------
(* What is published.                                                      *)

LEMMA HistoryGrows ==
  ASSUME [Next]_vars
  PROVE  published \subseteq published'
<1>1. CASE FleetChanges
  BY <1>1 DEF FleetChanges, Attach, ComeUp, Retag, EndByHand
<1>2. ASSUME NEW d \in Deliveries, Crash(d) \/ Handle(d)
      PROVE  published \subseteq published'
  BY <1>2
  DEF Publish, Crash, Handle, DropRejectedCall, MissInstances, Prefetch, PrefetchInstances,
      PrefetchInstancesFails, PrefetchInstancesThrottled, PrefetchVolumes,
      PrefetchVolumesFails, PrefetchVolumesThrottled, LookUp, Look, Unanswered,
      DescribeInstance, DescribeInstanceFails, DescribeInstanceThrottled, Throttle,
      ExemptByTag, CheckVolumes, CheckVolumesFails, CheckVolumesThrottled, TagInstance,
      TagInstanceFails, Refuse, RemediationThrottled, ActionApplied, Act, ActionRefused,
      PublishMetric, SendMail
<1>3. CASE \/ UNCHANGED vars
           \/ \E d \in Deliveries :
                (\E rec \in Records : Deliver(d, rec)) \/ Start(d) \/ Expire(d)
  BY <1>3 DEF vars, Deliver, Start, Expire
<1> QED
  BY <1>1, <1>2, <1>3, NextCases

(* A verdict is published by the handler that reached it, on the instance  *)
(* it reached it about.                                                    *)
LEMMA VerdictsPublished ==
  ASSUME [Next]_vars, NEW n \in published' \ published, n.what \in Verdicts
  PROVE  \E d \in Deliveries :
           /\ PublishMetric(d) \/ SendMail(d)
           /\ n = Note(d, Current(d), verdict[d], pc[d])
<1>1. PICK d \in Deliveries : Handle(d)
  <2>1. CASE FleetChanges
    BY <2>1 DEF FleetChanges, Attach, ComeUp, Retag, EndByHand
  <2>2. CASE \/ UNCHANGED vars
             \/ \E d \in Deliveries :
                  (\E rec \in Records : Deliver(d, rec)) \/ Start(d) \/ Expire(d) \/ Crash(d)
    BY <2>2 DEF vars, Deliver, Start, Expire, Crash
  <2> QED
    BY <2>1, <2>2, NextCases
<1>2. ASSUME NEW notes, Publish(notes)
      PROVE  n \in notes
  BY <1>2 DEF Publish
<1>3. ASSUME n.what \notin Verdicts
      PROVE  FALSE
  BY <1>3
<1>4. ASSUME NEW i, Throttle(d, i)
      PROVE  FALSE
  BY <1>2, <1>4 DEF Throttle, Note, Verdicts
<1>5. ASSUME Publish(RejectedExemption(d))
      PROVE  FALSE
  <2>1. n \in RejectedExemption(d)
    BY <1>2, <1>5
  <2>2. n = Note(d, Current(d), "exemption rejected", "metric")
    BY <2>1 DEF RejectedExemption
  <2>3. n.what = "exemption rejected"
    BY <2>2 DEF Note
  <2> QED
    BY <1>3, <2>3 DEF Verdicts
<1>6. ASSUME DropRejectedCall(d)
      PROVE  FALSE
  <2>1. n \in {Note(d, "unknown", "blocked", c) : c \in {"metric", "mail"}}
    BY <1>2, <1>6 DEF DropRejectedCall
  <2>2. PICK c \in {"metric", "mail"} : n = Note(d, "unknown", "blocked", c)
    BY <2>1
  <2>3. n.what = "blocked"
    BY <2>2 DEF Note
  <2> QED
    BY <1>3, <2>3 DEF Verdicts
<1>7. CASE \/ PrefetchInstancesThrottled(d) \/ PrefetchVolumesThrottled(d)
           \/ DescribeInstanceThrottled(d) \/ CheckVolumesThrottled(d)
           \/ RemediationThrottled(d) \/ CheckVolumes(d) \/ CheckVolumesFails(d)
  BY <1>4, <1>5, <1>7
  DEF PrefetchInstancesThrottled, PrefetchVolumesThrottled, DescribeInstanceThrottled,
      CheckVolumesThrottled, RemediationThrottled, CheckVolumes, CheckVolumesFails
<1>8. CASE \/ MissInstances(d) \/ PrefetchInstances(d) \/ PrefetchInstancesFails(d)
           \/ PrefetchVolumes(d) \/ PrefetchVolumesFails(d) \/ LookUp(d)
           \/ DescribeInstance(d) \/ DescribeInstanceFails(d) \/ ExemptByTag(d)
           \/ TagInstance(d) \/ TagInstanceFails(d) \/ ActionApplied(d) \/ ActionRefused(d)
  <2>1. published' = published
    BY <1>8
    DEF MissInstances, PrefetchInstances, PrefetchInstancesFails, PrefetchVolumes,
        PrefetchVolumesFails, LookUp, Look, Unanswered, DescribeInstance,
        DescribeInstanceFails, ExemptByTag, TagInstance, TagInstanceFails, Refuse,
        ActionApplied, Act, ActionRefused
  <2> QED
    BY <2>1
<1>9. CASE PublishMetric(d) \/ SendMail(d)
  BY <1>2, <1>9 DEF PublishMetric, SendMail
<1> QED
  BY <1>1, <1>6, <1>7, <1>8, <1>9 DEF Handle, Prefetch

(* A failure is reported only for a remediation EC2 refused, however the   *)
(* attempts before it ended and whatever was throttled or unreadable.      *)
THEOREM FailuresAreReal == Spec => []NoManufacturedFailure
<1>1. Init => NoManufacturedFailure
  BY DEF Init, NoManufacturedFailure
<1>2. Finding /\ NoManufacturedFailure /\ [Next]_vars => NoManufacturedFailure'
  <2> SUFFICES ASSUME Finding, NoManufacturedFailure, [Next]_vars,
                      NEW n \in published', n.what = "failed"
               PROVE  <<n.by, n.on>> \in refusals'
    BY DEF NoManufacturedFailure
  <2>1. <<n.by, n.on>> \in refusals
    <3>1. CASE n \in published
      BY <3>1 DEF NoManufacturedFailure
    <3>2. CASE n \notin published
      <4>1. PICK d \in Deliveries : n = Note(d, Current(d), verdict[d], pc[d])
        BY <3>2, VerdictsPublished DEF Verdicts
      <4>2. n.by = d /\ n.on = Current(d) /\ verdict[d] = "failed"
        BY <4>1 DEF Note
      <4> QED
        BY <4>2 DEF Finding, Found
    <3> QED
      BY <3>1, <3>2
  <2> QED
    BY <2>1, MarksGrow DEF Finding, Knowing
<1> QED
  BY <1>1, <1>2, FindingInit, FindingNext, PTL DEF Spec

-----------------------------------------------------------------------------
(* No silent miss.                                                         *)

Answered(d, i) ==
  life[i] # "terminated" /\ ~Complies(i) =>
    Told(d, i) \/ PassedPending(d, i) \/ CheckFailed(d, i)

(* Every instance the loop has passed was answered for.                    *)
PassedAnswered(d) ==
  record[d] = "launch" =>
    /\ status[d] = "done" => \A i \in Fleet : Answered(d, i)
    /\ status[d] = "running" => \A k \in 1 .. at[d] - 1 : Answered(d, Instances[k])

Answering == Knowing /\ \A d \in Deliveries : PassedAnswered(d)

(* What an attempt passed stays on record until the next attempt begins.   *)
LEMMA PassedGrows ==
  ASSUME Shape, [Next]_vars, NEW d \in Deliveries, ~Start(d)
  PROVE  passed[d] \subseteq passed'[d]
<1>1. passed \in Passes
  BY ShapeParts DEF ReportsTyped
<1>2. CASE UNCHANGED passed
  BY <1>2
<1>3. CASE FleetChanges \/ UNCHANGED vars
  BY <1>2, <1>3 DEF FleetChanges, Attach, ComeUp, Retag, EndByHand, vars
<1>4. ASSUME NEW e \in Deliveries,
             (\E rec \in Records : Deliver(e, rec)) \/ Start(e) \/ Expire(e)
      PROVE  passed[d] \subseteq passed'[d]
  <2>1. CASE Start(e)
    <3>1. passed' = [passed EXCEPT ![e] = {}] /\ e # d
      BY <2>1 DEF Start
    <3> QED
      BY <1>1, <3>1 DEF Passes
  <2>2. CASE (\E rec \in Records : Deliver(e, rec)) \/ Expire(e)
    BY <1>2, <2>2 DEF Deliver, Expire
  <2> QED
    BY <1>4, <2>1, <2>2
<1>5. ASSUME NEW e \in Deliveries, Handle(e) \/ Crash(e)
      PROVE  passed[d] \subseteq passed'[d]
  <2>1. CASE CheckVolumes(e) \/ CheckVolumesFails(e)
    <3>1. passed' \in {passed, Passing(e, "encrypted"), Passing(e, "failed")}
      BY <2>1, CheckVolumesEnds DEF CheckVolumesFails
    <3> QED
      BY <1>1, <3>1 DEF Passing, Passes
  <2>2. CASE ~(CheckVolumes(e) \/ CheckVolumesFails(e))
    <3>1. UNCHANGED passed
      BY <1>5, <2>2
      DEF Crash, Handle, DropRejectedCall, MissInstances, Prefetch, PrefetchInstances,
          PrefetchInstancesFails, PrefetchInstancesThrottled, PrefetchVolumes,
          PrefetchVolumesFails, PrefetchVolumesThrottled, LookUp, Look, Unanswered,
          DescribeInstance, DescribeInstanceFails, DescribeInstanceThrottled, Throttle,
          ExemptByTag, CheckVolumesThrottled, TagInstance, TagInstanceFails, Refuse,
          RemediationThrottled, ActionApplied, Act, ActionRefused, PublishMetric, SendMail
    <3> QED
      BY <3>1
  <2> QED
    BY <2>1, <2>2
<1> QED
  BY <1>3, <1>4, <1>5, NextCases

LEMMA AnsweredKept ==
  ASSUME Knowing, [Next]_vars, NEW d \in Deliveries, ~Start(d), NEW i \in Fleet, Answered(d, i)
  PROVE  Answered(d, i)'
<1>1. life[i] = "terminated" => life'[i] = "terminated"
  BY TruthNext DEF Knowing
<1>2. passed[d] \subseteq passed'[d]
  BY PassedGrows DEF Knowing
<1>3. Told(d, i) => Told(d, i)'
  BY HistoryGrows DEF Told, Note
<1>4. PassedPending(d, i) => PassedPending(d, i)'
  BY <1>2 DEF PassedPending
<1>5. CheckFailed(d, i) => CheckFailed(d, i)'
  BY <1>2 DEF CheckFailed
<1> SUFFICES ASSUME life'[i] # "terminated", ~Complies(i)
             PROVE  Told(d, i)' \/ PassedPending(d, i)' \/ CheckFailed(d, i)'
  BY DEF Answered, Complies
<1>6. Told(d, i) \/ PassedPending(d, i) \/ CheckFailed(d, i)
  BY <1>1 DEF Answered
<1> QED
  BY <1>3, <1>4, <1>5, <1>6

(* When "encrypted" is said of an instance that is not, and still is, it   *)
(* was pending and showed some volumes, all of them encrypted.             *)
LEMMA EncryptedShows ==
  ASSUME Knowing, NEW d \in Deliveries, pc[d] = "check",
         NEW answered, "encrypted" \in VolumeEncryptionStatus(instance[d], answered),
         ~Complies(Current(d)), life[Current(d)] # "terminated"
  PROVE  /\ instance[d].life = "pending" /\ instance[d].mappings # {}
         /\ \A v \in instance[d].mappings : Kind[v] = "encrypted"
<1> DEFINE i == Current(d)
           vs == instance[d].mappings
<1>1. /\ i \in Fleet /\ instance[d] \in Descriptions
      /\ Seen(instance[d], i, life[i])
  BY ShapeParts, CurrentInFleet DEF Knowing, Shape, TypeOK, Local, Known
<1>2. PICK v \in Volumes[i] : Kind[v] # "encrypted"
  BY DEF Complies
<1>3. instance[d].life # "pending" => vs = Volumes[i]
  BY <1>1 DEF Descriptions, Lives, Seen
<1>4. vs = {} => instance[d].life # "pending"
  BY DEF VolumeEncryptionStatus
<1>5. vs # {}
  BY <1>2, <1>3, <1>4
<1>6. \A w \in vs : Kind[w] = "encrypted"
  BY <1>5 DEF VolumeEncryptionStatus
<1> QED
  BY <1>2, <1>3, <1>5, <1>6

(* How the loop leaves an instance behind.                                 *)
LEMMA HandlerPasses ==
  ASSUME Shape, NEW d \in Deliveries, Handle(d) \/ Crash(d)
  PROVE  \/ status'[d] \in {"queued", "dlq"}
         \/ status'[d] = "done" /\ record[d] # "launch"
         \/ status'[d] = "running" /\ at'[d] = at[d]
         \/ /\ Advance(d)
            /\ \/ SendMail(d)
               \/ CheckVolumesFails(d)
               \/ /\ pc[d] = "check"
                  /\ passed' = Passing(d, "encrypted")
                  /\ \E answered \in Answers(d) :
                       "encrypted" \in VolumeEncryptionStatus(instance[d], answered)
<1> DEFINE Goal ==
      \/ status'[d] \in {"queued", "dlq"}
      \/ status'[d] = "done" /\ record[d] # "launch"
      \/ status'[d] = "running" /\ at'[d] = at[d]
      \/ /\ Advance(d)
         /\ \/ SendMail(d)
            \/ CheckVolumesFails(d)
            \/ /\ pc[d] = "check"
               /\ passed' = Passing(d, "encrypted")
               /\ \E answered \in Answers(d) :
                    "encrypted" \in VolumeEncryptionStatus(instance[d], answered)
<1> SUFFICES Goal
  OBVIOUS
<1>r. ASSUME Raise(d) PROVE Goal
  BY <1>r DEF Raise, Platform!Fail, Shape, TypeOK, Platform!TypeOK
<1>t. ASSUME NEW i, Throttle(d, i) PROVE Goal
  BY <1>r, <1>t DEF Throttle
<1>d. ASSUME Return(d), record[d] # "launch" PROVE Goal
  <2>1. status' = [status EXCEPT ![d] = "done"] /\ status \in [Deliveries -> Platform!Status]
    BY <1>d DEF Return, Platform!Succeed, Shape, TypeOK, Platform!TypeOK
  <2> QED
    BY <1>d, <2>1
<1>s. ASSUME UNCHANGED <<status, at>> PROVE Goal
  BY <1>s, HandleFrame
<1> HIDE DEF Goal
<1>1. CASE Crash(d)
  BY <1>1, <1>r DEF Crash
<1>2. CASE \/ PrefetchInstancesThrottled(d) \/ PrefetchVolumesThrottled(d)
           \/ DescribeInstanceThrottled(d) \/ CheckVolumesThrottled(d)
           \/ RemediationThrottled(d)
  BY <1>2, <1>t
  DEF PrefetchInstancesThrottled, PrefetchVolumesThrottled, DescribeInstanceThrottled,
      CheckVolumesThrottled, RemediationThrottled
<1>3. CASE DropRejectedCall(d) \/ MissInstances(d)
  BY <1>3, <1>d DEF DropRejectedCall, MissInstances
<1>4. CASE \/ PrefetchInstances(d) \/ PrefetchInstancesFails(d)
           \/ PrefetchVolumes(d) \/ PrefetchVolumesFails(d) \/ LookUp(d)
           \/ DescribeInstance(d) \/ DescribeInstanceFails(d) \/ ExemptByTag(d)
           \/ TagInstance(d) \/ TagInstanceFails(d) \/ ActionApplied(d) \/ ActionRefused(d)
           \/ PublishMetric(d)
  <2>1. UNCHANGED <<status, at>>
    BY <1>4
    DEF PrefetchInstances, PrefetchInstancesFails, PrefetchVolumes, PrefetchVolumesFails,
        LookUp, Look, Unanswered, DescribeInstance, DescribeInstanceFails, ExemptByTag,
        TagInstance, TagInstanceFails, Refuse, ActionApplied, ActionRefused, PublishMetric,
        Decide, Goto
  <2> QED
    BY <2>1, <1>s
<1>5. CASE CheckVolumes(d)
  <2>1. PICK answered \in Answers(d) :
          \E encryption \in VolumeEncryptionStatus(instance[d], answered) :
            /\ CASE encryption = "encrypted" -> Advance(d)
                 [] encryption = "undetermined" -> Decide(d, "undetermined", "metric")
                 [] encryption = "unencrypted" -> Decide(d, "none", "tag")
            /\ passed' = IF encryption = "encrypted" THEN Passing(d, "encrypted") ELSE passed
    BY <1>5 DEF CheckVolumes
  <2>2. VolumeEncryptionStatus(instance[d], answered)
          \subseteq {"encrypted", "undetermined", "unencrypted"}
    BY DEF VolumeEncryptionStatus
  <2>3. CASE Decide(d, "undetermined", "metric") \/ Decide(d, "none", "tag")
    BY <2>3, <1>s DEF Decide, Goto
  <2>4. CASE /\ Advance(d) /\ passed' = Passing(d, "encrypted")
             /\ "encrypted" \in VolumeEncryptionStatus(instance[d], answered)
    BY <2>4, <1>5 DEF Goal, CheckVolumes, Checking
  <2> QED
    BY <2>1, <2>2, <2>3, <2>4
<1>6. CASE CheckVolumesFails(d) \/ SendMail(d)
  BY <1>6 DEF Goal, CheckVolumesFails, SendMail
<1> QED
  BY <1>1, <1>2, <1>3, <1>4, <1>5, <1>6 DEF Handle, Prefetch

(* An instance the loop leaves behind was answered for.                    *)
LEMMA PassingAnswers ==
  ASSUME ~PublishMayFail, Knowing, [Next]_vars, NEW d \in Deliveries,
         NEW i \in Fleet, i = Current(d),
         \/ SendMail(d)
         \/ CheckVolumesFails(d)
         \/ /\ pc[d] = "check"
            /\ passed' = Passing(d, "encrypted")
            /\ \E answered \in Answers(d) :
                 "encrypted" \in VolumeEncryptionStatus(instance[d], answered)
  PROVE  Answered(d, i)'
<1>1. verdict[d] \in Verdicts /\ passed \in Passes
  BY ShapeParts DEF Knowing, LoopTyped, ReportsTyped
<1>2. CASE SendMail(d)
  <2>1. published' = published \union {Note(d, i, verdict[d], "mail")}
    BY <1>2 DEF SendMail, Publish
  <2>2. PICK v \in Verdicts : Note(d, i, v, "mail") \in published'
    BY <1>1, <2>1
  <2> QED
    BY <2>2 DEF Answered, Told, Note
<1>3. CASE /\ pc[d] = "check"
           /\ passed' = Passing(d, "encrypted")
           /\ \E answered \in Answers(d) :
                "encrypted" \in VolumeEncryptionStatus(instance[d], answered)
  <2> SUFFICES ASSUME life'[i] # "terminated", ~Complies(i) PROVE PassedPending(d, i)'
    BY DEF Answered, Complies
  <2>1. life[i] # "terminated"
    BY TruthNext DEF Knowing
  <2>2. /\ instance[d].life = "pending" /\ instance[d].mappings # {}
        /\ \A v \in instance[d].mappings : Kind[v] = "encrypted"
    BY <1>3, <2>1, EncryptedShows
  <2> DEFINE p == [on |-> i, life |-> instance[d].life,
                   seen |-> instance[d].mappings, how |-> "encrypted"]
  <2>3. p \in passed'[d]
    BY <1>1, <1>3 DEF Passing, Passes
  <2> QED
    BY <2>2, <2>3 DEF PassedPending
<1>4. CASE CheckVolumesFails(d)
  <2> DEFINE p == [on |-> i, life |-> instance[d].life,
                   seen |-> instance[d].mappings, how |-> "failed"]
  <2>1. p \in passed'[d]
    BY <1>1, <1>4 DEF CheckVolumesFails, Passing, Passes
  <2> QED
    BY <2>1 DEF Answered, CheckFailed
<1> QED
  BY <1>2, <1>3, <1>4

LEMMA AnsweringNext == ~PublishMayFail /\ Answering /\ [Next]_vars => Answering'
<1> SUFFICES ASSUME ~PublishMayFail, Answering, [Next]_vars, NEW d \in Deliveries
             PROVE  PassedAnswered(d)'
  BY KnowingNext DEF Answering
<1> USE DEF Answering
<1>1. Shape /\ at[d] \in 1 .. Len(Instances) /\ PassedAnswered(d)
  BY ShapeParts DEF Knowing, LoopTyped
<1>2. ~Start(d) => \A i \in Fleet : Answered(d, i) => Answered(d, i)'
  BY AnsweredKept
<1>s. Start(d) => status[d] = "queued" /\ status'[d] = "running"
  BY <1>1 DEF Start, Platform!Start, Shape, TypeOK, Platform!TypeOK
(* When the loop stays where it is, what was answered stays answered.      *)
<1>3. ASSUME record'[d] = record[d], at'[d] = at[d], status'[d] = status[d]
      PROVE  PassedAnswered(d)'
  <2>1. \A k \in 1 .. at[d] - 1 : Instances[k] \in Fleet
    BY <1>1, LaunchIsOrdered
  <2> QED
    BY <1>1, <1>2, <1>s, <1>3, <2>1 DEF PassedAnswered
<1>4. ASSUME status'[d] \notin {"done", "running"} \/ record'[d] # "launch"
      PROVE  PassedAnswered(d)'
  BY <1>4 DEF PassedAnswered
<1>5. ASSUME status'[d] = "running", at'[d] = 1
      PROVE  PassedAnswered(d)'
  BY <1>5 DEF PassedAnswered
<1>6. CASE Handle(d) \/ Crash(d)
  <2>1. record'[d] = record[d] /\ status[d] = "running"
    BY <1>1, <1>6, HandleFrame
  <2>2. CASE /\ Advance(d)
             /\ \/ SendMail(d)
                \/ CheckVolumesFails(d)
                \/ /\ pc[d] = "check"
                   /\ passed' = Passing(d, "encrypted")
                   /\ \E answered \in Answers(d) :
                        "encrypted" \in VolumeEncryptionStatus(instance[d], answered)
    <3>2. Current(d) \in Fleet
      BY <1>1, CurrentInFleet, ShapeParts
    <3>3. ASSUME NEW i \in Fleet, i = Current(d)
          PROVE  Answered(d, i)'
      BY <2>2, <3>3, PassingAnswers
    <3>4. \A i \in Fleet : i = Instances[at[d]] => Answered(d, i)'
      BY <3>3 DEF Current
    <3>5. ASSUME NEW k \in 1 .. at[d], NEW i \in Fleet, i = Instances[k], record[d] = "launch"
          PROVE  Answered(d, i)'
      <4>1. CASE k = at[d]
        BY <3>4, <3>5, <4>1
      <4>2. CASE k # at[d]
        <5>1. k \in 1 .. at[d] - 1
          BY <1>1, <4>2
        <5>2. Answered(d, i)
          BY <1>1, <2>1, <3>5, <5>1 DEF PassedAnswered
        <5> QED
          BY <2>1, <5>2, <1>2, <1>s
      <4> QED
        BY <4>1, <4>2
    <3>6. CASE at[d] < Len(Instances)
      <4>1. at'[d] = at[d] + 1 /\ status'[d] = "running"
        BY <1>1, <1>6, <2>2, <3>6, HandleFrame, NextEffect
      <4>2. ASSUME NEW k \in 1 .. at'[d] - 1, NEW i \in Fleet, i = Instances[k],
                   record[d] = "launch"
            PROVE  Answered(d, i)'
        <5>1. k \in 1 .. at[d]
          BY <1>1, <4>1
        <5> QED
          BY <3>5, <4>2, <5>1
      <4>3. \A k \in 1 .. at'[d] - 1 : Instances[k] \in Fleet
        BY <1>1, <4>1, <3>6, LaunchIsOrdered
      <4> QED
        BY <2>1, <4>1, <4>2, <4>3 DEF PassedAnswered
    <3>7. CASE ~(at[d] < Len(Instances))
      <4>1. at[d] = Len(Instances) /\ Return(d)
        BY <1>1, <2>2, <3>7, LaunchIsOrdered DEF Advance
      <4>2. status'[d] = "done"
        BY <1>1, <4>1 DEF Return, Platform!Succeed, Shape, TypeOK, Platform!TypeOK
      <4>3. ASSUME NEW i \in Fleet, record[d] = "launch"
            PROVE  Answered(d, i)'
        <5>1. PICK k \in 1 .. Len(Instances) : Instances[k] = i
          BY LaunchIsOrdered
        <5> QED
          BY <3>5, <4>1, <4>3, <5>1
      <4> QED
        BY <2>1, <4>2, <4>3 DEF PassedAnswered
    <3> QED
      BY <3>6, <3>7
  <2>3. CASE status'[d] \in {"queued", "dlq"} \/ (status'[d] = "done" /\ record[d] # "launch")
    BY <1>4, <2>1, <2>3
  <2>4. CASE status'[d] = "running" /\ at'[d] = at[d]
    BY <1>3, <2>1, <2>4
  <2> QED
    BY <1>1, <1>6, <2>2, <2>3, <2>4, HandlerPasses
<1>7. CASE \E e \in Deliveries \ {d} : Handle(e) \/ Crash(e)
  <2>1. PICK e \in Deliveries \ {d} : Handle(e) \/ Crash(e)
    BY <1>7
  <2>2. OthersKept(e) /\ UNCHANGED record
    BY <1>1, <2>1, HandleFrame
  <2> QED
    BY <1>3, <2>1, <2>2 DEF OthersKept
<1>8. CASE FleetChanges
  <2>1. UNCHANGED engineVars
    BY <1>1, <1>8, ShapeFleetChanges
  <2> QED
    BY <1>3, <2>1
<1>9. CASE \E e \in Deliveries :
             (\E rec \in Records : Deliver(e, rec)) \/ Start(e) \/ Expire(e)
  <2>1. PICK e \in Deliveries :
               (\E rec \in Records : Deliver(e, rec)) \/ Start(e) \/ Expire(e)
    BY <1>9
  <2>2. status \in [Deliveries -> Platform!Status] /\ record \in [Deliveries -> Records]
    BY <1>1 DEF Shape, TypeOK, Platform!TypeOK
  <2>3. CASE Start(e) /\ e = d
    <3>1. status[d] = "queued" /\ status'[d] = "running" /\ at' = at
      BY <2>2, <2>3 DEF Start, Platform!Start
    <3>2. at[d] = 1
      BY <1>1, <3>1 DEF Shape, Local
    <3> QED
      BY <1>5, <3>1, <3>2
  <2>4. CASE ~Start(e) /\ e = d
    BY <1>4, <2>1, <2>2, <2>4 DEF Deliver, Expire, Platform!Accept, Platform!Expire
  <2>5. CASE e # d
    <3>1. /\ record'[d] = record[d] /\ status'[d] = status[d] /\ at'[d] = at[d]
      BY <2>1, <2>2, <2>5
      DEF Deliver, Start, Expire, Platform!Accept, Platform!Start, Platform!Expire
    <3> QED
      BY <1>3, <3>1
  <2> QED
    BY <2>3, <2>4, <2>5
<1>10. CASE UNCHANGED vars
  BY <1>3, <1>10 DEF vars
<1> QED
  BY <1>6, <1>7, <1>8, <1>9, <1>10, NextCases

(* No other silent miss, as long as mails arrive: an event that counts as  *)
(* handled left no instance that still exists, and is not encrypted        *)
(* throughout, without a mail about it, but for those that showed only     *)
(* encrypted volumes while they were pending and those whose own call of   *)
(* describe_volumes failed; however many instances it launched, whatever   *)
(* the batches left out or failed at, and whoever attaches, tags or ends   *)
(* instances in between.                                                   *)
THEOREM NobodyIsMissed ==
  ASSUME ~PublishMayFail
  PROVE  Spec => []NoOtherMiss
<1>1. Init => Answering
  <2>1. Init => \A d \in Deliveries : status[d] = "unsent"
    BY DEF Init, Platform!Init
  <2> QED
    BY <2>1, KnowingInit DEF Answering, PassedAnswered
<1>2. Answering => NoOtherMiss
  BY DEF Answering, PassedAnswered, Answered, NoOtherMiss, Knowing
<1> QED
  BY <1>1, <1>2, AnsweringNext, PTL DEF Spec

-----------------------------------------------------------------------------
(* What was fixed is not taken back.                                       *)

(* A record that names an instance twice would have it terminated twice,   *)
(* as the batch is not asked again for the second time.                    *)
Repairable ==
  RemediationAction = "terminate" =>
    \A j, k \in 1 .. Len(Instances) : Instances[j] = Instances[k] => j = k

(* What the engine stopped may be ended by somebody later.                 *)
RepairedLives ==
  IF RemediationAction = "terminate" THEN {"terminated"} ELSE {"stopped", "terminated"}

ToldFixed(d, i) == Note(d, i, "applied", "mail") \in published

(* Some position the loop has not passed yet is i's.                       *)
Ahead(d, i) == \E k \in at[d] .. Len(Instances) : Instances[k] = i

(* An instance d mailed was fixed is still fixed, and what failed since is *)
(* not the engine's doing.  If it was terminated, whatever d will judge it *)
(* by shows it so, without mappings, and d does not come to act on it      *)
(* again.                                                                  *)
Settled(d) ==
  /\ verdict[d] = "applied" => life[Current(d)] \in RepairedLives
  /\ \A i \in Fleet : ToldFixed(d, i) =>
       /\ life[i] \in RepairedLives
       /\ Current(d) = i /\ verdict[d] = "failed" => blamed[d] \in {"person", "error"}
       /\ RemediationAction = "terminate" =>
            /\ Current(d) = i =>
                 /\ pc[d] \notin {"tag", "act"}
                 /\ instance[d] # None => instance[d].mappings = {}
            /\ prefetched[d] # None /\ Ahead(d, i) /\ i \in DOMAIN prefetched[d] =>
                 prefetched[d][i].mappings = {}

Emptied == \A i \in Fleet : life[i] = "terminated" => attached[i] = {}

Settling == Knowing /\ Emptied /\ \A d \in Deliveries : Settled(d)

LEMMA EmptiedNext == Shape /\ Emptied /\ [Next]_vars => Emptied'
<1> SUFFICES ASSUME Shape, Emptied, [Next]_vars, NEW i \in Fleet, life'[i] = "terminated"
             PROVE  attached'[i] = {}
  BY DEF Emptied
<1>1. FleetTyped
  BY ShapeParts
<1>2. CASE UNCHANGED <<life, attached>>
  BY <1>2 DEF Emptied
<1>3. CASE FleetChanges
  BY <1>1, <1>3
  DEF FleetChanges, Attach, ComeUp, Retag, EndByHand, End, FleetTyped, Emptied
<1>4. ASSUME NEW d \in Deliveries, Act(Current(d))
      PROVE  attached'[i] = {}
  BY <1>1, <1>4 DEF Act, End, FleetTyped, Emptied
<1>5. CASE \/ UNCHANGED vars
           \/ \E d \in Deliveries :
                (\E rec \in Records : Deliver(d, rec)) \/ Start(d) \/ Expire(d)
  BY <1>2, <1>5 DEF vars, Deliver, Start, Expire
<1>6. CASE \E d \in Deliveries : Handle(d) \/ Crash(d)
  BY <1>2, <1>4, <1>6, EngineOnFleet
<1> QED
  BY <1>3, <1>5, <1>6, NextCases

(* A fixed instance stays fixed.                                           *)
LEMMA RepairStays ==
  ASSUME Knowing, [Next]_vars, NEW i \in Fleet, life[i] \in RepairedLives
  PROVE  life'[i] \in RepairedLives
<1>1. CASE RemediationAction = "terminate"
  BY <1>1, TruthNext DEF RepairedLives, Knowing
<1>2. CASE RemediationAction # "terminate"
  <2>1. FleetTyped /\ life[i] \in {"stopped", "terminated"}
    BY <1>2, ShapeParts DEF Knowing, RepairedLives
  <2>2. CASE FleetChanges
    BY <2>1, <2>2
    DEF FleetChanges, Attach, ComeUp, Retag, EndByHand, End, FleetTyped, RepairedLives
  <2>3. CASE UNCHANGED life
    BY <2>3
  <2>4. ASSUME NEW d \in Deliveries, Act(Current(d))
        PROVE  life'[i] \in {"stopped", "terminated"}
    BY <1>2, <2>1, <2>4 DEF Act, FleetTyped
  <2>5. CASE \/ UNCHANGED vars
             \/ \E d \in Deliveries :
                  (\E rec \in Records : Deliver(d, rec)) \/ Start(d) \/ Expire(d)
    BY <2>3, <2>5 DEF vars, Deliver, Start, Expire
  <2>6. CASE \E d \in Deliveries : Handle(d) \/ Crash(d)
    BY <1>2, <2>3, <2>4, <2>6, EngineOnFleet DEF RepairedLives
  <2> QED
    BY <2>2, <2>5, <2>6, NextCases
<1> QED
  BY <1>1, <1>2

(* What the engine stopped, or somebody ended since, is refused only by an *)
(* error of EC2 or because of them.                                        *)
LEMMA RefusalsBlamed ==
  ASSUME Shape, RemediationAction # "terminate", NEW d \in Deliveries,
         life[Current(d)] \in {"stopped", "terminated"},
         TagInstanceFails(d) \/ ActionRefused(d)
  PROVE  blamed'[d] \in {"person", "error"}
<1>1. blamed \in [Deliveries -> {"nobody", "person", "error", "engine"}]
  BY ShapeParts DEF ReportsTyped
<1>2. RemediationAction = "stop"
  BY ActionTyped
<1>3. PICK possible :
        /\ Refuse(d, possible)
        /\ ~possible => life[Current(d)] = "terminated"
  <2>1. CASE TagInstanceFails(d)
    BY <2>1 DEF TagInstanceFails
  <2>2. CASE ActionRefused(d)
    BY <1>2, <2>2 DEF ActionRefused, CanAct
  <2> QED
    BY <2>1, <2>2
<1>4. ~possible => EndedByPerson(Current(d))
  BY <1>2, <1>3 DEF EndedByPerson
<1> QED
  BY <1>1, <1>3, <1>4 DEF Refuse

(* Who mails a verdict, and on what.                                       *)
LEMMA VerdictsMailed ==
  ASSUME [Next]_vars, NEW d \in Deliveries, NEW i, NEW v \in Verdicts,
         Note(d, i, v, "mail") \in published' \ published
  PROVE  SendMail(d) /\ i = Current(d) /\ v = verdict[d]
<1> DEFINE n == Note(d, i, v, "mail")
<1>1. n.what = v /\ n.by = d /\ n.on = i /\ n.channel = "mail"
  BY DEF Note
<1> HIDE DEF n
<1>2. PICK e \in Deliveries :
        /\ PublishMetric(e) \/ SendMail(e)
        /\ n = Note(e, Current(e), verdict[e], pc[e])
  BY <1>1, VerdictsPublished DEF n
<1>3. n.what = verdict[e] /\ n.by = e /\ n.on = Current(e) /\ n.channel = pc[e]
  BY <1>2 DEF Note
<1> QED
  BY <1>1, <1>2, <1>3 DEF PublishMetric

(* How the handler comes to a verdict on a remediation, and to one.        *)
LEMMA HandlerSettles ==
  ASSUME Shape, NEW d \in Deliveries, Handle(d) \/ Crash(d)
  PROVE  /\ verdict'[d] = "applied" =>
              at'[d] = at[d] /\ (verdict[d] = "applied" \/ ActionApplied(d))
         /\ verdict'[d] = "failed" =>
              /\ at'[d] = at[d]
              /\ verdict[d] = "failed" \/ TagInstanceFails(d) \/ ActionRefused(d)
         /\ pc'[d] \in {"tag", "act"} =>
              /\ at'[d] = at[d]
              /\ \/ pc[d] = "tag"
                 \/ pc[d] = "check" /\ instance[d].mappings # {}
         /\ prefetched'[d] = prefetched[d] =>
              \/ at'[d] \in {at[d], at[d] + 1}
              \/ prefetched'[d] = None
<1> DEFINE Goal ==
      /\ verdict'[d] = "applied" =>
           at'[d] = at[d] /\ (verdict[d] = "applied" \/ ActionApplied(d))
      /\ verdict'[d] = "failed" =>
           /\ at'[d] = at[d]
           /\ verdict[d] = "failed" \/ TagInstanceFails(d) \/ ActionRefused(d)
      /\ pc'[d] \in {"tag", "act"} =>
           /\ at'[d] = at[d]
           /\ \/ pc[d] = "tag"
              \/ pc[d] = "check" /\ instance[d].mappings # {}
      /\ prefetched'[d] = prefetched[d] =>
           \/ at'[d] \in {at[d], at[d] + 1}
           \/ prefetched'[d] = None
<1>1. LoopTyped /\ pc[d] # "idle"
  BY ShapeParts, HandleFrame
<1> SUFFICES Goal
  OBVIOUS
<1>2. CASE Return(d) \/ Raise(d)
  BY <1>2, LeaveEffect
<1>3. ASSUME Advance(d)
      PROVE  Goal
  BY <1>1, <1>2, <1>3, NextEffect DEF Advance
<1>4. ASSUME NEW v \in Verdicts, NEW label, Decide(d, v, label)
      PROVE  verdict'[d] = v /\ pc'[d] = label /\ at'[d] = at[d]
  BY <1>1, <1>4 DEF Decide, Goto, LoopTyped
<1>5. ASSUME NEW description, Look(d, description)
      PROVE  pc'[d] = "check" /\ verdict'[d] = verdict[d] /\ at' = at
  BY <1>1, <1>5 DEF Look, Goto, LoopTyped
<1>6. CASE \/ DropRejectedCall(d) \/ MissInstances(d) \/ PrefetchInstancesThrottled(d)
           \/ PrefetchVolumesThrottled(d) \/ DescribeInstanceThrottled(d)
           \/ CheckVolumesThrottled(d) \/ RemediationThrottled(d) \/ Crash(d)
  BY <1>2, <1>6
  DEF DropRejectedCall, MissInstances, PrefetchInstancesThrottled, PrefetchVolumesThrottled,
      DescribeInstanceThrottled, CheckVolumesThrottled, RemediationThrottled, Throttle, Crash
<1>7. CASE \/ PrefetchInstances(d) \/ PrefetchInstancesFails(d) \/ PrefetchVolumes(d)
           \/ PrefetchVolumesFails(d)
  <2>1. pc'[d] \in {"describe", "prefetch volumes"} /\ UNCHANGED loopVars
    BY <1>1, <1>7
    DEF PrefetchInstances, PrefetchInstancesFails, PrefetchVolumes, PrefetchVolumesFails,
        Goto, LoopTyped
  <2> QED
    BY <2>1
<1>8. CASE TagInstance(d)
  BY <1>8 DEF TagInstance
<1>9. CASE LookUp(d) \/ DescribeInstance(d) \/ DescribeInstanceFails(d)
  <2>1. CASE Unanswered(d)
    BY <1>4, <2>1 DEF Unanswered, Verdicts
  <2>2. CASE \E description : Look(d, description)
    BY <1>5, <2>2
  <2> QED
    BY <1>9, <2>1, <2>2 DEF LookUp, DescribeInstance, DescribeInstanceFails
<1>10. CASE ExemptByTag(d) \/ ActionApplied(d)
  BY <1>4, <1>10 DEF ExemptByTag, ActionApplied, Verdicts
<1>11. CASE TagInstanceFails(d) \/ ActionRefused(d)
  BY <1>4, <1>11 DEF TagInstanceFails, ActionRefused, Refuse, Verdicts
<1>12. CASE PublishMetric(d)
  <2>1. verdict[d] \in Verdicts
    BY <1>1 DEF LoopTyped
  <2> QED
    BY <1>4, <1>12, <2>1 DEF PublishMetric
<1>13. CASE CheckVolumes(d)
  <2>1. PICK answered \in Answers(d) :
          \E encryption \in VolumeEncryptionStatus(instance[d], answered) :
            CASE encryption = "encrypted" -> Advance(d)
              [] encryption = "undetermined" -> Decide(d, "undetermined", "metric")
              [] encryption = "unencrypted" -> Decide(d, "none", "tag")
    BY <1>13 DEF CheckVolumes
  <2>2. \/ Advance(d) \/ Decide(d, "undetermined", "metric")
        \/ /\ Decide(d, "none", "tag")
           /\ "unencrypted" \in VolumeEncryptionStatus(instance[d], answered)
    BY <2>1 DEF VolumeEncryptionStatus
  <2>3. pc[d] = "check"
    BY <1>13 DEF CheckVolumes, Checking
  <2>4. ASSUME Decide(d, "none", "tag"),
               "unencrypted" \in VolumeEncryptionStatus(instance[d], answered)
        PROVE  Goal
    <3>1. instance[d].mappings # {}
      BY <2>4 DEF VolumeEncryptionStatus
    <3> QED
      BY <1>4, <2>3, <2>4, <3>1 DEF Verdicts
  <2>5. CASE Decide(d, "undetermined", "metric")
    BY <1>4, <2>5 DEF Verdicts
  <2> QED
    BY <1>3, <2>2, <2>4, <2>5
<1>14. CASE CheckVolumesFails(d) \/ SendMail(d)
  BY <1>3, <1>14 DEF CheckVolumesFails, SendMail
<1> HIDE DEF Goal
<1> QED
  BY <1>6, <1>7, <1>8, <1>9, <1>10, <1>11, <1>12, <1>13, <1>14 DEF Handle, Prefetch

(* Mailing that an instance was fixed is the last thing the loop does with *)
(* it.                                                                     *)
LEMMA MailedAndPassed ==
  ASSUME Repairable, RemediationAction = "terminate", Shape, NEW d \in Deliveries, SendMail(d)
  PROVE  /\ pc'[d] \notin {"tag", "act"} /\ instance'[d] = None
         /\ \/ prefetched'[d] = None
            \/ \A k \in at'[d] .. Len(Instances) : Instances[k] # Current(d)
<1>1. Advance(d) /\ pc[d] # "idle" /\ at[d] \in 1 .. Len(Instances) /\ Len(Instances) \in Nat
  BY LaunchIsOrdered DEF SendMail, Shape, TypeOK
<1>2. CASE ~(at[d] < Len(Instances))
  BY <1>1, <1>2, LeaveEffect DEF Advance
<1>3. CASE at[d] < Len(Instances)
  <2>1. at'[d] = at[d] + 1 /\ instance'[d] = None /\ pc'[d] = "describe"
    BY <1>1, <1>3, NextEffect
  <2>2. ASSUME NEW k \in at'[d] .. Len(Instances)
        PROVE  Instances[k] # Current(d)
    <3>1. k \in 1 .. Len(Instances) /\ k # at[d]
      BY <1>1, <2>1
    <3> QED
      BY <1>1, <3>1 DEF Current, Repairable
  <2> QED
    BY <2>1, <2>2
<1> QED
  BY <1>2, <1>3

(* The blame for a failure stays until the failure is mailed.              *)
LEMMA BlameKept ==
  ASSUME Shape, [Next]_vars, NEW e \in Deliveries, verdict'[e] = "failed",
         ~TagInstanceFails(e), ~ActionRefused(e)
  PROVE  blamed'[e] = blamed[e]
<1>1. blamed \in [Deliveries -> {"nobody", "person", "error", "engine"}]
  BY ShapeParts DEF ReportsTyped
<1>2. CASE UNCHANGED blamed
  BY <1>2
<1>3. CASE FleetChanges \/ UNCHANGED vars
  BY <1>2, <1>3 DEF FleetChanges, Attach, ComeUp, Retag, EndByHand, vars
<1>4. ASSUME NEW d \in Deliveries, Start(d)
      PROVE  blamed'[e] = blamed[e]
  <2>1. pc'[e] # "guard"
    BY ShapeNext DEF Shape, Local
  <2>2. pc'[d] = "guard"
    BY <1>4 DEF Start, Shape, TypeOK
  <2>3. blamed' = [blamed EXCEPT ![d] = "nobody"] /\ d # e
    BY <1>4, <2>1, <2>2 DEF Start
  <2> QED
    BY <1>1, <2>3
<1>5. CASE \E d \in Deliveries : (\E rec \in Records : Deliver(d, rec)) \/ Expire(d)
  BY <1>2, <1>5 DEF Deliver, Expire
<1>6. ASSUME NEW d \in Deliveries, Handle(d) \/ Crash(d)
      PROVE  blamed'[e] = blamed[e]
  <2>1. CASE TagInstanceFails(d) \/ ActionRefused(d)
    <3>1. d # e /\ \E possible : Refuse(d, possible)
      BY <2>1 DEF TagInstanceFails, ActionRefused
    <3> QED
      BY <1>1, <3>1 DEF Refuse
  <2>2. CASE ~TagInstanceFails(d) /\ ~ActionRefused(d)
    <3>1. UNCHANGED blamed
      BY <1>6, <2>2
      DEF Crash, Handle, DropRejectedCall, MissInstances, Prefetch, PrefetchInstances,
          PrefetchInstancesFails, PrefetchInstancesThrottled, PrefetchVolumes,
          PrefetchVolumesFails, PrefetchVolumesThrottled, LookUp, Look, Unanswered,
          DescribeInstance, DescribeInstanceFails, DescribeInstanceThrottled, Throttle,
          ExemptByTag, CheckVolumes, CheckVolumesFails, CheckVolumesThrottled, TagInstance,
          RemediationThrottled, ActionApplied, Act, PublishMetric, SendMail
    <3> QED
      BY <3>1
  <2> QED
    BY <2>1, <2>2
<1> QED
  BY <1>3, <1>4, <1>5, <1>6, NextCases

LEMMA SettledHandler ==
  ASSUME Repairable, Settling, [Next]_vars, NEW d \in Deliveries, Handle(d) \/ Crash(d)
  PROVE  Settled(d)'
<1>1. Shape /\ Knowing /\ LoopTyped /\ FleetTyped /\ Settled(d)
  BY ShapeParts DEF Settling, Knowing
<1>2. at[d] \in 1 .. Len(Instances) /\ Len(Instances) \in Nat /\ Current(d) \in Fleet
  BY <1>1, LaunchIsOrdered, CurrentInFleet DEF LoopTyped
<1>3. \A i \in Fleet : life[i] \in RepairedLives => life'[i] \in RepairedLives
  BY <1>1, RepairStays
<1>4. ASSUME verdict'[d] = "applied"
      PROVE  life'[Instances[at'[d]]] \in RepairedLives
  <2>1. at'[d] = at[d] /\ (verdict[d] = "applied" \/ ActionApplied(d))
    BY <1>1, <1>4, HandlerSettles
  <2>2. CASE verdict[d] = "applied"
    BY <1>1, <1>2, <1>3, <2>1, <2>2 DEF Settled, Current
  <2>3. CASE ActionApplied(d)
    BY <1>1, <1>2, <2>1, <2>3
    DEF ActionApplied, Act, End, RepairedLives, Current, FleetTyped
  <2> QED
    BY <2>1, <2>2, <2>3
(* What d mails in this step.                                              *)
<1>5. ASSUME NEW i \in Fleet, ToldFixed(d, i)', ~ToldFixed(d, i)
      PROVE  SendMail(d) /\ i = Current(d) /\ verdict[d] = "applied"
  <2>1. Note(d, i, "applied", "mail") \in published' \ published
    BY <1>5 DEF ToldFixed, Note
  <2> QED
    BY <2>1, VerdictsMailed DEF Verdicts
<1>6. ASSUME NEW i \in Fleet, ToldFixed(d, i)'
      PROVE  life'[i] \in RepairedLives
  BY <1>1, <1>2, <1>3, <1>5, <1>6 DEF Settled
<1>7. ASSUME NEW i \in Fleet, ToldFixed(d, i)', Instances[at'[d]] = i, verdict'[d] = "failed"
      PROVE  blamed'[d] \in {"person", "error"}
  <2>1. /\ at'[d] = at[d]
        /\ verdict[d] = "failed" \/ TagInstanceFails(d) \/ ActionRefused(d)
    BY <1>1, <1>7, HandlerSettles
  <2>2. Current(d) = i
    BY <1>7, <2>1 DEF Current
  <2>3. ToldFixed(d, i)
    <3>1. ~SendMail(d) \/ verdict[d] # "applied"
      BY <2>1 DEF SendMail, TagInstanceFails, ActionRefused
    <3> QED
      BY <1>5, <1>7, <3>1
  <2>4. /\ life[i] \in RepairedLives
        /\ verdict[d] = "failed" => blamed[d] \in {"person", "error"}
    BY <1>1, <2>2, <2>3 DEF Settled
  <2>5. CASE TagInstanceFails(d) \/ ActionRefused(d)
    <3>1. pc[d] \in {"tag", "act"}
      BY <2>5 DEF TagInstanceFails, ActionRefused
    <3>2. RemediationAction # "terminate"
      BY <1>1, <2>2, <2>3, <3>1 DEF Settled
    <3>3. life[Current(d)] \in {"stopped", "terminated"}
      BY <2>2, <2>4, <3>2 DEF RepairedLives
    <3> QED
      BY <1>1, <2>5, <3>2, <3>3, RefusalsBlamed
  <2>6. CASE ~TagInstanceFails(d) /\ ~ActionRefused(d)
    BY <1>1, <1>7, <2>1, <2>4, <2>6, BlameKept
  <2> QED
    BY <2>5, <2>6
<1>8. ASSUME NEW i \in Fleet, ToldFixed(d, i), RemediationAction = "terminate"
      PROVE  /\ attached[i] = {}
             /\ Current(d) = i =>
                  /\ pc[d] \notin {"tag", "act"}
                  /\ instance[d] # None => instance[d].mappings = {}
             /\ prefetched[d] # None /\ Ahead(d, i) /\ i \in DOMAIN prefetched[d] =>
                  prefetched[d][i].mappings = {}
  BY <1>1, <1>8 DEF Settled, Settling, Emptied, RepairedLives
<1>9. ASSUME NEW i \in Fleet, ToldFixed(d, i)', RemediationAction = "terminate",
             Instances[at'[d]] = i
      PROVE  /\ pc'[d] \notin {"tag", "act"}
             /\ instance'[d] # None => instance'[d].mappings = {}
  <2>1. CASE ~ToldFixed(d, i)
    BY <1>1, <1>5, <1>9, <2>1, MailedAndPassed
  <2>2. CASE ToldFixed(d, i)
    <3>1. ASSUME pc'[d] \in {"tag", "act"}
          PROVE  FALSE
      <4>1. /\ at'[d] = at[d]
            /\ \/ pc[d] = "tag"
               \/ pc[d] = "check" /\ instance[d].mappings # {}
        BY <1>1, <3>1, HandlerSettles
      <4>2. Current(d) = i /\ (pc[d] = "check" => instance[d] # None)
        BY <1>1, <1>9, <4>1 DEF Current, Shape, Local
      <4> QED
        BY <1>8, <1>9, <2>2, <4>1, <4>2
    <3>2. ASSUME instance'[d] # None
          PROVE  instance'[d].mappings = {}
      <4>1. at'[d] = at[d]
        BY <1>1, <3>2, HandlerLearns
      <4>2. Current(d) = i /\ Ahead(d, i)
        BY <1>2, <1>9, <4>1 DEF Current, Ahead
      <4>3. CASE instance'[d] = instance[d]
        BY <1>8, <1>9, <2>2, <3>2, <4>2, <4>3
      <4>4. CASE /\ prefetched[d] # None /\ Current(d) \in DOMAIN prefetched[d]
                 /\ instance'[d] = prefetched[d][Current(d)]
        BY <1>8, <1>9, <2>2, <4>2, <4>4
      <4>5. CASE instance'[d] = Described(Current(d))
        BY <1>8, <1>9, <2>2, <4>2, <4>5 DEF Described
      <4> QED
        BY <1>1, <3>2, <4>3, <4>4, <4>5, HandlerLearns
    <3> QED
      BY <3>1, <3>2
  <2> QED
    BY <2>1, <2>2
<1>10. ASSUME NEW i \in Fleet, ToldFixed(d, i)', RemediationAction = "terminate",
              prefetched'[d] # None, NEW k \in at'[d] .. Len(Instances), Instances[k] = i,
              i \in DOMAIN prefetched'[d]
       PROVE  prefetched'[d][i].mappings = {}
  <2>1. CASE ~ToldFixed(d, i)
    BY <1>1, <1>5, <1>10, <2>1, MailedAndPassed
  <2>2. CASE ToldFixed(d, i)
    <3>1. CASE prefetched'[d] = prefetched[d]
      <4>1. at'[d] \in {at[d], at[d] + 1}
        BY <1>1, <1>10, <3>1, HandlerSettles
      <4>2. k \in at[d] .. Len(Instances)
        BY <1>2, <4>1
      <4>3. Ahead(d, i)
        BY <1>10, <4>2 DEF Ahead
      <4> QED
        BY <1>8, <1>10, <2>2, <3>1, <4>3
    <3>2. ASSUME NEW seen \in SUBSET Fleet, prefetched'[d] = [j \in seen |-> Described(j)]
          PROVE  prefetched'[d][i].mappings = {}
      <4>1. prefetched'[d][i] = Described(i)
        BY <1>10, <3>2
      <4> QED
        BY <1>8, <1>10, <2>2, <4>1 DEF Described
    <3> QED
      BY <1>1, <1>10, <3>1, <3>2, HandlerLearns
  <2> QED
    BY <2>1, <2>2
<1> QED
  BY <1>4, <1>6, <1>7, <1>9, <1>10 DEF Settled, Current, Ahead

LEMMA SettlingNext == Repairable /\ Settling /\ [Next]_vars => Settling'
<1> SUFFICES ASSUME Repairable, Settling, [Next]_vars, NEW e \in Deliveries
             PROVE  Settled(e)'
  BY KnowingNext, EmptiedNext DEF Settling, Knowing
<1>1. Shape /\ Knowing /\ Settled(e) /\ Current(e) \in Fleet
  BY ShapeParts, CurrentInFleet DEF Settling, Knowing
<1>2. \A i \in Fleet : life[i] \in RepairedLives => life'[i] \in RepairedLives
  BY <1>1, RepairStays
<1>3. ASSUME instance'[e] = instance[e], at'[e] = at[e], prefetched'[e] = prefetched[e],
             verdict'[e] = verdict[e], pc'[e] \in {pc[e], "guard"}, ~SendMail(e)
      PROVE  Settled(e)'
  <2>1. ASSUME NEW i \in Fleet, ToldFixed(e, i)'
        PROVE  ToldFixed(e, i)
    <3>1. "applied" \in Verdicts
      BY DEF Verdicts
    <3> QED
      BY <1>3, <2>1, <3>1, VerdictsMailed DEF ToldFixed, Note
  <2>2. Current(e)' = Current(e)
    BY <1>3 DEF Current
  <2>3. \A i : Ahead(e, i)' = Ahead(e, i)
    BY <1>3 DEF Ahead
  <2>4. verdict'[e] = "failed" => blamed'[e] = blamed[e]
    <3>1. ASSUME verdict'[e] = "failed"
          PROVE  ~TagInstanceFails(e) /\ ~ActionRefused(e)
      BY <1>1, <1>3, <3>1 DEF TagInstanceFails, ActionRefused, Shape, Local
    <3> QED
      BY <1>1, <3>1, BlameKept
  <2> QED
    BY <1>1, <1>2, <1>3, <2>1, <2>2, <2>3, <2>4 DEF Settled
<1>4. CASE \E d \in Deliveries : Handle(d) \/ Crash(d)
  <2>1. PICK d \in Deliveries : Handle(d) \/ Crash(d)
    BY <1>4
  <2>2. CASE e = d
    BY <2>1, <2>2, SettledHandler
  <2>3. CASE e # d
    <3>1. OthersKept(d)
      BY <1>1, <2>1, HandleFrame
    <3>2. ~SendMail(e)
      BY <3>1, <2>3, <1>1 DEF OthersKept, SendMail, Advance, Goto, Return, Leave, Shape, TypeOK
    <3> QED
      BY <1>3, <2>3, <3>1, <3>2 DEF OthersKept
  <2> QED
    BY <2>2, <2>3
<1>5. ASSUME UNCHANGED <<loopVars, batchVars>>, pc'[e] \in {pc[e], "guard"}
      PROVE  Settled(e)'
  <2>1. ~SendMail(e)
    BY <1>1, <1>5 DEF SendMail, Advance, Goto, Return, Leave, Shape, TypeOK
  <2> QED
    BY <1>3, <1>5, <2>1
<1>6. CASE \/ FleetChanges \/ UNCHANGED vars
           \/ \E d \in Deliveries :
                (\E rec \in Records : Deliver(d, rec)) \/ Start(d) \/ Expire(d)
  <2>1. UNCHANGED <<loopVars, batchVars>>
    BY <1>1, <1>6, ShapeFleetChanges DEF vars, Deliver, Start, Expire
  <2>2. pc'[e] \in {pc[e], "guard"}
    BY <1>1, <1>6, ShapeFleetChanges DEF vars, Deliver, Start, Expire, Shape, TypeOK
  <2> QED
    BY <1>5, <2>1, <2>2
<1> QED
  BY <1>4, <1>6, NextCases

(* A replayed event does not turn the engine's own fix into an alarm: once *)
(* a delivery mailed that it dealt with an instance, it mails that it      *)
(* failed to only if somebody ended the instance since or EC2 answered     *)
(* with an error to what it could have done.  After a termination the      *)
(* replay finds nothing left to judge, and a stop can be repeated, however *)
(* attempts end and whatever the batches left out.                         *)
THEOREM FixesAreNotTakenBack ==
  ASSUME Repairable
  PROVE  Spec => FixNotTakenBack
<1> DEFINE NotTakenBack ==
      \A d \in Deliveries, i \in Fleet :
        Note(d, i, "applied", "mail") \in published
          /\ Note(d, i, "failed", "mail") \in published' \ published
        => blamed[d] \in {"person", "error"}
<1>1. Init => Settling
  <2>1. Init => Emptied
    BY DEF Init, Emptied
  <2>2. Init => \A d \in Deliveries : Settled(d)
    BY DEF Init, Settled, ToldFixed
  <2> QED
    BY <2>1, <2>2, KnowingInit DEF Settling
<1>2. Settling /\ [Next]_vars => NotTakenBack
  <2> SUFFICES ASSUME Settling, [Next]_vars, NEW d \in Deliveries, NEW i \in Fleet,
                      ToldFixed(d, i), Note(d, i, "failed", "mail") \in published' \ published
               PROVE  blamed[d] \in {"person", "error"}
    BY DEF ToldFixed
  <2>1. i = Current(d) /\ verdict[d] = "failed"
    BY VerdictsMailed DEF Verdicts
  <2> QED
    BY <2>1 DEF Settling, Settled
<1>3. Settling /\ [Next]_vars => [NotTakenBack]_vars
  BY <1>2
<1> HIDE DEF NotTakenBack
<1>4. Spec => [][NotTakenBack]_vars
  BY <1>1, <1>3, SettlingNext, PTL DEF Spec
<1> QED
  BY <1>4 DEF FixNotTakenBack, NotTakenBack

-----------------------------------------------------------------------------
(* The handler refines the platform's promise.                             *)

(* The loop over the instances is one run of an event to Lambda, which     *)
(* accepts, starts, retries and gives up as lambda.tf configures, whatever *)
(* the handler does with one instance or another.                          *)
THEOREM LoopImplementsDelivery == Spec => Platform!SafetySpec
<1>1. Init => Platform!Init
  BY DEF Init
<1>2. Shape /\ [Next]_vars => [Platform!Next]_(Platform!deliveryVars)
  <2> SUFFICES ASSUME Shape, [Next]_vars
               PROVE  [Platform!Next]_(Platform!deliveryVars)
    OBVIOUS
  <2> USE DEF Platform!Next, Platform!deliveryVars
  <2>1. ASSUME NEW d \in Deliveries, NEW rec, Deliver(d, rec)
        PROVE  Platform!Next
    BY <2>1 DEF Deliver
  <2>2. ASSUME NEW d \in Deliveries, Start(d) \/ Expire(d)
        PROVE  Platform!Next
    BY <2>2 DEF Start, Expire
  <2>3. ASSUME NEW d \in Deliveries, Handle(d) \/ Crash(d)
        PROVE  [Platform!Next]_(Platform!deliveryVars)
    <3>1. CASE Return(d) \/ Raise(d)
      BY <3>1 DEF Return, Raise
    <3>2. CASE UNCHANGED lambdaVars
      BY <3>2
    <3>3. CASE Advance(d)
      BY <3>1, <3>2, <3>3 DEF Advance, Goto
    <3>4. CASE \/ DropRejectedCall(d) \/ MissInstances(d) \/ PrefetchInstancesThrottled(d)
               \/ PrefetchVolumesThrottled(d) \/ DescribeInstanceThrottled(d)
               \/ CheckVolumesThrottled(d) \/ RemediationThrottled(d) \/ Crash(d)
      BY <3>1, <3>4
      DEF DropRejectedCall, MissInstances, PrefetchInstancesThrottled,
          PrefetchVolumesThrottled, DescribeInstanceThrottled, CheckVolumesThrottled,
          RemediationThrottled, Throttle, Crash
    <3>5. CASE \/ PrefetchInstances(d) \/ PrefetchInstancesFails(d) \/ PrefetchVolumes(d)
               \/ PrefetchVolumesFails(d) \/ LookUp(d) \/ DescribeInstance(d)
               \/ DescribeInstanceFails(d) \/ ExemptByTag(d) \/ TagInstance(d)
               \/ TagInstanceFails(d) \/ ActionApplied(d) \/ ActionRefused(d)
               \/ PublishMetric(d)
      BY <3>2, <3>5
      DEF PrefetchInstances, PrefetchInstancesFails, PrefetchVolumes, PrefetchVolumesFails,
          LookUp, Look, Unanswered, DescribeInstance, DescribeInstanceFails, ExemptByTag,
          TagInstance, TagInstanceFails, Refuse, ActionApplied, ActionRefused, PublishMetric,
          Decide, Goto
    <3>6. CASE CheckVolumes(d)
      BY <3>2, <3>3, <3>6, CheckVolumesEnds DEF Decide, Goto
    <3>7. CASE CheckVolumesFails(d) \/ SendMail(d)
      BY <3>3, <3>7 DEF CheckVolumesFails, SendMail
    <3> QED
      BY <2>3, <3>4, <3>5, <3>6, <3>7 DEF Handle, Prefetch
  <2>4. CASE FleetChanges \/ UNCHANGED vars
    BY <2>4, ShapeFleetChanges DEF vars
  <2> QED
    BY <2>1, <2>2, <2>3, <2>4, NextCases
<1> QED
  BY <1>1, <1>2, ShapeInit, ShapeNext, PTL DEF Spec, Platform!SafetySpec

=============================================================================
