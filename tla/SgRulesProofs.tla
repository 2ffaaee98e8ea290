--------------------------- MODULE SgRulesProofs ---------------------------
(***************************************************************************)
(* What holds of the security-group rule for every set of deliveries,      *)
(* rules and requests, any number of retries and any reservation.          *)
(***************************************************************************)
EXTENDS SgRules, TLAPS

USE DEF lambdaVars, handlerVars, eventVars

(* Where the handler is agrees with where Lambda thinks it is, and its     *)
(* loop positions stay inside the lists they walk.                         *)
Local(d) ==
  /\ status[d] = "unsent" => attempts[d] = 0
  /\ status[d] = "queued" => attempts[d] < MaxAttempts
  /\ status[d] # "unsent" <=> request[d] \in Requests
  /\ pc[d] # "idle" <=> status[d] = "running"
  /\ pc[d] \in {"idle", "guard"} => ruleAt[d] = 1
  /\ pc[d] \in {"revoke", "metric", "alert"} =>
       ~denied[d] /\ ruleAt[d] <= Len(RevokeList[request[d]])
  /\ pc[d] \in {"metric", "alert"} => portAt[d] <= Len(Ports[Rule(d)])

Shape == TypeOK /\ \A d \in Deliveries : Local(d)

(* What the handler is looking at once it has found violations: a rule of  *)
(* the request, exposing at least one port.                                *)
LEMMA RuleFound ==
  ASSUME Shape, NEW d \in Deliveries, pc[d] \in {"revoke", "metric", "alert"}
  PROVE  /\ request[d] \in Requests
         /\ RevokeList[request[d]] \in Seq(Rules)
         /\ ruleAt[d] \in 1 .. Len(RevokeList[request[d]])
         /\ Rule(d) \in Rules
         /\ Ports[Rule(d)] \in Seq(Nat)
         /\ Len(Ports[Rule(d)]) \in Nat \ {0}
         /\ pc[d] \in {"metric", "alert"} =>
              /\ portAt[d] \in 1 .. Len(Ports[Rule(d)])
              /\ Port(d) \in Nat
<1>1. /\ request[d] \in Requests
      /\ RevokeList[request[d]] \in Seq(Rules)
      /\ ruleAt[d] \in 1 .. Len(RevokeList[request[d]])
  <2>1. Local(d) /\ ruleAt[d] \in Nat \ {0}
    BY DEF Shape, TypeOK
  <2>2. request[d] \in Requests
    <3>1. status[d] = "running"
      BY <2>1 DEF Local
    <3> QED
      BY <2>1, <3>1 DEF Local
  <2>3. RevokeList[request[d]] \in Seq(Rules)
    BY <2>2, DetectionAssumption
  <2>4. ruleAt[d] <= Len(RevokeList[request[d]])
    BY <2>1 DEF Local
  <2> QED
    BY <2>1, <2>2, <2>3, <2>4
<1>2. Rule(d) \in Rules /\ Ports[Rule(d)] \in Seq(Nat)
  BY <1>1, DetectionAssumption DEF Rule
<1>3. Rule(d) \in Exposing
  BY <1>1, DetectionAssumption DEF Rule
<1>4. Len(Ports[Rule(d)]) \in Nat \ {0}
  BY <1>2, <1>3 DEF Exposing
<1>5. ASSUME pc[d] \in {"metric", "alert"}
      PROVE  portAt[d] \in 1 .. Len(Ports[Rule(d)]) /\ Port(d) \in Nat
  BY <1>2, <1>4, <1>5 DEF Shape, Local, TypeOK, Port
<1> QED
  BY <1>1, <1>2, <1>4, <1>5

(* Publishing adds some of the notes it was given and nothing else, and    *)
(* all of them when nothing can be lost.                                   *)
LEMMA PublishAdds ==
  ASSUME NEW notes, Publish(notes)
  PROVE  /\ published \subseteq published'
         /\ published' \subseteq published \union notes
         /\ ~PublishMayFail => published' = published \union notes
BY PublishAssumption DEF Publish

LEMMA NoteTyped ==
  ASSUME NEW d \in Deliveries, NEW r \in Rules, NEW p \in Nat,
         NEW kind \in Metrics \union Alerts \union {"throttled"}
  PROVE  Note(kind, d, r, p) \in NoteType
BY DEF Note, NoteType

LEMMA NotesOnRuleTyped ==
  ASSUME NEW d \in Deliveries, NEW r \in Rules, Ports[r] \in Seq(Nat),
         NEW kind \in Metrics \union Alerts \union {"throttled"}
  PROVE  NotesOnRule(kind, d, r) \subseteq NoteType
BY NoteTyped DEF NotesOnRule

-----------------------------------------------------------------------------
(* The shape is inductive.                                                 *)

LEMMA ShapeInit == Init => Shape
BY AttemptsAssumption, DetectionAssumption DEF Init, Shape, TypeOK, Local

(* A new delivery, of a record that may have been delivered before.        *)
LEMMA ShapeDeliver ==
  ASSUME Shape, group' \in SUBSET Rules,
         NEW d \in Deliveries, NEW q \in Requests, NEW rejected \in BOOLEAN,
         Deliver(d, q, rejected)
  PROVE  Shape'
<1>1. TypeOK'
  BY DEF Shape, TypeOK, Deliver, NoteType
<1>2. ASSUME NEW e \in Deliveries PROVE Local(e)'
  <2>1. CASE e = d
    BY <2>1, AttemptsAssumption DEF Shape, TypeOK, Local, Deliver
  <2>2. CASE e # d
    BY <2>2 DEF Shape, TypeOK, Local, Deliver, Rule
  <2> QED BY <2>1, <2>2
<1> QED
  BY <1>1, <1>2 DEF Shape

(* The end of an attempt, whether the handler returned or raised.          *)
LEMMA ShapeLeave ==
  ASSUME Shape, group' \in SUBSET Rules, published' \in SUBSET NoteType,
         UNCHANGED <<eventVars, refusals>>,
         NEW d \in Deliveries, status[d] = "running", Return(d) \/ Raise(d)
  PROVE  Shape'
<1>1. TypeOK'
  <2>1. status' \in [Deliveries -> {"unsent", "queued", "running", "done", "dlq"}]
    BY DEF Shape, TypeOK, Return, Raise
  <2>2. /\ pc' \in [Deliveries -> {"idle", "guard", "revoke", "metric", "alert"}]
        /\ ruleAt' \in [Deliveries -> Nat \ {0}]
        /\ portAt' \in [Deliveries -> Nat \ {0}]
    BY DEF Shape, TypeOK, Return, Raise, Leave
  <2>3. remediated' \in [Deliveries -> BOOLEAN]
    BY DEF Shape, TypeOK, Return, Raise, Leave
  <2>4. UNCHANGED attempts
    BY DEF Return, Raise
  <2> QED
    BY <2>1, <2>2, <2>3, <2>4 DEF Shape, TypeOK
<1>2. ASSUME NEW e \in Deliveries PROVE Local(e)'
  <2>1. CASE e = d
    <3>1. /\ Local(d)
          /\ pc'[d] = "idle" /\ ruleAt'[d] = 1
          /\ UNCHANGED <<attempts, request>>
          /\ status'[d] \in {"queued", "done", "dlq"}
          /\ status'[d] = "queued" => attempts[d] < MaxAttempts
      BY DEF Shape, TypeOK, Return, Raise, Leave
    <3> QED
      BY <2>1, <3>1 DEF Local
  <2>2. CASE e # d
    BY <2>2 DEF Shape, TypeOK, Local, Return, Raise, Leave, Rule
  <2> QED BY <2>1, <2>2
<1> QED
  BY <1>1, <1>2 DEF Shape

(* A verdict on the current rule.                                          *)
LEMMA ShapeVerdict ==
  ASSUME Shape, group' \in SUBSET Rules, refusals' \in SUBSET (Deliveries \X Rules),
         NEW d \in Deliveries, pc[d] = "revoke", NEW fixed \in BOOLEAN,
         Verdict(d, fixed)
  PROVE  Shape'
<1>1. TypeOK'
  <2>1. remediated' \in [Deliveries -> BOOLEAN]
    BY DEF Shape, TypeOK, Verdict
  <2>2. /\ pc' \in [Deliveries -> {"idle", "guard", "revoke", "metric", "alert"}]
        /\ portAt' \in [Deliveries -> Nat \ {0}]
    BY DEF Shape, TypeOK, Verdict, Goto
  <2>3. UNCHANGED <<eventVars, lambdaVars, ruleAt, published>>
    BY DEF Verdict
  <2> QED
    BY <2>1, <2>2, <2>3 DEF Shape, TypeOK
<1>2. ASSUME NEW e \in Deliveries PROVE Local(e)'
  <2>1. CASE e = d
    BY <2>1, RuleFound DEF Shape, TypeOK, Local, Verdict, Goto, Rule
  <2>2. CASE e # d
    BY <2>2 DEF Shape, TypeOK, Local, Verdict, Goto, Rule
  <2> QED BY <2>1, <2>2
<1> QED
  BY <1>1, <1>2 DEF Shape

LEMMA ShapeHandle ==
  ASSUME Shape, NEW d \in Deliveries, Handle(d)
  PROVE  Shape'
<1> USE DEF Shape
<1>1. pc[d] # "idle" /\ status[d] = "running"
  <2>1. pc[d] # "idle"
    BY DEF Handle, ReportBlocked, MissGroupId, FindCompliant, FindViolations,
           RevokeApplied, RevokeAbsent, RevokeRefused, RevokeThrottled,
           RevokeAnswerLost, PublishViolation, SendAlertNextPort,
           SendAlertNextRule, SendLastAlert
  <2> QED
    BY <2>1 DEF Local
<1>2. CASE ReportBlocked(d)
  <2>1. request[d] \in Requests
    BY <1>1 DEF Local
  <2>2. published' \in SUBSET NoteType
    BY <1>2, <2>1 DEF ReportBlocked, TypeOK, NoteType
  <2> QED
    BY <1>1, <1>2, <2>2, ShapeLeave DEF ReportBlocked, TypeOK
<1>3. CASE MissGroupId(d) \/ FindCompliant(d)
  BY <1>1, <1>3, ShapeLeave DEF MissGroupId, FindCompliant, TypeOK
<1>4. CASE FindViolations(d)
  <2>1. TypeOK'
    BY <1>4 DEF FindViolations, Goto, TypeOK
  <2>2. 1 <= Len(RevokeList[request[d]])
    BY <1>1, <1>4, DetectionAssumption DEF FindViolations, Local
  <2>3. ASSUME NEW e \in Deliveries PROVE Local(e)'
    BY <1>1, <1>4, <2>2, <2>3 DEF FindViolations, Goto, TypeOK, Local, Rule
  <2> QED
    BY <2>1, <2>3
<1>5. CASE RevokeApplied(d) \/ RevokeAbsent(d)
  BY <1>5, ShapeVerdict DEF RevokeApplied, RevokeAbsent, TypeOK
<1>6. CASE RevokeRefused(d)
  <2>1. <<d, Rule(d)>> \in Deliveries \X Rules
    BY <1>6, RuleFound DEF RevokeRefused
  <2> QED
    BY <1>6, <2>1, ShapeVerdict DEF RevokeRefused, TypeOK
<1>7. CASE RevokeThrottled(d)
  <2>1. NotesOnRule("throttled", d, Rule(d)) \subseteq NoteType
    BY <1>7, RuleFound, NotesOnRuleTyped DEF RevokeThrottled
  <2>2. published' \in SUBSET NoteType
    BY <1>7, <2>1, PublishAdds DEF RevokeThrottled, TypeOK
  <2> QED
    BY <1>1, <1>7, <2>2, ShapeLeave DEF RevokeThrottled, TypeOK
<1>8. CASE RevokeAnswerLost(d)
  BY <1>1, <1>8, ShapeLeave DEF RevokeAnswerLost, TypeOK
<1>9. CASE PublishViolation(d)
  <2>1. published' \in SUBSET NoteType
    <3> DEFINE kind == IF remediated[d] THEN "applied" ELSE "failed"
    <3>1. pc[d] = "metric" /\ Publish({Note(kind, d, Rule(d), Port(d))})
      BY <1>9 DEF PublishViolation
    <3>2. kind \in Metrics \union Alerts \union {"throttled"}
      BY DEF Metrics
    <3> HIDE DEF kind
    <3>3. Note(kind, d, Rule(d), Port(d)) \in NoteType
      BY <3>1, <3>2, RuleFound, NoteTyped
    <3> QED
      BY <3>1, <3>3, PublishAdds DEF TypeOK
  <2>2. TypeOK'
    BY <1>9, <2>1 DEF PublishViolation, Goto, TypeOK
  <2>3. ASSUME NEW e \in Deliveries PROVE Local(e)'
    BY <1>9, <2>3 DEF PublishViolation, Goto, TypeOK, Local, Rule
  <2> QED
    BY <2>2, <2>3
<1>10. ASSUME SendAlertNextPort(d) \/ SendAlertNextRule(d) \/ SendLastAlert(d)
       PROVE  published' \in SUBSET NoteType
  <2>1. pc[d] = "alert" /\ Publish({AlertNote(d)})
    BY <1>10 DEF SendAlertNextPort, SendAlertNextRule, SendLastAlert
  <2>2. AlertNote(d) \in NoteType
    BY <2>1, RuleFound, NoteTyped DEF AlertNote, Alerts
  <2> QED
    BY <2>1, <2>2, PublishAdds DEF TypeOK
<1>11. CASE SendAlertNextPort(d)
  <2>1. TypeOK'
    BY <1>10, <1>11 DEF SendAlertNextPort, Goto, TypeOK
  <2>2. portAt[d] + 1 <= Len(Ports[Rule(d)])
    BY <1>11, RuleFound DEF SendAlertNextPort
  <2>3. ASSUME NEW e \in Deliveries PROVE Local(e)'
    BY <1>11, <2>2, <2>3 DEF SendAlertNextPort, Goto, TypeOK, Local, Rule
  <2> QED
    BY <2>1, <2>3
<1>12. CASE SendAlertNextRule(d)
  <2>1. TypeOK'
    BY <1>10, <1>12 DEF SendAlertNextRule, Goto, TypeOK
  <2>2. ruleAt[d] + 1 <= Len(RevokeList[request[d]])
    BY <1>12, RuleFound DEF SendAlertNextRule
  <2>3. ASSUME NEW e \in Deliveries PROVE Local(e)'
    BY <1>12, <2>2, <2>3 DEF SendAlertNextRule, Goto, TypeOK, Local, Rule
  <2> QED
    BY <2>1, <2>3
<1>13. CASE SendLastAlert(d)
  BY <1>1, <1>10, <1>13, ShapeLeave DEF SendLastAlert, TypeOK
<1> QED
  BY <1>2, <1>3, <1>4, <1>5, <1>6, <1>7, <1>8, <1>9, <1>11, <1>12, <1>13 DEF Handle

LEMMA ShapeNext == Shape /\ [Next]_vars => Shape'
<1> SUFFICES ASSUME Shape, [Next]_vars PROVE Shape'
  OBVIOUS
<1>1. ASSUME NEW d \in Deliveries, NEW q \in Requests, Authorize(d, q)
      PROVE  Shape'
  BY <1>1, ShapeDeliver, DetectionAssumption DEF Authorize, Shape, TypeOK
<1>2. ASSUME NEW d \in Deliveries, NEW q \in Requests, AuthorizeDenied(d, q)
      PROVE  Shape'
  BY <1>2, ShapeDeliver DEF AuthorizeDenied, Shape, TypeOK
<1>3. ASSUME NEW d \in Deliveries, NEW e \in Deliveries, Redeliver(d, e)
      PROVE  Shape'
  <2>1. request[e] \in Requests /\ denied[e] \in BOOLEAN
    BY <1>3 DEF Redeliver, Shape, TypeOK, Local
  <2> QED
    BY <1>3, <2>1, ShapeDeliver DEF Redeliver, Shape, TypeOK
<1>4. ASSUME NEW r \in Rules, RevokedByHand(r)
      PROVE  Shape'
  BY <1>4 DEF RevokedByHand, Shape, TypeOK, Local, Rule
<1>5. ASSUME NEW d \in Deliveries, Start(d)
      PROVE  Shape'
  <2>1. TypeOK'
    BY <1>5, AttemptsAssumption DEF Start, Shape, TypeOK, Local
  <2>2. ASSUME NEW e \in Deliveries PROVE Local(e)'
    BY <1>5, <2>2 DEF Start, Shape, TypeOK, Local, Rule
  <2> QED
    BY <2>1, <2>2 DEF Shape
<1>6. ASSUME NEW d \in Deliveries, Expire(d)
      PROVE  Shape'
  <2>1. TypeOK'
    BY <1>6 DEF Expire, Shape, TypeOK
  <2>2. ASSUME NEW e \in Deliveries PROVE Local(e)'
    BY <1>6, <2>2 DEF Expire, Shape, TypeOK, Local, Rule
  <2> QED
    BY <2>1, <2>2 DEF Shape
<1>7. ASSUME NEW d \in Deliveries, Crash(d)
      PROVE  Shape'
  BY <1>7, ShapeLeave DEF Crash, Shape, TypeOK
<1>8. ASSUME NEW d \in Deliveries, Handle(d)
      PROVE  Shape'
  BY <1>8, ShapeHandle
<1>9. CASE UNCHANGED vars
  BY <1>9 DEF vars, Shape, TypeOK, Local, Rule
<1> QED
  BY <1>1, <1>2, <1>3, <1>4, <1>5, <1>6, <1>7, <1>8, <1>9 DEF Next

(* Every variable keeps its type: in particular no event is started more   *)
(* than MaxAttempts times, and the handler's loops never index past the    *)
(* rules and ports that detection found.                                   *)
THEOREM TypeCorrect == Spec => []TypeOK
<1>1. Shape => TypeOK
  BY DEF Shape
<1> QED
  BY <1>1, ShapeInit, ShapeNext, PTL DEF Spec

-----------------------------------------------------------------------------
(* What a step adds to the history.                                        *)

HistoryVars == <<published, refusals>>

(* A note the handler of d adds is about d, and is a failure only if the   *)
(* verdict on the rule at hand is one.                                     *)
NotesOf(d) ==
  \A n \in published' \ published :
    /\ n.by = d
    /\ n.kind # "blocked" => ~denied[d]
    /\ n.kind \in {"failed", "manual_action"} =>
         pc[d] \in {"metric", "alert"} /\ ~remediated[d] /\ n.rule = Rule(d)

LEMMA HandleNotes ==
  ASSUME Shape, NEW d \in Deliveries, Handle(d)
  PROVE  /\ published \subseteq published'
         /\ refusals \subseteq refusals'
         /\ NotesOf(d)
<1>1. CASE ReportBlocked(d)
  BY <1>1 DEF ReportBlocked, NotesOf
<1>2. CASE \/ MissGroupId(d) \/ FindCompliant(d) \/ FindViolations(d)
           \/ RevokeApplied(d) \/ RevokeAbsent(d) \/ RevokeRefused(d)
           \/ RevokeAnswerLost(d)
  BY <1>2 DEF MissGroupId, FindCompliant, FindViolations, RevokeApplied,
              RevokeAbsent, RevokeRefused, RevokeAnswerLost, Verdict, NotesOf
<1>3. CASE RevokeThrottled(d)
  <2>1. ~denied[d] /\ Publish(NotesOnRule("throttled", d, Rule(d)))
        /\ UNCHANGED refusals
    BY <1>3 DEF RevokeThrottled, Shape, Local
  <2>2. \A n \in NotesOnRule("throttled", d, Rule(d)) :
          n.by = d /\ n.kind = "throttled"
    BY DEF NotesOnRule, Note
  <2> QED
    BY <2>1, <2>2, PublishAdds DEF NotesOf
<1>4. CASE PublishViolation(d)
  <2> DEFINE n == Note(IF remediated[d] THEN "applied" ELSE "failed",
                       d, Rule(d), Port(d))
  <2>1. /\ ~denied[d] /\ pc[d] = "metric" /\ Publish({n})
        /\ UNCHANGED refusals
    BY <1>4 DEF PublishViolation, Shape, Local
  <2>2. /\ n.by = d /\ n.rule = Rule(d)
        /\ n.kind \in {"failed", "manual_action"} => ~remediated[d]
    BY DEF Note
  <2> HIDE DEF n
  <2> QED
    BY <2>1, <2>2, PublishAdds DEF NotesOf
<1>5. CASE SendAlertNextPort(d) \/ SendAlertNextRule(d) \/ SendLastAlert(d)
  <2>1. /\ ~denied[d] /\ pc[d] = "alert" /\ Publish({AlertNote(d)})
        /\ UNCHANGED refusals
    BY <1>5 DEF SendAlertNextPort, SendAlertNextRule, SendLastAlert, Shape, Local
  <2>2. /\ AlertNote(d).by = d /\ AlertNote(d).rule = Rule(d)
        /\ AlertNote(d).kind \in {"failed", "manual_action"} => ~remediated[d]
    BY DEF AlertNote, Note
  <2> QED
    BY <2>1, <2>2, PublishAdds DEF NotesOf
<1> QED
  BY <1>1, <1>2, <1>3, <1>4, <1>5 DEF Handle

(* Only handlers write the history.                                        *)
LEMMA OthersNoNotes ==
  ASSUME [Next]_vars, \A d \in Deliveries : ~Handle(d)
  PROVE  UNCHANGED HistoryVars
BY DEF Next, vars, Authorize, AuthorizeDenied, Redeliver, Deliver, RevokedByHand,
       Start, Expire, Crash, HistoryVars

-----------------------------------------------------------------------------
(* No manufactured failure: a verdict of failure in the making stands for  *)
(* a refusal of EC2, and so does every failure published.                  *)

FailureRefused(d) ==
  pc[d] \in {"metric", "alert"} /\ ~remediated[d] => <<d, Rule(d)>> \in refusals

FailuresReal ==
  /\ Shape
  /\ \A d \in Deliveries : FailureRefused(d)
  /\ NoManufacturedFailure

LEMMA FailuresRealNext == FailuresReal /\ [Next]_vars => FailuresReal'
<1> SUFFICES ASSUME FailuresReal, [Next]_vars PROVE FailuresReal'
  OBVIOUS
<1>1. Shape /\ Shape'
  BY ShapeNext DEF FailuresReal
<1>2. CASE \E d \in Deliveries : Handle(d)
  <2> PICK d \in Deliveries : Handle(d)
    BY <1>2
  <2>1. /\ published \subseteq published'
        /\ refusals \subseteq refusals'
        /\ NotesOf(d)
    BY <1>1, HandleNotes
  <2>2. NoManufacturedFailure'
    <3> SUFFICES ASSUME NEW n \in published',
                        n.kind \in {"failed", "manual_action"}
                 PROVE  <<n.by, n.rule>> \in refusals'
      BY DEF NoManufacturedFailure
    <3>1. CASE n \in published
      BY <2>1, <3>1 DEF FailuresReal, NoManufacturedFailure
    <3>2. CASE n \notin published
      BY <2>1, <3>2 DEF FailuresReal, FailureRefused, NotesOf
    <3> QED
      BY <3>1, <3>2
  <2>3. ASSUME NEW e \in Deliveries PROVE FailureRefused(e)'
    <3>1. CASE e # d
      <4>1. UNCHANGED <<pc[e], remediated[e], request[e], ruleAt[e]>>
        BY <1>1, <3>1
        DEF Handle, ReportBlocked, MissGroupId, FindCompliant, FindViolations,
            RevokeApplied, RevokeAbsent, RevokeRefused, RevokeThrottled,
            RevokeAnswerLost, PublishViolation, SendAlertNextPort,
            SendAlertNextRule, SendLastAlert, Verdict, Goto, Return, Raise,
            Leave, Shape, TypeOK
      <4> QED
        BY <2>1, <4>1 DEF FailuresReal, FailureRefused, Rule
    <3>2. CASE e = d
      <4>1. CASE RevokeRefused(d)
        BY <1>1, <3>2, <4>1 DEF RevokeRefused, Verdict, FailureRefused, Rule
      <4>2. CASE RevokeApplied(d) \/ RevokeAbsent(d)
        BY <1>1, <3>2, <4>2
        DEF RevokeApplied, RevokeAbsent, Verdict, FailureRefused, Shape, TypeOK
      <4>3. CASE PublishViolation(d) \/ SendAlertNextPort(d)
        BY <1>1, <2>1, <3>2, <4>3
        DEF PublishViolation, SendAlertNextPort, Goto, FailuresReal,
            FailureRefused, Rule, Shape, TypeOK
      <4>4. CASE \/ ReportBlocked(d) \/ MissGroupId(d) \/ FindCompliant(d)
                 \/ FindViolations(d) \/ RevokeThrottled(d)
                 \/ RevokeAnswerLost(d) \/ SendAlertNextRule(d)
                 \/ SendLastAlert(d)
        <5>1. pc'[d] \in {"idle", "revoke"}
          BY <1>1, <4>4
          DEF ReportBlocked, MissGroupId, FindCompliant, FindViolations,
              RevokeThrottled, RevokeAnswerLost, SendAlertNextRule,
              SendLastAlert, Goto, Return, Raise, Leave, Shape, TypeOK
        <5> QED
          BY <3>2, <5>1 DEF FailureRefused
      <4> QED
        BY <4>1, <4>2, <4>3, <4>4 DEF Handle
    <3> QED
      BY <3>1, <3>2
  <2> QED
    BY <1>1, <2>2, <2>3 DEF FailuresReal
<1>3. CASE ~ \E d \in Deliveries : Handle(d)
  <2>1. UNCHANGED HistoryVars
    BY <1>3, OthersNoNotes
  <2>2. ASSUME NEW e \in Deliveries PROVE FailureRefused(e)'
    <3> DEFINE Kept == /\ pc'[e] = pc[e]
                       /\ remediated'[e] = remediated[e]
                       /\ ruleAt'[e] = ruleAt[e]
    <3>1. ASSUME NEW d \in Deliveries, NEW q, NEW rejected, Deliver(d, q, rejected)
          PROVE  Kept /\ (request'[e] = request[e] \/ pc[e] = "idle")
      BY <1>1, <3>1 DEF Deliver, Shape, TypeOK, Local
    <3>2. ASSUME NEW d \in Deliveries, Start(d) \/ Expire(d) \/ Crash(d)
          PROVE  pc'[e] \in {"idle", "guard"} \/ (Kept /\ request'[e] = request[e])
      BY <1>1, <3>2 DEF Start, Expire, Crash, Raise, Leave, Shape, TypeOK
    <3>3. ASSUME UNCHANGED vars \/ \E r \in Rules : RevokedByHand(r)
          PROVE  Kept /\ request'[e] = request[e]
      BY <3>3 DEF vars, RevokedByHand
    <3>4. \/ pc'[e] \in {"idle", "guard"}
          \/ Kept /\ (request'[e] = request[e] \/ pc[e] = "idle")
      BY <1>3, <3>1, <3>2, <3>3
      DEF Next, Authorize, AuthorizeDenied, Redeliver
    <3> QED
      BY <2>1, <3>4 DEF FailuresReal, FailureRefused, Rule, HistoryVars
  <2> QED
    BY <1>1, <2>1, <2>2 DEF FailuresReal, NoManufacturedFailure, HistoryVars
<1> QED
  BY <1>2, <1>3

(* Replaying an event never manufactures a failure, whatever throttles,    *)
(* crashes, other deliveries and people do between two attempts: a failure *)
(* metric or a mail for manual action follows a refusal of EC2.            *)
THEOREM FailuresAreReal == Spec => []NoManufacturedFailure
<1>1. Init => FailuresReal
  BY ShapeInit DEF Init, FailuresReal, FailureRefused, NoManufacturedFailure
<1>2. FailuresReal => NoManufacturedFailure
  BY DEF FailuresReal
<1> QED
  BY <1>1, <1>2, FailuresRealNext, PTL DEF Spec

-----------------------------------------------------------------------------
(* No finding for a denied call: a delivery that exists has published      *)
(* about itself only, and nothing but a notice if its call was rejected.   *)

DeniedQuiet ==
  /\ Shape
  /\ NoFindingForDeniedCall
  /\ \A n \in published : status[n.by] # "unsent"

LEMMA NotesHaveAuthor == TypeOK => \A n \in published : n.by \in Deliveries
BY DEF TypeOK, NoteType

(* Once a delivery exists, what it was about and that it exists are fixed. *)
LEMMA EventsFixed ==
  ASSUME Shape, [Next]_vars, NEW d \in Deliveries, status[d] # "unsent"
  PROVE  /\ request'[d] = request[d]
         /\ denied'[d] = denied[d]
         /\ status'[d] # "unsent"
<1>1. ASSUME NEW e \in Deliveries, NEW q, NEW rejected, Deliver(e, q, rejected)
      PROVE  /\ request'[d] = request[d]
             /\ denied'[d] = denied[d]
             /\ status'[d] # "unsent"
  BY <1>1 DEF Deliver, Shape, TypeOK
<1>2. ASSUME NEW e \in Deliveries, Start(e) \/ Expire(e) \/ Crash(e)
      PROVE  UNCHANGED eventVars /\ status'[d] # "unsent"
  BY <1>2 DEF Start, Expire, Crash, Raise, Shape, TypeOK
<1>3. ASSUME NEW e \in Deliveries, Handle(e)
      PROVE  UNCHANGED eventVars /\ status'[d] # "unsent"
  BY <1>3
  DEF Handle, ReportBlocked, MissGroupId, FindCompliant, FindViolations,
      RevokeApplied, RevokeAbsent, RevokeRefused, RevokeThrottled,
      RevokeAnswerLost, PublishViolation, SendAlertNextPort, SendAlertNextRule,
      SendLastAlert, Verdict, Return, Raise, Shape, TypeOK
<1>4. ASSUME UNCHANGED vars \/ \E r \in Rules : RevokedByHand(r)
      PROVE  UNCHANGED <<eventVars, status>>
  BY <1>4 DEF vars, RevokedByHand
<1> QED
  BY <1>1, <1>2, <1>3, <1>4 DEF Next, Authorize, AuthorizeDenied, Redeliver

LEMMA DeniedQuietNext == DeniedQuiet /\ [Next]_vars => DeniedQuiet'
<1> SUFFICES ASSUME DeniedQuiet, [Next]_vars PROVE DeniedQuiet'
  OBVIOUS
<1>1. Shape /\ Shape'
  BY ShapeNext DEF DeniedQuiet
<1>2. ASSUME NEW n \in published
      PROVE  (n.kind # "blocked" => ~denied'[n.by]) /\ status'[n.by] # "unsent"
  <2>1. n.by \in Deliveries
    BY <1>1, NotesHaveAuthor DEF Shape
  <2> QED
    BY <1>1, <2>1, EventsFixed DEF DeniedQuiet, NoFindingForDeniedCall
<1>3. ASSUME NEW n \in published' \ published
      PROVE  (n.kind # "blocked" => ~denied'[n.by]) /\ status'[n.by] # "unsent"
  <2>1. PICK d \in Deliveries : Handle(d)
    BY OthersNoNotes DEF HistoryVars
  <2>2. NotesOf(d)
    BY <1>1, <2>1, HandleNotes
  <2>3. status[d] # "unsent"
    <3>1. pc[d] # "idle"
      BY <2>1
      DEF Handle, ReportBlocked, MissGroupId, FindCompliant, FindViolations,
          RevokeApplied, RevokeAbsent, RevokeRefused, RevokeThrottled,
          RevokeAnswerLost, PublishViolation, SendAlertNextPort,
          SendAlertNextRule, SendLastAlert
    <3> QED
      BY <1>1, <3>1 DEF Shape, Local
  <2> QED
    BY <1>1, <2>2, <2>3, EventsFixed DEF NotesOf
<1> QED
  BY <1>1, <1>2, <1>3 DEF DeniedQuiet, NoFindingForDeniedCall

(* A call AWS rejected is never reported as a finding nor credited as a    *)
(* fix, however often its record is delivered.                             *)
THEOREM DeniedCallsAreNoFindings == Spec => []NoFindingForDeniedCall
<1>1. Init => DeniedQuiet
  BY ShapeInit DEF Init, DeniedQuiet, NoFindingForDeniedCall
<1>2. DeniedQuiet => NoFindingForDeniedCall
  BY DEF DeniedQuiet
<1> QED
  BY <1>1, <1>2, DeniedQuietNext, PTL DEF Spec

-----------------------------------------------------------------------------
(* The handler refines the platform's promise.                             *)

LEMMA HandleIsRunning ==
  ASSUME Shape, NEW d \in Deliveries, Handle(d)
  PROVE  /\ status[d] = "running"
         /\ Return(d) \/ Raise(d) \/ UNCHANGED lambdaVars
<1>1. pc[d] # "idle"
  BY DEF Handle, ReportBlocked, MissGroupId, FindCompliant, FindViolations,
         RevokeApplied, RevokeAbsent, RevokeRefused, RevokeThrottled,
         RevokeAnswerLost, PublishViolation, SendAlertNextPort,
         SendAlertNextRule, SendLastAlert
<1>2. Return(d) \/ Raise(d) \/ UNCHANGED lambdaVars
  BY DEF Handle, ReportBlocked, MissGroupId, FindCompliant, FindViolations,
         RevokeApplied, RevokeAbsent, RevokeRefused, RevokeThrottled,
         RevokeAnswerLost, PublishViolation, SendAlertNextPort,
         SendAlertNextRule, SendLastAlert, Verdict
<1> QED
  BY <1>1, <1>2 DEF Shape, Local

(* Whatever the handler does between two of its calls, Lambda sees a       *)
(* delivery that is accepted, started within the reservation, and ends or  *)
(* is retried as lambda.tf configures.                                     *)
THEOREM HandlerImplementsDelivery == Spec => ImplementsDelivery
<1>1. Init => Platform!Init
  BY DEF Init, Platform!Init
<1>2. Shape /\ [Next]_vars => [Platform!Next]_(Platform!deliveryVars)
  <2> SUFFICES ASSUME Shape, [Next]_vars
               PROVE  [Platform!Next]_(Platform!deliveryVars)
    OBVIOUS
  <2> USE DEF Platform!Next, Platform!deliveryVars
  <2>1. ASSUME NEW d \in Deliveries, NEW q, NEW rejected, Deliver(d, q, rejected)
        PROVE  Platform!Next
    BY <2>1 DEF Deliver, Platform!Accept
  <2>2. ASSUME NEW d \in Deliveries, Start(d)
        PROVE  Platform!Next
    <3>1. Platform!Running = Running
      BY DEF Running, Platform!Running
    <3>2. Platform!Cardinality(Running) = Cardinality(Running)
      BY Zenon DEF Cardinality, Platform!Cardinality
    <3> QED
      BY <2>2, <3>1, <3>2 DEF Start, Platform!Start
  <2>3. ASSUME NEW d \in Deliveries, Expire(d)
        PROVE  Platform!Next
    BY <2>3 DEF Expire, Platform!Expire
  <2>4. ASSUME NEW d \in Deliveries, status[d] = "running", Return(d) \/ Raise(d)
        PROVE  Platform!Next
    BY <2>4 DEF Return, Raise, Platform!Succeed, Platform!Fail
  <2>5. ASSUME NEW d \in Deliveries, Crash(d)
        PROVE  Platform!Next
    BY <2>4, <2>5 DEF Crash
  <2>6. ASSUME NEW d \in Deliveries, Handle(d)
        PROVE  [Platform!Next]_(Platform!deliveryVars)
    BY <2>4, <2>6, HandleIsRunning
  <2>7. ASSUME UNCHANGED vars \/ \E r \in Rules : RevokedByHand(r)
        PROVE  UNCHANGED Platform!deliveryVars
    BY <2>7 DEF vars, RevokedByHand
  <2> QED
    BY <2>1, <2>2, <2>3, <2>5, <2>6, <2>7
    DEF Next, Authorize, AuthorizeDenied, Redeliver
<1> QED
  BY <1>1, <1>2, ShapeInit, ShapeNext, PTL DEF Spec, ImplementsDelivery, Platform!SafetySpec

-----------------------------------------------------------------------------
(* No exposure is forgotten.  The delivery that accounts for an exposed    *)
(* rule goes on accounting for it until the rule is gone: its loop has not *)
(* passed the rule, or stopped there with a failure it will have reported  *)
(* in full before it moves on.                                             *)

(* Mails arrive, and every record that opens the group names it.           *)
Reachable == ~PublishMayFail /\ \A q \in NoGroupId : RevokeList[q] = <<>>

(* The ports of a failed rule that the report loop has passed were mailed. *)
ReportedSoFar(d) ==
  pc[d] \in {"metric", "alert"} /\ ~remediated[d] =>
    \A k \in 1 .. portAt[d] - 1 :
      Note("manual_action", d, Rule(d), Ports[Rule(d)][k]) \in published

Accounted ==
  /\ Shape
  /\ \A d \in Deliveries : ReportedSoFar(d)
  /\ ExposureAccountedFor

LEMMA HistoryGrows ==
  ASSUME Shape, [Next]_vars
  PROVE  published \subseteq published'
BY HandleNotes, OthersNoNotes DEF HistoryVars

(* A step that is not taken by d's handler or Lambda leaves d's own state. *)
LEMMA OtherDeliveryKept ==
  ASSUME Shape, NEW d \in Deliveries, NEW e \in Deliveries, e # d,
         Start(d) \/ Expire(d) \/ Crash(d) \/ Handle(d)
  PROVE  /\ status'[e] = status[e]
         /\ pc'[e] = pc[e]
         /\ ruleAt'[e] = ruleAt[e]
         /\ portAt'[e] = portAt[e]
         /\ remediated'[e] = remediated[e]
         /\ request' = request
         /\ denied' = denied
BY DEF Start, Expire, Crash, Handle, ReportBlocked, MissGroupId, FindCompliant,
       FindViolations, RevokeApplied, RevokeAbsent, RevokeRefused,
       RevokeThrottled, RevokeAnswerLost, PublishViolation, SendAlertNextPort,
       SendAlertNextRule, SendLastAlert, Verdict, Goto, Return, Raise, Leave,
       Shape, TypeOK

(* Both loops of the report keep what they reported.                       *)
LEMMA ReportedNext ==
  ASSUME Reachable, Accounted, [Next]_vars, NEW e \in Deliveries
  PROVE  ReportedSoFar(e)'
<1>1. Shape /\ Shape' /\ published \subseteq published'
  BY ShapeNext, HistoryGrows DEF Accounted
<1>2. ReportedSoFar(e)
  BY DEF Accounted
<1> DEFINE Kept == /\ pc'[e] = pc[e]
                   /\ ruleAt'[e] = ruleAt[e]
                   /\ portAt'[e] = portAt[e]
                   /\ remediated'[e] = remediated[e]
<1>3. ASSUME Kept, request'[e] = request[e] \/ pc[e] = "idle"
      PROVE  ReportedSoFar(e)'
  BY <1>1, <1>2, <1>3 DEF ReportedSoFar, Rule
<1>4. ASSUME NEW d \in Deliveries, NEW q, NEW rejected, Deliver(d, q, rejected)
      PROVE  ReportedSoFar(e)'
  <2>1. Kept /\ (request'[e] = request[e] \/ pc[e] = "idle")
    BY <1>1, <1>4 DEF Deliver, Shape, TypeOK, Local
  <2> QED
    BY <1>3, <2>1
<1>5. ASSUME UNCHANGED vars \/ \E r \in Rules : RevokedByHand(r)
      PROVE  ReportedSoFar(e)'
  <2>1. Kept /\ request'[e] = request[e]
    BY <1>5 DEF vars, RevokedByHand
  <2> QED
    BY <1>3, <2>1
<1>6. ASSUME NEW d \in Deliveries, d # e,
             Start(d) \/ Expire(d) \/ Crash(d) \/ Handle(d)
      PROVE  ReportedSoFar(e)'
  BY <1>1, <1>3, <1>6, OtherDeliveryKept
<1>7. ASSUME Start(e) \/ Expire(e) \/ Crash(e)
      PROVE  ReportedSoFar(e)'
  <2>1. pc'[e] \in {"idle", "guard"}
    BY <1>1, <1>7 DEF Start, Expire, Crash, Raise, Leave, Shape, TypeOK, Local
  <2> QED
    BY <2>1 DEF ReportedSoFar
<1>8. ASSUME Handle(e)
      PROVE  ReportedSoFar(e)'
  <2>1. CASE PublishViolation(e)
    BY <1>1, <1>2, <2>1
    DEF PublishViolation, Goto, ReportedSoFar, Rule, Shape, TypeOK
  <2>2. CASE RevokeApplied(e) \/ RevokeAbsent(e) \/ RevokeRefused(e)
    <3>1. portAt'[e] = 1
      BY <1>1, <2>2
      DEF RevokeApplied, RevokeAbsent, RevokeRefused, Verdict, Shape, TypeOK
    <3> QED
      BY <3>1 DEF ReportedSoFar
  <2>3. CASE SendAlertNextPort(e)
    <3>1. /\ portAt'[e] = portAt[e] + 1 /\ portAt[e] \in Nat \ {0}
          /\ ruleAt' = ruleAt /\ request' = request /\ remediated' = remediated
          /\ pc[e] = "alert"
      BY <1>1, <2>3 DEF SendAlertNextPort, Shape, TypeOK
    <3>2. AlertNote(e) \in published'
      BY <2>3, PublishAdds DEF SendAlertNextPort, Reachable
    <3>3. ~remediated[e] =>
             AlertNote(e) = Note("manual_action", e, Rule(e), Ports[Rule(e)][portAt[e]])
      BY DEF AlertNote, Port
    <3> QED
      BY <1>1, <1>2, <3>1, <3>2, <3>3 DEF ReportedSoFar, Rule
  <2>4. CASE \/ ReportBlocked(e) \/ MissGroupId(e) \/ FindCompliant(e)
             \/ FindViolations(e) \/ RevokeThrottled(e)
             \/ RevokeAnswerLost(e) \/ SendAlertNextRule(e) \/ SendLastAlert(e)
    <3>1. pc'[e] \in {"idle", "revoke"}
      BY <1>1, <2>4
      DEF ReportBlocked, MissGroupId, FindCompliant, FindViolations,
          RevokeThrottled, RevokeAnswerLost, SendAlertNextRule, SendLastAlert,
          Goto, Return, Raise, Leave, Shape, TypeOK
    <3> QED
      BY <3>1 DEF ReportedSoFar
  <2> QED
    BY <1>8, <2>1, <2>2, <2>3, <2>4 DEF Handle
<1> QED
  BY <1>4, <1>5, <1>6, <1>7, <1>8
  DEF Next, Authorize, AuthorizeDenied, Redeliver

LEMMA ToldKept ==
  ASSUME Shape, [Next]_vars, NEW e \in Deliveries, NEW r, Told(e, r)
  PROVE  Told(e, r)'
<1>1. published \subseteq published'
  BY HistoryGrows
<1> QED
  BY <1>1 DEF Told, NotesOnRule, Note

(* The alert of the last port completes the report of a failed rule.       *)
LEMMA LastPortTells ==
  ASSUME Reachable, Accounted, [Next]_vars, NEW e \in Deliveries,
         pc[e] = "alert", ~remediated[e], portAt[e] = Len(Ports[Rule(e)]),
         Publish({AlertNote(e)}), NEW r, r = Rule(e)
  PROVE  Told(e, r)'
<1>1. AlertNote(e) \in published' /\ published \subseteq published'
  BY PublishAdds DEF Reachable
<1>2. AlertNote(e) = Note("manual_action", e, r, Ports[r][portAt[e]])
  BY DEF AlertNote, Port
<1>3. Len(Ports[r]) \in Nat
  BY RuleFound DEF Accounted
<1>4. \A k \in 1 .. Len(Ports[r]) :
        Note("manual_action", e, r, Ports[r][k]) \in published'
  BY <1>1, <1>2, <1>3 DEF Accounted, ReportedSoFar
<1> QED
  BY <1>4 DEF Told, NotesOnRule

(* The handler accounts for a rule while it has not passed it.             *)
LEMMA HandlerAccounts ==
  ASSUME Reachable, Accounted, [Next]_vars, NEW e \in Deliveries, Handle(e),
         NEW r, r \in group, r \in group', AccountsFor(e, r), ~Told(e, r)
  PROVE  AccountsFor(e, r)'
<1>1. Shape /\ Shape' /\ status[e] = "running"
  BY ShapeNext, HandleIsRunning DEF Accounted
<1>2. /\ request'[e] = request[e]
      /\ Covers(e, r)'
      /\ RevokeList[request[e]] \in Seq(Rules)
  BY <1>1, EventsFixed, DetectionAssumption DEF AccountsFor, Covers
<1>3. Ahead(e, r)
  BY <1>1 DEF AccountsFor
<1> DEFINE list == RevokeList[request[e]]
           ahead == \E i \in 1 .. Len(list) :
                      /\ list[i] = r
                      /\ i > ruleAt[e]
                           \/ (i = ruleAt[e] /\ pc[e] \in {"guard", "revoke"})
           failing == /\ Rule(e) = r /\ pc[e] \in {"metric", "alert"}
                      /\ ~remediated[e]
<1>4. ahead \/ failing
  BY <1>1, <1>3 DEF Ahead
<1>5. ASSUME status'[e] \in {"queued", "dlq"}
      PROVE  AccountsFor(e, r)'
  BY <1>2, <1>5 DEF AccountsFor, Ahead
<1>6. ASSUME Raise(e)
      PROVE  AccountsFor(e, r)'
  <2>1. status'[e] \in {"queued", "dlq"}
    BY <1>1, <1>6 DEF Raise, Shape, TypeOK
  <2> QED
    BY <1>5, <2>1
<1>7. CASE ReportBlocked(e) \/ MissGroupId(e) \/ FindCompliant(e)
  <2>1. denied[e] \/ list = <<>>
    BY <1>1, <1>7
    DEF ReportBlocked, MissGroupId, FindCompliant, Reachable, Shape, TypeOK
  <2> QED
    BY <2>1 DEF AccountsFor, Covers
<1>8. ASSUME status'[e] = "running", pc'[e] = pc[e] \/ pc'[e] # "idle",
             \/ /\ ruleAt'[e] = ruleAt[e]
                /\ \E i \in 1 .. Len(list) : list[i] = r /\ i > ruleAt[e]
             \/ /\ ruleAt'[e] \in Nat /\ pc'[e] = "revoke"
                /\ \E i \in 1 .. Len(list) : list[i] = r /\ i >= ruleAt'[e]
             \/ /\ Rule(e)' = r /\ pc'[e] \in {"metric", "alert"}
                /\ ~remediated'[e]
      PROVE  AccountsFor(e, r)'
  <2>1. Ahead(e, r)'
    BY <1>2, <1>8 DEF Ahead
  <2> QED
    BY <1>2, <2>1 DEF AccountsFor
<1>9. CASE FindViolations(e)
  BY <1>1, <1>4, <1>8, <1>9 DEF FindViolations, Goto, Shape, TypeOK
<1>10. CASE RevokeApplied(e) \/ RevokeAbsent(e) \/ RevokeRefused(e)
  <2>1. /\ pc[e] = "revoke" /\ pc'[e] = "metric"
        /\ ruleAt'[e] = ruleAt[e] /\ status'[e] = status[e]
        /\ Rule(e) = r => ~remediated'[e]
    BY <1>1, <1>10
    DEF RevokeApplied, RevokeAbsent, RevokeRefused, Verdict, Goto, Shape, TypeOK
  <2>2. Rule(e)' = Rule(e)
    BY <1>2, <2>1 DEF Rule
  <2>3. \E i \in 1 .. Len(list) : list[i] = r /\ (i > ruleAt[e] \/ i = ruleAt[e])
    BY <1>4, <2>1
  <2>4. ruleAt[e] \in Nat /\ Rule(e) = list[ruleAt[e]]
    BY <1>1 DEF Shape, TypeOK, Rule
  <2> QED
    BY <1>1, <1>8, <2>1, <2>2, <2>3, <2>4
<1>11. CASE RevokeThrottled(e) \/ RevokeAnswerLost(e)
  BY <1>6, <1>11 DEF RevokeThrottled, RevokeAnswerLost
<1>12. CASE PublishViolation(e) \/ SendAlertNextPort(e)
  <2>1. /\ pc[e] \in {"metric", "alert"} /\ pc'[e] \in {"metric", "alert"}
        /\ ruleAt'[e] = ruleAt[e] /\ status'[e] = status[e]
        /\ remediated'[e] = remediated[e]
    BY <1>1, <1>12 DEF PublishViolation, SendAlertNextPort, Goto, Shape, TypeOK
  <2>2. Rule(e)' = Rule(e)
    BY <1>2, <2>1 DEF Rule
  <2> QED
    BY <1>1, <1>4, <1>8, <2>1, <2>2
<1>13. CASE SendAlertNextRule(e) \/ SendLastAlert(e)
  <2>1. /\ pc[e] = "alert" /\ portAt[e] = Len(Ports[Rule(e)])
        /\ Publish({AlertNote(e)})
    BY <1>13 DEF SendAlertNextRule, SendLastAlert
  <2>2. CASE failing
    <3>1. Told(e, r)'
      BY <2>1, <2>2, LastPortTells
    <3> QED
      BY <1>2, <3>1 DEF AccountsFor
  <2>3. CASE ~failing
    <3>1. PICK i \in 1 .. Len(list) : list[i] = r /\ i > ruleAt[e]
      BY <1>4, <2>1, <2>3
    <3>2. ruleAt[e] \in Nat /\ Len(list) \in Nat
      BY <1>1, <1>2 DEF Shape, TypeOK
    <3>3. SendAlertNextRule(e)
      BY <1>13, <3>1, <3>2 DEF SendLastAlert
    <3>4. /\ pc'[e] = "revoke" /\ ruleAt'[e] = ruleAt[e] + 1
          /\ status'[e] = status[e]
      BY <1>1, <3>3 DEF SendAlertNextRule, Goto, Shape, TypeOK
    <3> QED
      BY <1>1, <1>8, <3>1, <3>2, <3>4
  <2> QED
    BY <2>2, <2>3
<1> QED
  BY <1>7, <1>9, <1>10, <1>11, <1>12, <1>13 DEF Handle

(* A delivery that accounts for a rule does so until the rule is gone.     *)
LEMMA AccountingKept ==
  ASSUME Reachable, Accounted, [Next]_vars, NEW e \in Deliveries,
         NEW r, r \in group, r \in group', AccountsFor(e, r)
  PROVE  AccountsFor(e, r)'
<1>1. Shape /\ Shape'
  BY ShapeNext DEF Accounted
<1>2. status[e] # "unsent"
  BY <1>1 DEF AccountsFor, Covers, Shape, Local
<1>3. request'[e] = request[e] /\ Covers(e, r)'
  BY <1>1, <1>2, EventsFixed DEF AccountsFor, Covers
<1>4. CASE Told(e, r)
  BY <1>1, <1>3, <1>4, ToldKept DEF AccountsFor
<1> DEFINE Kept == /\ status'[e] = status[e]
                   /\ pc'[e] = pc[e]
                   /\ ruleAt'[e] = ruleAt[e]
                   /\ remediated'[e] = remediated[e]
<1>5. ASSUME Kept, ~Told(e, r)
      PROVE  AccountsFor(e, r)'
  <2>1. Ahead(e, r) => Ahead(e, r)'
    BY <1>3, <1>5 DEF Ahead, Rule
  <2> QED
    BY <1>3, <1>5, <2>1 DEF AccountsFor
<1>6. ASSUME NEW d \in Deliveries, NEW q, NEW rejected, Deliver(d, q, rejected)
      PROVE  Kept
  BY <1>1, <1>2, <1>6 DEF Deliver, Shape, TypeOK
<1>7. ASSUME UNCHANGED vars \/ \E s \in Rules : RevokedByHand(s)
      PROVE  Kept
  BY <1>7 DEF vars, RevokedByHand
<1>8. ASSUME NEW d \in Deliveries, d # e,
             Start(d) \/ Expire(d) \/ Crash(d) \/ Handle(d)
      PROVE  Kept
  BY <1>1, <1>8, OtherDeliveryKept
<1>9. ASSUME Expire(e) \/ (status[e] = "running" /\ Raise(e))
      PROVE  status'[e] \in {"queued", "dlq"}
  BY <1>1, <1>9 DEF Expire, Raise, Shape, TypeOK
<1>10. ASSUME Start(e)
       PROVE  AccountsFor(e, r)'
  <2>1. /\ status'[e] = "running" /\ pc'[e] = "guard"
        /\ ruleAt'[e] = 1
    BY <1>1, <1>10 DEF Start, Shape, TypeOK, Local
  <2>2. PICK i \in 1 .. Len(RevokeList[request[e]]) : RevokeList[request[e]][i] = r
    BY DEF AccountsFor, Covers
  <2>3. Ahead(e, r)'
    BY <1>3, <2>1, <2>2 DEF Ahead
  <2> QED
    BY <1>3, <2>3 DEF AccountsFor
<1>11. ASSUME Handle(e), ~Told(e, r)
       PROVE  AccountsFor(e, r)'
  BY <1>11, HandlerAccounts
<1> QED
  <2>1. ASSUME status'[e] \in {"queued", "dlq"}
        PROVE  AccountsFor(e, r)'
    BY <1>3, <2>1 DEF AccountsFor, Ahead
  <2> HIDE DEF Kept
  <2> QED
    BY <1>4, <1>5, <1>6, <1>7, <1>8, <1>9, <1>10, <1>11, <2>1
    DEF Next, Authorize, AuthorizeDenied, Redeliver, Crash

(* A rule is opened by a request whose delivery is on its way.             *)
LEMMA NewExposure ==
  ASSUME Shape, [Next]_vars, NEW r \in Exposing, r \in group', r \notin group
  PROVE  \E d \in Deliveries : status[d] = "unsent" /\ AccountsFor(d, r)'
<1>1. ASSUME NEW d \in Deliveries, Handle(d)
      PROVE  group' \subseteq group
  BY <1>1
  DEF Handle, ReportBlocked, MissGroupId, FindCompliant, FindViolations,
      RevokeApplied, RevokeAbsent, RevokeRefused, RevokeThrottled,
      RevokeAnswerLost, PublishViolation, SendAlertNextPort,
      SendAlertNextRule, SendLastAlert
<1>2. ASSUME NEW d \in Deliveries,
             \/ Start(d) \/ Expire(d) \/ Crash(d)
             \/ \E q \in Requests : AuthorizeDenied(d, q)
             \/ \E e \in Deliveries : Redeliver(d, e)
      PROVE  group' = group
  BY <1>2 DEF Start, Expire, Crash, AuthorizeDenied, Redeliver
<1>3. ASSUME UNCHANGED vars \/ \E s \in Rules : RevokedByHand(s)
      PROVE  group' \subseteq group
  BY <1>3 DEF vars, RevokedByHand
<1>4. PICK d \in Deliveries, q \in Requests : Authorize(d, q)
  BY <1>1, <1>2, <1>3 DEF Next
<1>5. /\ request'[d] = q /\ ~denied'[d] /\ status'[d] = "queued"
      /\ r \in Grants[q] \intersect Exposing
  <2>1. Shape /\ Deliver(d, q, FALSE) /\ group' = group \union Grants[q]
    BY <1>4 DEF Authorize
  <2>2. request'[d] = q /\ status'[d] = "queued"
    BY <2>1 DEF Deliver, Shape, TypeOK
  <2>3. denied'[d] = FALSE
    BY <2>1 DEF Deliver, Shape, TypeOK
  <2> QED
    BY <2>1, <2>2, <2>3
<1>6. \E i \in 1 .. Len(RevokeList[q]) : RevokeList[q][i] = r
  <2>1. {RevokeList[q][i] : i \in 1 .. Len(RevokeList[q])}
          = Grants[q] \intersect Exposing
    BY DetectionAssumption
  <2>2. r \in {RevokeList[q][i] : i \in 1 .. Len(RevokeList[q])}
    BY <1>5, <2>1, Zenon
  <2> QED
    BY <2>2, Zenon
<1>7. status[d] = "unsent"
  BY <1>4 DEF Authorize, Deliver
<1> QED
  BY <1>5, <1>6, <1>7 DEF AccountsFor, Covers, Ahead

LEMMA AccountedNext ==
  ASSUME Reachable
  PROVE  Accounted /\ [Next]_vars => Accounted'
<1> SUFFICES ASSUME Accounted, [Next]_vars PROVE Accounted'
  OBVIOUS
<1>1. Shape'
  BY ShapeNext DEF Accounted
<1>2. ASSUME NEW e \in Deliveries PROVE ReportedSoFar(e)'
  BY ReportedNext
<1>3. ASSUME NEW r \in group' \intersect Exposing
      PROVE  \E d \in Deliveries : AccountsFor(d, r)'
  <2>1. CASE r \in group
    <3>1. PICK e \in Deliveries : AccountsFor(e, r)
      BY <1>3, <2>1 DEF Accounted, ExposureAccountedFor
    <3> QED
      BY <1>3, <2>1, <3>1, AccountingKept
  <2>2. CASE r \notin group
    BY <1>3, <2>2, NewExposure DEF Accounted
  <2> QED
    BY <2>1, <2>2
<1> QED
  BY <1>1, <1>2, <1>3 DEF Accounted, ExposureAccountedFor

(* When mails arrive and records name the group, no interleaving of        *)
(* deliveries, retries, redeliveries, crashes and changes by people leaves *)
(* an exposed rule that nobody is going to deal with or was told of.       *)
THEOREM NoExposureForgotten ==
  ASSUME Reachable
  PROVE  Spec => []ExposureAccountedFor
<1>1. Init => Accounted
  BY ShapeInit DEF Init, Accounted, ReportedSoFar, ExposureAccountedFor
<1>2. Accounted => ExposureAccountedFor
  BY DEF Accounted
<1>3. Accounted /\ [Next]_vars => Accounted'
  BY AccountedNext
<1> QED
  BY <1>1, <1>2, <1>3, PTL DEF Spec

-----------------------------------------------------------------------------
(* A finished event was reported in full.  The report loop leaves behind   *)
(* it, for each port of each rule, a metric and a mail; an attempt that    *)
(* begins anew makes no use of what an earlier one reported.               *)

PortReported(d, r, k) ==
  \A kinds \in {Metrics, Alerts} : \E kind \in kinds : Note(kind, d, r, Ports[r][k]) \in published

RuleReported(d, r) == \A k \in 1 .. Len(Ports[r]) : PortReported(d, r, k)

PassedReported(d) ==
  /\ pc[d] \in {"revoke", "metric", "alert"} =>
       \A i \in 1 .. ruleAt[d] - 1 : RuleReported(d, RevokeList[request[d]][i])
  /\ pc[d] \in {"metric", "alert"} =>
       \A k \in 1 .. portAt[d] - 1 : PortReported(d, Rule(d), k)
  /\ pc[d] = "alert" =>
       \E kind \in Metrics : Note(kind, d, Rule(d), Port(d)) \in published
  /\ status[d] = "done" /\ ~denied[d] /\ request[d] \notin NoGroupId =>
       \A i \in 1 .. Len(RevokeList[request[d]]) : RuleReported(d, RevokeList[request[d]][i])

Reporting == Shape /\ \A d \in Deliveries : PassedReported(d)

(* What is published stays published.                                      *)
LEMMA ReportsKept ==
  ASSUME Shape, [Next]_vars, NEW d, NEW r
  PROVE  /\ \A k : PortReported(d, r, k) => PortReported(d, r, k)'
         /\ RuleReported(d, r) => RuleReported(d, r)'
<1>1. published \subseteq published'
  BY HistoryGrows
<1>2. ASSUME NEW k, PortReported(d, r, k)
      PROVE  PortReported(d, r, k)'
  BY <1>1, <1>2 DEF PortReported, Note
<1> QED
  BY <1>2 DEF RuleReported

(* The alert of a port completes its report.                               *)
LEMMA AlertReports ==
  ASSUME ~PublishMayFail, Reporting, [Next]_vars, NEW d \in Deliveries, pc[d] = "alert",
         Publish({AlertNote(d)}), NEW r, r = Rule(d)
  PROVE  \A k \in 1 .. portAt[d] : PortReported(d, r, k)'
<1>1. AlertNote(d) \in published' /\ published \subseteq published'
  BY PublishAdds
<1>2. PassedReported(d) /\ Shape /\ portAt[d] \in Nat
  BY DEF Reporting, Shape, TypeOK
<1>3. ASSUME NEW k, k = portAt[d]
      PROVE  PortReported(d, r, k)'
  <2>1. \E kind \in Metrics : Note(kind, d, r, Ports[r][k]) \in published'
    BY <1>1, <1>2, <1>3 DEF PassedReported, Port
  <2>2. \E kind \in Alerts : Note(kind, d, r, Ports[r][k]) \in published'
    BY <1>1, <1>3 DEF AlertNote, Port, Alerts
  <2>3. \A kinds \in {Metrics, Alerts} :
          \E kind \in kinds : Note(kind, d, r, Ports[r][k]) \in published'
    BY <2>1, <2>2
  <2> QED
    BY <2>3 DEF PortReported, Note
<1>4. ASSUME NEW k \in 1 .. portAt[d] - 1
      PROVE  PortReported(d, r, k)'
  BY <1>2, <1>4, ReportsKept DEF PassedReported
<1>5. \A k \in 1 .. portAt[d] : k = portAt[d] \/ k \in 1 .. portAt[d] - 1
  BY <1>2
<1> QED
  BY <1>3, <1>4, <1>5

LEMMA ReportingHandle ==
  ASSUME ~PublishMayFail, Reporting, [Next]_vars, NEW d \in Deliveries, Handle(d)
  PROVE  PassedReported(d)'
<1>1. Shape /\ Shape' /\ PassedReported(d) /\ status[d] = "running" /\ pc[d] # "idle"
  BY ShapeNext, HandleIsRunning DEF Reporting, Shape, Local
<1>2. /\ request'[d] = request[d] /\ denied'[d] = denied[d]
      /\ ruleAt[d] \in Nat \ {0} /\ portAt[d] \in Nat \ {0}
      /\ request[d] \in Requests /\ Len(RevokeList[request[d]]) \in Nat
  <2>1. ruleAt[d] \in Nat \ {0} /\ portAt[d] \in Nat \ {0}
    BY <1>1 DEF Shape, TypeOK
  <2>2. request[d] \in Requests
    BY <1>1 DEF Shape, Local
  <2>3. Len(RevokeList[request[d]]) \in Nat
    <3>1. RevokeList[request[d]] \in Seq(Rules)
      BY <2>2, DetectionAssumption
    <3> QED
      BY <3>1
  <2>4. request'[d] = request[d] /\ denied'[d] = denied[d]
    BY <1>1, EventsFixed
  <2> QED
    BY <2>1, <2>2, <2>3, <2>4
<1> DEFINE list == RevokeList[request[d]]
<1>3. \A i : RuleReported(d, list[i]) => RuleReported(d, list[i])'
  <2>1. ASSUME NEW i, NEW r, r = list[i], RuleReported(d, r)
        PROVE  RuleReported(d, r)'
    BY <1>1, <2>1, ReportsKept
  <2> QED
    BY <1>2, <2>1
<1> DEFINE Done == status'[d] = "done" /\ ~denied[d] /\ request[d] \notin NoGroupId =>
                     \A i \in 1 .. Len(list) : RuleReported(d, list[i])'
<1>4. ASSUME pc'[d] = "idle", Done
      PROVE  PassedReported(d)'
  BY <1>2, <1>4 DEF PassedReported
<1>5. CASE Raise(d)
  <2>1. pc'[d] = "idle" /\ status'[d] \in {"queued", "dlq"}
    BY <1>1, <1>5 DEF Raise, Leave, Shape, TypeOK
  <2> QED
    BY <1>4, <2>1
<1>6. CASE ReportBlocked(d) \/ MissGroupId(d) \/ FindCompliant(d)
  <2>1. pc'[d] = "idle" /\ (denied[d] \/ request[d] \in NoGroupId \/ list = <<>>)
    BY <1>1, <1>6
    DEF ReportBlocked, MissGroupId, FindCompliant, Return, Leave, Shape, TypeOK
  <2> QED
    BY <1>4, <2>1
<1>7. CASE FindViolations(d)
  <2>1. pc'[d] = "revoke" /\ ruleAt'[d] = 1 /\ status'[d] = "running"
    BY <1>1, <1>7 DEF FindViolations, Goto, Shape, TypeOK, Local
  <2> QED
    BY <2>1 DEF PassedReported
<1>8. ASSUME pc[d] \in {"revoke", "metric", "alert"}, ruleAt'[d] = ruleAt[d],
             status'[d] = "running"
      PROVE  /\ \A i \in 1 .. ruleAt'[d] - 1 : RuleReported(d, list[i])'
             /\ Rule(d)' = Rule(d)
  BY <1>1, <1>2, <1>3, <1>8 DEF PassedReported, Rule
<1>9. CASE RevokeApplied(d) \/ RevokeAbsent(d) \/ RevokeRefused(d)
  <2>1. /\ pc[d] = "revoke" /\ pc'[d] = "metric" /\ ruleAt'[d] = ruleAt[d]
        /\ portAt'[d] = 1 /\ status'[d] = "running"
    BY <1>1, <1>9
    DEF RevokeApplied, RevokeAbsent, RevokeRefused, Verdict, Goto, Shape, TypeOK
  <2> QED
    BY <1>2, <1>8, <2>1 DEF PassedReported
<1>10. CASE RevokeThrottled(d) \/ RevokeAnswerLost(d)
  BY <1>5, <1>10 DEF RevokeThrottled, RevokeAnswerLost
<1>11. CASE PublishViolation(d)
  <2>1. /\ pc[d] = "metric" /\ pc'[d] = "alert" /\ ruleAt'[d] = ruleAt[d]
        /\ portAt'[d] = portAt[d] /\ status'[d] = "running"
    BY <1>1, <1>11 DEF PublishViolation, Goto, Shape, TypeOK
  <2>2. /\ \A i \in 1 .. ruleAt'[d] - 1 : RuleReported(d, list[i])'
        /\ Rule(d)' = Rule(d) /\ Port(d)' = Port(d)
    BY <1>8, <2>1 DEF Port
  <2>3. ASSUME NEW r, r = Rule(d)
        PROVE  \A k \in 1 .. portAt[d] - 1 : PortReported(d, r, k)'
    BY <1>1, <2>1, <2>3, ReportsKept DEF PassedReported
  <2>4. \E kind \in Metrics : Note(kind, d, Rule(d), Port(d)) \in published'
    BY <1>11, PublishAdds DEF PublishViolation, Metrics
  <2> QED
    BY <1>2, <2>1, <2>2, <2>3, <2>4 DEF PassedReported
<1>12. ASSUME SendAlertNextPort(d) \/ SendAlertNextRule(d) \/ SendLastAlert(d), NEW r, r = Rule(d)
       PROVE  /\ pc[d] = "alert"
              /\ \A k \in 1 .. portAt[d] : PortReported(d, r, k)'
  <2>1. pc[d] = "alert" /\ Publish({AlertNote(d)})
    BY <1>12 DEF SendAlertNextPort, SendAlertNextRule, SendLastAlert
  <2> QED
    BY <1>12, <2>1, AlertReports
<1>13. CASE SendAlertNextPort(d)
  <2>1. /\ pc'[d] = "metric" /\ ruleAt'[d] = ruleAt[d]
        /\ portAt'[d] = portAt[d] + 1 /\ status'[d] = "running"
    BY <1>1, <1>13 DEF SendAlertNextPort, Goto, Shape, TypeOK
  <2>2. /\ \A i \in 1 .. ruleAt'[d] - 1 : RuleReported(d, list[i])'
        /\ Rule(d)' = Rule(d)
    BY <1>8, <1>12, <1>13, <2>1
  <2>3. ASSUME NEW r, r = Rule(d)
        PROVE  \A k \in 1 .. portAt'[d] - 1 : PortReported(d, r, k)'
    BY <1>2, <1>12, <1>13, <2>1, <2>3
  <2> QED
    BY <1>2, <2>1, <2>2, <2>3 DEF PassedReported
(* The last port of a rule.                                                *)
<1>14. ASSUME SendAlertNextRule(d) \/ SendLastAlert(d), NEW i \in 1 .. ruleAt[d]
       PROVE  RuleReported(d, list[i])'
  <2>1. pc[d] = "alert" /\ portAt[d] = Len(Ports[Rule(d)])
    BY <1>14 DEF SendAlertNextRule, SendLastAlert
  <2>2. ASSUME NEW r, r = list[i]
        PROVE  RuleReported(d, r)'
    <3>1. CASE i = ruleAt[d]
      <4>1. r = Rule(d)
        BY <2>2, <3>1 DEF Rule
      <4> QED
        BY <1>12, <1>14, <2>1, <4>1 DEF RuleReported
    <3>2. CASE i # ruleAt[d]
      <4>1. i \in 1 .. ruleAt[d] - 1
        BY <1>2, <3>2
      <4> QED
        BY <1>1, <2>1, <2>2, <4>1, ReportsKept DEF PassedReported
    <3> QED
      BY <3>1, <3>2
  <2> QED
    BY <1>2, <2>2
<1>15. CASE SendAlertNextRule(d)
  <2>1. pc'[d] = "revoke" /\ ruleAt'[d] = ruleAt[d] + 1 /\ status'[d] = "running"
    BY <1>1, <1>15 DEF SendAlertNextRule, Goto, Shape, TypeOK
  <2>2. \A i \in 1 .. ruleAt'[d] - 1 : RuleReported(d, list[i])'
    BY <1>2, <1>14, <1>15, <2>1
  <2> QED
    BY <1>2, <2>1, <2>2 DEF PassedReported
<1>16. CASE SendLastAlert(d)
  <2>1. pc'[d] = "idle" /\ ruleAt[d] = Len(list)
    BY <1>1, <1>16 DEF SendLastAlert, Return, Leave, Shape, TypeOK
  <2>2. \A i \in 1 .. Len(list) : RuleReported(d, list[i])'
    BY <1>14, <1>16, <2>1
  <2> QED
    BY <1>4, <2>1, <2>2
<1> QED
  BY <1>6, <1>7, <1>9, <1>10, <1>11, <1>13, <1>15, <1>16 DEF Handle

LEMMA ReportingNext == ~PublishMayFail /\ Reporting /\ [Next]_vars => Reporting'
<1> SUFFICES ASSUME ~PublishMayFail, Reporting, [Next]_vars, NEW d \in Deliveries
             PROVE  PassedReported(d)'
  BY ShapeNext DEF Reporting
<1>1. Shape /\ PassedReported(d)
  BY DEF Reporting
<1>2. \A r : /\ \A k : PortReported(d, r, k) => PortReported(d, r, k)'
             /\ RuleReported(d, r) => RuleReported(d, r)'
  BY <1>1, ReportsKept
<1>3. published \subseteq published'
  BY <1>1, HistoryGrows
<1>4. ASSUME status'[d] = status[d], pc'[d] = pc[d], ruleAt'[d] = ruleAt[d],
             portAt'[d] = portAt[d], request'[d] = request[d], denied'[d] = denied[d]
      PROVE  PassedReported(d)'
  <2>1. Rule(d)' = Rule(d) /\ Port(d)' = Port(d)
    BY <1>4 DEF Rule, Port
  <2> QED
    BY <1>1, <1>2, <1>3, <1>4, <2>1 DEF PassedReported
<1>5. ASSUME NEW e \in Deliveries, NEW q, NEW rejected, Deliver(e, q, rejected)
      PROVE  PassedReported(d)'
  <2>1. CASE e = d
    <3>1. status'[d] = "queued" /\ pc'[d] = "idle"
      BY <1>1, <1>5, <2>1 DEF Deliver, Shape, TypeOK, Local
    <3> QED
      BY <3>1 DEF PassedReported
  <2>2. CASE e # d
    BY <1>1, <1>4, <1>5, <2>2 DEF Deliver, Shape, TypeOK
  <2> QED
    BY <2>1, <2>2
<1>6. ASSUME UNCHANGED vars \/ \E r \in Rules : RevokedByHand(r)
      PROVE  PassedReported(d)'
  BY <1>4, <1>6 DEF vars, RevokedByHand
<1>7. ASSUME NEW e \in Deliveries, e # d,
             Start(e) \/ Expire(e) \/ Crash(e) \/ Handle(e)
      PROVE  PassedReported(d)'
  BY <1>1, <1>4, <1>7, OtherDeliveryKept
<1>8. ASSUME Start(d) \/ Expire(d) \/ Crash(d)
      PROVE  PassedReported(d)'
  <2>1. pc'[d] \in {"idle", "guard"} /\ status'[d] # "done"
    BY <1>1, <1>8 DEF Start, Expire, Crash, Raise, Leave, Shape, TypeOK, Local
  <2> QED
    BY <2>1 DEF PassedReported
<1>9. ASSUME Handle(d)
      PROVE  PassedReported(d)'
  BY <1>9, ReportingHandle
<1> QED
  BY <1>5, <1>6, <1>7, <1>8, <1>9
  DEF Next, Authorize, AuthorizeDenied, Redeliver

(* A fix is never silent, as long as mails and metrics arrive: an event    *)
(* that counts as handled was reported port by port, in a metric and in a  *)
(* mail, whatever its earlier attempts did, and reported, before they were *)
(* cut short.                                                              *)
THEOREM FinishedIsReported ==
  ASSUME ~PublishMayFail
  PROVE  Spec => []FinishedMeansReported
<1>1. Init => Reporting
  BY ShapeInit DEF Init, Reporting, PassedReported
<1>2. Reporting => FinishedMeansReported
  BY DEF Reporting, PassedReported, RuleReported, PortReported, FinishedMeansReported
<1> QED
  BY <1>1, <1>2, ReportingNext, PTL DEF Spec

-----------------------------------------------------------------------------
(* An all-clear is not stale.  The delivery that closed a rule, or found   *)
(* it closed, goes on saying so; if the rule is back by then, somebody     *)
(* asked for it again, and that request's own delivery accounts for it.    *)

AnsweredElsewhere(d) ==
  pc[d] \in {"metric", "alert"} /\ remediated[d] /\ Rule(d) \in group =>
    \E e \in Deliveries \ {d} : AccountsFor(e, Rule(d))

Clearing == Accounted /\ \A d \in Deliveries : AnsweredElsewhere(d)

(* A verdict of success comes with the rule closed.                        *)
LEMMA VerdictCloses ==
  ASSUME Shape, NEW d \in Deliveries, Handle(d), pc'[d] \in {"metric", "alert"}, remediated'[d]
  PROVE  \/ Rule(d)' \notin group'
         \/ pc[d] \in {"metric", "alert"} /\ remediated[d] /\ Rule(d)' = Rule(d)
<1>1. CASE RevokeApplied(d) \/ RevokeAbsent(d)
  <2>1. Rule(d)' = Rule(d) /\ Rule(d) \notin group'
    BY <1>1 DEF RevokeApplied, RevokeAbsent, Verdict, Rule
  <2> QED
    BY <2>1
<1>2. CASE PublishViolation(d) \/ SendAlertNextPort(d)
  BY <1>2 DEF PublishViolation, SendAlertNextPort, Rule
<1>3. ~RevokeRefused(d)
  BY DEF RevokeRefused, Verdict, Shape, TypeOK
<1>4. CASE \/ ReportBlocked(d) \/ MissGroupId(d) \/ FindCompliant(d) \/ FindViolations(d)
           \/ RevokeThrottled(d) \/ RevokeAnswerLost(d)
           \/ SendAlertNextRule(d) \/ SendLastAlert(d)
  <2>1. pc'[d] \in {"idle", "revoke"}
    BY <1>4
    DEF ReportBlocked, MissGroupId, FindCompliant, FindViolations, RevokeThrottled,
        RevokeAnswerLost, SendAlertNextRule, SendLastAlert, Goto, Return, Raise, Leave,
        Shape, TypeOK
  <2> QED
    BY <2>1
<1> QED
  BY <1>1, <1>2, <1>3, <1>4 DEF Handle

LEMMA ClearingNext == Reachable /\ Clearing /\ [Next]_vars => Clearing'
<1> SUFFICES ASSUME Reachable, Clearing, [Next]_vars, NEW d \in Deliveries
             PROVE  AnsweredElsewhere(d)'
  BY AccountedNext DEF Clearing
<1>1. Shape /\ Accounted /\ AnsweredElsewhere(d)
  BY DEF Clearing, Accounted
(* A verdict that stands stays answered.                                   *)
<1>2. ASSUME pc[d] \in {"metric", "alert"}, remediated[d], Rule(d)' = Rule(d)
      PROVE  AnsweredElsewhere(d)'
  <2>1. ASSUME NEW r, r = Rule(d), r \in group'
        PROVE  \E e \in Deliveries \ {d} : AccountsFor(e, r)'
    <3>1. r \in Exposing /\ status[d] = "running"
      BY <1>1, <1>2, <2>1, RuleFound DEF Exposing, Shape, Local
    <3>2. CASE r \in group
      <4>1. PICK e \in Deliveries \ {d} : AccountsFor(e, r)
        BY <1>1, <1>2, <2>1, <3>2 DEF AnsweredElsewhere
      <4> QED
        BY <1>1, <2>1, <3>2, <4>1, AccountingKept
    <3>3. CASE r \notin group
      <4>1. PICK e \in Deliveries : status[e] = "unsent" /\ AccountsFor(e, r)'
        BY <1>1, <2>1, <3>1, <3>3, NewExposure
      <4> QED
        BY <3>1, <4>1
    <3> QED
      BY <3>2, <3>3
  <2>2. \A r : r = Rule(d) /\ r \in group' => \E e \in Deliveries \ {d} : AccountsFor(e, r)'
    BY <2>1
  <2>3. \A r : r = Rule(d)' /\ r \in group' => \E e \in Deliveries \ {d} : AccountsFor(e, r)'
    BY <1>2, <2>2
  <2> QED
    BY <2>3 DEF AnsweredElsewhere
<1>3. ASSUME pc'[d] = pc[d], remediated'[d] = remediated[d], ruleAt'[d] = ruleAt[d],
             request'[d] = request[d]
      PROVE  AnsweredElsewhere(d)'
  <2>1. Rule(d)' = Rule(d)
    BY <1>3 DEF Rule
  <2> QED
    BY <1>2, <1>3, <2>1 DEF AnsweredElsewhere
<1>4. ASSUME pc'[d] \in {"idle", "guard"}
      PROVE  AnsweredElsewhere(d)'
  BY <1>4 DEF AnsweredElsewhere
<1>5. ASSUME NEW e \in Deliveries, NEW q, NEW rejected, Deliver(e, q, rejected)
      PROVE  AnsweredElsewhere(d)'
  <2>1. CASE e = d
    BY <1>1, <1>4, <1>5, <2>1 DEF Deliver, Shape, Local
  <2>2. CASE e # d
    BY <1>1, <1>3, <1>5, <2>2 DEF Deliver, Shape, TypeOK
  <2> QED
    BY <2>1, <2>2
<1>6. ASSUME UNCHANGED vars \/ \E r \in Rules : RevokedByHand(r)
      PROVE  AnsweredElsewhere(d)'
  BY <1>3, <1>6 DEF vars, RevokedByHand
<1>7. ASSUME NEW e \in Deliveries, e # d,
             Start(e) \/ Expire(e) \/ Crash(e) \/ Handle(e)
      PROVE  AnsweredElsewhere(d)'
  BY <1>1, <1>3, <1>7, OtherDeliveryKept
<1>8. ASSUME Start(d) \/ Expire(d) \/ Crash(d)
      PROVE  AnsweredElsewhere(d)'
  <2>1. pc'[d] \in {"idle", "guard"}
    BY <1>1, <1>8 DEF Start, Expire, Crash, Raise, Leave, Shape, TypeOK, Local
  <2> QED
    BY <1>4, <2>1
<1>9. ASSUME Handle(d)
      PROVE  AnsweredElsewhere(d)'
  <2>1. CASE ~(pc'[d] \in {"metric", "alert"} /\ remediated'[d] /\ Rule(d)' \in group')
    BY <2>1 DEF AnsweredElsewhere
  <2>2. CASE pc'[d] \in {"metric", "alert"} /\ remediated'[d] /\ Rule(d)' \in group'
    BY <1>1, <1>2, <1>9, <2>2, VerdictCloses
  <2> QED
    BY <2>1, <2>2
<1> QED
  BY <1>5, <1>6, <1>7, <1>8, <1>9
  DEF Next, Authorize, AuthorizeDenied, Redeliver

(* When a mail calls a rule remediated although the rule is in the group   *)
(* by now, whoever opened it again is answered for: another delivery is    *)
(* going to deal with the rule, told a human, or is in the dead letter     *)
(* queue.                                                                  *)
THEOREM AllClearsAreNotStale ==
  ASSUME Reachable
  PROVE  Spec => AllClearNotStale
<1> DEFINE NotStale ==
      \A d \in Deliveries :
        LET mail == AlertNote(d)
        IN  pc[d] = "alert" /\ remediated[d] /\ pc'[d] # "alert"
              /\ Rule(d) \in group /\ mail \in published'
            => \E e \in Deliveries \ {d} : AccountsFor(e, mail.rule)
<1>1. Init => Clearing
  BY ShapeInit
  DEF Init, Clearing, Accounted, ReportedSoFar, ExposureAccountedFor, AnsweredElsewhere
<1>2. Clearing => NotStale
  <2>1. \A d : AlertNote(d).rule = Rule(d)
    BY DEF AlertNote, Note
  <2> QED
    BY <2>1 DEF Clearing, AnsweredElsewhere
<1> HIDE DEF NotStale
<1>3. Spec => [][NotStale]_vars
  BY <1>1, <1>2, ClearingNext, PTL DEF Spec
<1> QED
  BY <1>3 DEF AllClearNotStale, NotStale

=============================================================================
