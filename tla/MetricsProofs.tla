---------------------------- MODULE MetricsProofs ----------------------------
(***************************************************************************)
(* What the reader's posture counts, whatever was put and lost: CloudWatch *)
(* keeps the calls of the publishers, and of one name and the dimension it *)
(* is searched by, a call adds to one series.                              *)
(***************************************************************************)
EXTENDS Metrics, FoldProofs

-----------------------------------------------------------------------------
(* The calls.                                                              *)

(* What the publishers put.                                                *)
Calls ==
  {publish_violation(c, remediated) : c \in Checks, remediated \in BOOLEAN}
  \union {publish_detection_undetermined(c) : c \in Checks}
  \union {publish_exemption(c) : c \in Checks}
  \union {publish_throttled(c) : c \in Checks}
  \union {publish_protection_weakened(c) : c \in Checks}
  \union {publish_exemption_rejected(c, reason) : c \in Checks, reason \in Reasons}
  \union {publish_attempt_blocked(e, code) : e \in Events, code \in Codes}
  \union {publish_exemption_expiring}

Published == puts \in Seq([series : Calls, period : Nat]) /\ period \in Nat

(* Nothing has been put yet, ...                                           *)
LEMMA PublishedInit ==
  ASSUME MetricsInit
  PROVE  Published
BY DEF MetricsInit, Published

(* ... and what is put is one of the calls.                                *)
LEMMA PublishedNext ==
  ASSUME Published, MetricsNext
  PROVE  Published'
<1>1. ASSUME NEW series \in Calls, Put(series) PROVE Published'
  <2>1. [series |-> series, period |-> period] \in [series : Calls, period : Nat]
    BY DEF Published
  <2> QED
    BY <1>1, <2>1, AppendProperties DEF Put, Published
<1>2. /\ \A c \in Checks : /\ \A remediated \in BOOLEAN : publish_violation(c, remediated) \in Calls
                          /\ publish_detection_undetermined(c) \in Calls
                          /\ publish_exemption(c) \in Calls
                          /\ publish_throttled(c) \in Calls
                          /\ publish_protection_weakened(c) \in Calls
                          /\ \A reason \in Reasons : publish_exemption_rejected(c, reason) \in Calls
      /\ \A e \in Events, code \in Codes : publish_attempt_blocked(e, code) \in Calls
      /\ publish_exemption_expiring \in Calls
  BY DEF Calls
<1>3. CASE Publish
  <2>1. ASSUME NEW c \in Checks, NEW remediated \in BOOLEAN,
               Put(publish_violation(c, remediated))
        PROVE  Published'
    BY <1>1, <1>2, <2>1
  <2>2. ASSUME NEW c \in Checks,
               \/ Put(publish_detection_undetermined(c)) \/ Put(publish_exemption(c))
               \/ Put(publish_throttled(c)) \/ Put(publish_protection_weakened(c))
        PROVE  Published'
    BY <1>1, <1>2, <2>2
  <2>3. ASSUME NEW c \in Checks, NEW reason \in Reasons,
               Put(publish_exemption_rejected(c, reason))
        PROVE  Published'
    BY <1>1, <1>2, <2>3
  <2>4. ASSUME NEW e \in Events, NEW code \in Codes, Put(publish_attempt_blocked(e, code))
        PROVE  Published'
    BY <1>1, <1>2, <2>4
  <2>5. CASE Put(publish_exemption_expiring)
    BY <1>1, <1>2, <2>5
  <2> QED
    BY <1>3, <2>1, <2>2, <2>3, <2>4, <2>5 DEF Publish
<1>4. CASE EndPeriod
  BY <1>4 DEF EndPeriod, Published
<1> QED
  BY <1>3, <1>4 DEF MetricsNext

(* One call names a metric once, and but for the two that carry a second   *)
(* dimension, with the dimension it is searched by.                        *)
CallShape(call) ==
  /\ IsFiniteSet(call)
  /\ \A s, t \in call : s.name = t.name => s = t
  /\ \A s \in call : s.name \notin TwoDimensional =>
       /\ s.name \in DOMAIN Dimension
       /\ DOMAIN s.dims = {Dimension[s.name]}

(* A violation is put with one outcome, and an outcome with a violation.   *)
CallOutcome(call) ==
  LET names == {s.name : s \in call}
  IN  /\ "ViolationsDetected" \in names
           <=> "RemediationsApplied" \in names \/ "RemediationsFailed" \in names
      /\ ~ ("RemediationsApplied" \in names /\ "RemediationsFailed" \in names)

(* Every call is so.                                                       *)
LEMMA CallsAre ==
  ASSUME NEW call \in Calls
  PROVE  CallShape(call) /\ CallOutcome(call)
<1>1. ASSUME NEW name \in {"DetectionsUndetermined", "ExemptionsApplied",
                           "RemediationsThrottled", "ProtectionsWeakened",
                           "ExemptionsExpiringSoon"},
             NEW c, call = {OfCheck(name, c)}
      PROVE  CallShape(call) /\ CallOutcome(call)
  <2> DEFINE s == OfCheck(name, c)
  <2>1. s.name = name /\ DOMAIN s.dims = {"CheckType"}
    BY DEF OfCheck, Series
  <2>2. name \in DOMAIN Dimension /\ Dimension[name] = "CheckType"
    BY DEF Dimension
  <2> HIDE DEF s
  <2>3. call = {s}
    BY <1>1 DEF s
  <2>4. IsFiniteSet(call)
    BY <2>3, FS_Singleton
  <2>5. CallShape(call)
    BY <2>1, <2>2, <2>3, <2>4 DEF CallShape
  <2>6. {t.name : t \in call} = {name}
    BY <2>1, <2>3
  <2>7. CallOutcome(call)
    BY <2>6 DEF CallOutcome
  <2> QED
    BY <2>5, <2>7
<1>2. ASSUME NEW name \in TwoDimensional, NEW dims, call = {Series(name, dims)}
      PROVE  CallShape(call) /\ CallOutcome(call)
  <2> DEFINE s == Series(name, dims)
  <2>1. s.name = name
    BY DEF Series
  <2> HIDE DEF s
  <2>2. call = {s}
    BY <1>2 DEF s
  <2>3. IsFiniteSet(call)
    BY <2>2, FS_Singleton
  <2>4. CallShape(call)
    BY <2>1, <2>2, <2>3 DEF CallShape
  <2>5. {t.name : t \in call} = {name}
    BY <2>1, <2>2
  <2>6. CallOutcome(call)
    BY <2>5 DEF CallOutcome, TwoDimensional
  <2> QED
    BY <2>4, <2>6
<1>3. ASSUME NEW c, NEW remediated \in BOOLEAN, call = publish_violation(c, remediated)
      PROVE  CallShape(call) /\ CallOutcome(call)
  <2> DEFINE name == IF remediated THEN "RemediationsApplied" ELSE "RemediationsFailed"
             s == OfType("ViolationsDetected", c)
             t == OfType(name, c)
  <2>1. /\ s.name = "ViolationsDetected" /\ DOMAIN s.dims = {"ViolationType"}
        /\ t.name = name /\ DOMAIN t.dims = {"ViolationType"}
    BY DEF OfType, Series
  <2>2. /\ name \in {"RemediationsApplied", "RemediationsFailed"}
        /\ call = {s, t}
    BY <1>3 DEF publish_violation
  <2> HIDE DEF s, t, name
  <2>3. /\ "ViolationsDetected" \in DOMAIN Dimension /\ name \in DOMAIN Dimension
        /\ Dimension["ViolationsDetected"] = "ViolationType"
        /\ Dimension[name] = "ViolationType"
    BY <2>2 DEF Dimension
  <2>4. IsFiniteSet(call)
    <3>1. call = {s} \union {t}
      BY <2>2
    <3> QED
      BY <3>1, FS_Singleton, FS_AddElement
  <2>5. name # "ViolationsDetected"
    BY <2>2
  <2>6. CallShape(call)
    BY <2>1, <2>2, <2>3, <2>4, <2>5 DEF CallShape
  <2>7. {u.name : u \in call} = {"ViolationsDetected", name}
    BY <2>1, <2>2
  <2>8. CallOutcome(call)
    BY <2>2, <2>7 DEF CallOutcome
  <2> QED
    BY <2>6, <2>8
<1>4. \/ \E c \in Checks : \E remediated \in BOOLEAN : call = publish_violation(c, remediated)
      \/ \E c \in Checks : call = publish_detection_undetermined(c)
      \/ \E c \in Checks : call = publish_exemption(c)
      \/ \E c \in Checks : call = publish_throttled(c)
      \/ \E c \in Checks : call = publish_protection_weakened(c)
      \/ \E c \in Checks : \E reason \in Reasons : call = publish_exemption_rejected(c, reason)
      \/ \E e \in Events : \E code \in Codes : call = publish_attempt_blocked(e, code)
      \/ call = publish_exemption_expiring
  BY DEF Calls
<1>5. ASSUME NEW c \in Checks, call = publish_detection_undetermined(c)
      PROVE  CallShape(call) /\ CallOutcome(call)
  BY <1>1, <1>5 DEF publish_detection_undetermined
<1>6. ASSUME NEW c \in Checks, call = publish_exemption(c)
      PROVE  CallShape(call) /\ CallOutcome(call)
  BY <1>1, <1>6 DEF publish_exemption
<1>7. ASSUME NEW c \in Checks, call = publish_throttled(c)
      PROVE  CallShape(call) /\ CallOutcome(call)
  BY <1>1, <1>7 DEF publish_throttled
<1>8. ASSUME NEW c \in Checks, call = publish_protection_weakened(c)
      PROVE  CallShape(call) /\ CallOutcome(call)
  BY <1>1, <1>8 DEF publish_protection_weakened
<1>9. ASSUME call = publish_exemption_expiring
      PROVE  CallShape(call) /\ CallOutcome(call)
  BY <1>1, <1>9 DEF publish_exemption_expiring
<1>10. ASSUME NEW c \in Checks, NEW reason \in Reasons,
              call = publish_exemption_rejected(c, reason)
       PROVE  CallShape(call) /\ CallOutcome(call)
  <2>1. "ExemptionsRejected" \in TwoDimensional
    BY DEF TwoDimensional
  <2> QED
    BY <1>2, <1>10, <2>1 DEF publish_exemption_rejected
<1>11. ASSUME NEW e \in Events, NEW code \in Codes,
              call = publish_attempt_blocked(e, code)
       PROVE  CallShape(call) /\ CallOutcome(call)
  <2>1. "ViolationAttemptsBlocked" \in TwoDimensional
    BY DEF TwoDimensional
  <2> QED
    BY <1>2, <1>11, <2>1 DEF publish_attempt_blocked
<1> QED
  BY <1>3, <1>4, <1>5, <1>6, <1>7, <1>8, <1>9, <1>10, <1>11

-----------------------------------------------------------------------------
(* The sums.                                                               *)

(* The calls of a window that added to a series.                           *)
Counted(s, hours) ==
  {i \in DOMAIN puts : s \in puts[i].series /\ puts[i].period \in Window(hours)}

(* What CloudWatch keeps are the calls, and there is an end to them.       *)
LEMMA PutsAre ==
  ASSUME Published
  PROVE  /\ IsFiniteSet(DOMAIN puts)
         /\ \A i \in DOMAIN puts : /\ puts[i].series \in Calls
                                   /\ CallShape(puts[i].series)
                                   /\ CallOutcome(puts[i].series)
<1>1. DOMAIN puts = 1 .. Len(puts) /\ Len(puts) \in Nat
  BY LenProperties DEF Published
<1>2. IsFiniteSet(1 .. Len(puts))
  BY <1>1, FS_Interval
<1>3. ASSUME NEW i \in DOMAIN puts PROVE puts[i].series \in Calls
  <2>1. puts[i] \in [series : Calls, period : Nat]
    BY <1>1, <1>3, ElementOfSeq DEF Published
  <2> QED
    BY <2>1
<1>4. ASSUME NEW i \in DOMAIN puts
      PROVE  CallShape(puts[i].series) /\ CallOutcome(puts[i].series)
  BY <1>3, <1>4, CallsAre
<1> QED
  BY <1>1, <1>2, <1>3, <1>4

(* A search finds finitely many series.                                    *)
LEMMA SearchIsFinite ==
  ASSUME Published, NEW name
  PROVE  IsFiniteSet(Search(name))
<1> DEFINE All == {puts[i].series : i \in DOMAIN puts}
           f == [i \in DOMAIN puts |-> puts[i].series]
<1>1. IsFiniteSet(All)
  <2>1. f \in Surjection(DOMAIN puts, All)
    BY DEF Surjection
  <2> HIDE DEF f, All
  <2> QED
    BY <2>1, PutsAre, FS_Surjection
<1>2. \A call \in All : IsFiniteSet(call)
  BY PutsAre DEF CallShape
<1>3. IsFiniteSet(UNION All)
  <2> HIDE DEF All
  <2> QED
    BY <1>1, <1>2, FS_UNION
<1>4. Search(name) \subseteq UNION All
  BY DEF Search
<1> HIDE DEF All
<1> QED
  BY <1>3, <1>4, FS_Subset

(* A total is the number of the calls that added to a series searched: no  *)
(* call added to two.                                                      *)
LEMMA TotalCounts ==
  ASSUME Published, NEW name, NEW hours
  PROVE  Total(name, hours)
           = Cardinality(UNION {Counted(s, hours) : s \in Search(name)})
<1> DEFINE S == Search(name)
           U == DOMAIN puts
           A == [s \in S |-> Counted(s, hours)]
           N == [s \in S |-> Cardinality(A[s])]
           Over(g) == [T \in SUBSET S |->
                         IF T = {} THEN 0
                         ELSE LET x == CHOOSE y \in T : TRUE
                              IN  SumOf(x, Window(hours)) + g[T \ {x}]]
           Is(g) == g = Over(g)
           total == CHOOSE g : Is(g)
<1>1. Total(name, hours) = total[S]
  BY Zenon DEF Total, MapThenSumSet, MapThenFoldSet
<1>2. IsFiniteSet(S) /\ IsFiniteSet(U) /\ A \in [S -> SUBSET U]
  BY SearchIsFinite, PutsAre DEF Counted
<1>3. N \in [S -> Nat]
  <2>1. ASSUME NEW s \in S PROVE Cardinality(A[s]) \in Nat
    <3> HIDE DEF S, U, A
    <3> QED
      BY <1>2, FS_Subset, FS_CardinalityType
  <2> QED
    BY <2>1
<1>4. \A x, y \in S : x # y => A[x] \intersect A[y] = {}
  <2>1. SUFFICES ASSUME NEW x \in S, NEW y \in S, NEW i \in A[x], i \in A[y]
                 PROVE  x = y
    OBVIOUS
  <2>2. i \in DOMAIN puts /\ x \in puts[i].series /\ y \in puts[i].series
    BY <2>1 DEF Counted
  <2>3. x.name = y.name
    BY DEF Search
  <2> QED
    BY <2>2, <2>3, PutsAre DEF CallShape
<1>5. \A g : Summing(g, S, N) <=> Is(g)
  <2>1. \A s \in S : N[s] = SumOf(s, Window(hours))
    BY DEF SumOf, Counted
  <2> QED
    BY <2>1 DEF Summing
<1>6. Is(total)
  <2>1. PICK sum : Summing(sum, S, N)
    <3> HIDE DEF S, A, N
    <3> QED
      BY <1>2, <1>3, SummingDefined
  <2>2. Is(sum)
    BY <1>5, <2>1
  <2> HIDE DEF Is
  <2> QED
    BY <2>2
<1>7. total[S] = Cardinality(UNION {A[s] : s \in S})
  <2>1. Summing(total, S, [s \in S |-> Cardinality(A[s])])
    BY <1>6, <1>5
  <2> HIDE DEF S, U, A, N, total
  <2> QED
    BY <1>2, <1>4, <2>1, SumOfSizes
<1>8. UNION {A[s] : s \in S} = UNION {Counted(s, hours) : s \in S}
  OBVIOUS
<1> QED
  BY <1>1, <1>7, <1>8

(* The calls of a window that put something under a name.                  *)
StoredCalls(name, hours) ==
  {i \in DOMAIN puts : /\ name \in {s.name : s \in puts[i].series}
                       /\ puts[i].period \in Window(hours)}

(* But for the two with a second dimension, a total is all that was put.   *)
LEMMA TotalIsStored ==
  ASSUME Published, NEW name, name \notin TwoDimensional, NEW hours
  PROVE  Total(name, hours) = Cardinality(StoredCalls(name, hours))
<1>1. \A i \in DOMAIN puts : \A s \in puts[i].series :
        s.name = name => s \in Search(name)
  BY PutsAre DEF CallShape, Search
<1>2. UNION {Counted(s, hours) : s \in Search(name)} = StoredCalls(name, hours)
  <2>1. ASSUME NEW s \in Search(name), NEW i \in Counted(s, hours)
        PROVE  i \in StoredCalls(name, hours)
    BY DEF Search, Counted, StoredCalls
  <2>2. ASSUME NEW i \in StoredCalls(name, hours)
        PROVE  \E s \in Search(name) : i \in Counted(s, hours)
    <3>1. PICK s \in puts[i].series : s.name = name
      BY DEF StoredCalls
    <3> QED
      BY <1>1, <3>1 DEF StoredCalls, Counted
  <2> QED
    BY <2>1, <2>2
<1> QED
  BY <1>2, TotalCounts

(* Whatever calls CloudWatch lost, a posture over any window shows all     *)
(* that was put, and what was detected is what was fixed and what failed.  *)
THEOREM PostureOfThePublished ==
  ASSUME Published
  PROVE  PostureCounts
<1>1. ASSUME NEW hours \in Hours, NEW name \in Names \ TwoDimensional
      PROVE  name \in DOMAIN Dimension /\ Total(name, hours) = Stored(name, hours)
  <2>1. PICK i \in DOMAIN puts : \E s \in puts[i].series : s.name = name
    BY DEF Names
  <2>2. name \in DOMAIN Dimension
    BY <2>1, PutsAre DEF CallShape
  <2>3. Stored(name, hours) = Cardinality(StoredCalls(name, hours))
    BY DEF Stored, StoredCalls
  <2> QED
    BY <2>2, <2>3, TotalIsStored
<1>2. ASSUME NEW hours \in Hours
      PROVE  Total("ViolationsDetected", hours)
               = Total("RemediationsApplied", hours) + Total("RemediationsFailed", hours)
  <2> DEFINE Of(name) == StoredCalls(name, hours)
             D == Of("ViolationsDetected")
             R == Of("RemediationsApplied")
             F == Of("RemediationsFailed")
  <2>1. D = R \union F /\ R \intersect F = {}
    <3>1. ASSUME NEW i \in DOMAIN puts
          PROVE  /\ i \in D <=> i \in R \/ i \in F
                 /\ ~ (i \in R /\ i \in F)
      BY PutsAre DEF CallOutcome, StoredCalls
    <3>2. D \subseteq DOMAIN puts /\ R \subseteq DOMAIN puts /\ F \subseteq DOMAIN puts
      BY DEF StoredCalls
    <3> HIDE DEF D, R, F
    <3> QED
      BY <3>1, <3>2
  <2>2. /\ Total("ViolationsDetected", hours) = Cardinality(D)
        /\ Total("RemediationsApplied", hours) = Cardinality(R)
        /\ Total("RemediationsFailed", hours) = Cardinality(F)
    BY TotalIsStored DEF TwoDimensional
  <2>3. IsFiniteSet(R) /\ IsFiniteSet(F)
    <3>1. R \subseteq DOMAIN puts /\ F \subseteq DOMAIN puts
      BY DEF StoredCalls
    <3> HIDE DEF R, F
    <3> QED
      BY <3>1, PutsAre, FS_Subset
  <2>4. Cardinality(R \intersect F) = 0 /\ Cardinality(R) \in Nat /\ Cardinality(F) \in Nat
    <3> HIDE DEF D, R, F
    <3> QED
      BY <2>1, <2>3, FS_EmptySet, FS_CardinalityType
  <2>5. Cardinality(R \union F) = Cardinality(R) + Cardinality(F) - Cardinality(R \intersect F)
    <3> HIDE DEF D, R, F
    <3> QED
      BY <2>3, FS_Union
  <2> HIDE DEF D, R, F
  <2> QED
    BY <2>1, <2>2, <2>4, <2>5
<1> QED
  BY <1>1, <1>2 DEF PostureCounts

=============================================================================
