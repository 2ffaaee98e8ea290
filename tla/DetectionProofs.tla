-------------------------- MODULE DetectionProofs --------------------------
(***************************************************************************)
(* Detection, for every request EC2 may grant: is_public_ingress finds one *)
(* violation per exposed rule and port, group_by_rule loses and repeats    *)
(* none, and _revoke_rule asks for the very rules EC2 holds.               *)
(***************************************************************************)
EXTENDS SgDetection, FoldProofs

-----------------------------------------------------------------------------
(* Grouping, of violations whatever they are about.                        *)

(* Groups over the ports P and the rules R.                                *)
Groupings(P, R) == Seq([rule : R, ports : Seq(P)])

(* A violation put into groups makes groups.                               *)
LEMMA AddToGroupsType ==
  ASSUME NEW P, NEW R, NEW groups \in Groupings(P, R),
         NEW violation \in [port : P, rule : R]
  PROVE  AddToGroups(groups, violation) \in Groupings(P, R)
<1> DEFINE G == [rule : R, ports : Seq(P)]
<1>1. /\ Len(groups) \in Nat /\ DOMAIN groups = 1 .. Len(groups)
      /\ \A i \in 1 .. Len(groups) : groups[i] \in G
  BY LenProperties, ElementOfSeq DEF Groupings
<1>2. CASE \E i \in DOMAIN groups : groups[i].rule = violation.rule
  <2> DEFINE new(i) == IF groups[i].rule = violation.rule
                       THEN [groups[i] EXCEPT !.ports = Append(@, violation.port)]
                       ELSE groups[i]
  <2>1. ASSUME NEW i \in 1 .. Len(groups) PROVE new(i) \in G
    <3>1. groups[i] \in G /\ groups[i].ports \in Seq(P)
      BY <1>1
    <3>2. Append(groups[i].ports, violation.port) \in Seq(P)
      BY <3>1, AppendProperties
    <3> QED
      BY <3>1, <3>2
  <2>2. AddToGroups(groups, violation) = [i \in 1 .. Len(groups) |-> new(i)]
    BY <1>1, <1>2 DEF AddToGroups
  <2>3. [i \in 1 .. Len(groups) |-> new(i)] \in [1 .. Len(groups) -> G]
    BY <2>1
  <2>4. [i \in 1 .. Len(groups) |-> new(i)] \in Seq(G)
    <3> HIDE DEF new, G
    <3> QED
      BY <1>1, <2>3, SeqDef
  <2> QED
    BY <2>2, <2>4 DEF Groupings
<1>3. CASE ~ \E i \in DOMAIN groups : groups[i].rule = violation.rule
  <2>1. <<violation.port>> \in Seq(P)
    OBVIOUS
  <2>2. [rule |-> violation.rule, ports |-> <<violation.port>>] \in G
    BY <2>1
  <2> QED
    BY <1>3, <2>2, AppendProperties DEF AddToGroups, Groupings
<1> QED
  BY <1>2, <1>3

(* The last of the first numbers.                                          *)
LEMMA MaxOfInterval ==
  ASSUME NEW n \in Nat \ {0}
  PROVE  Max(1 .. n) = n
BY DEF Max

(* group_by_rule takes the violations one after the other, from no group   *)
(* on.                                                                     *)
LEMMA GroupsUnfold ==
  ASSUME NEW P, NEW R, NEW v \in Seq([port : P, rule : R])
  PROVE  \E G \in [0 .. Len(v) -> Groupings(P, R)] :
           /\ G[0] = <<>>
           /\ \A i \in 1 .. Len(v) : G[i] = AddToGroups(G[i - 1], v[i])
           /\ GroupByRule(v) = G[Len(v)]
<1> DEFINE n == Len(v)
           S == 1 .. n
           V == Groupings(P, R)
           base == <<>>
           pick == [T \in SUBSET S |-> Max(T)]
           F == [p \in S \X V |-> AddToGroups(p[2], v[p[1]])]
           Next(g, T) == IF T = {} THEN <<>>
                         ELSE AddToGroups(g[T \ {Max(T)}], v[Max(T)])
           Is(g) == g = [T \in SUBSET S |-> Next(g, T)]
           k == CHOOSE g : Is(g)
<1>1. n \in Nat /\ DOMAIN v = S /\ \A i \in S : v[i] \in [port : P, rule : R]
  BY LenProperties, ElementOfSeq
<1>2. F \in [S \X V -> V] /\ base \in V
  <2>1. base \in V
    BY DEF Groupings
  <2>2. ASSUME NEW p \in S \X V PROVE AddToGroups(p[2], v[p[1]]) \in V
    <3>1. p[2] \in V /\ v[p[1]] \in [port : P, rule : R]
      BY <1>1
    <3> HIDE DEF V
    <3> QED
      BY <3>1, AddToGroupsType DEF V
  <2> QED
    BY <2>1, <2>2
<1>3. IsFiniteSet(S)
  BY <1>1, FS_Interval
<1>4. ASSUME NEW T \in SUBSET S, T # {} PROVE Max(T) \in T
  <2>1. IsFiniteSet(T) /\ T \in SUBSET Nat
    <3>1. T \subseteq S /\ S \subseteq Nat
      OBVIOUS
    <3> HIDE DEF S
    <3> QED
      BY <1>3, <3>1, FS_Subset
  <2>2. \E m \in T : \A j \in T : j <= m
    BY <1>4, <2>1, LastOf
  <2>3. \E m \in T : \A j \in T : m >= j
    BY <2>1, <2>2
  <2> QED
    BY <2>3 DEF Max
<1>5. \A T \in SUBSET S : T # {} => pick[T] \in T
  BY <1>4
<1>6. PICK g \in [SUBSET S -> V] : Folding(g, S, base, F, pick)
  <2> HIDE DEF S, V, base, pick, F
  <2> QED
    BY <1>2, <1>3, <1>5, FoldDefined
<1>7. Is(g)
  <2>1. ASSUME NEW T \in SUBSET S, T # {} PROVE g[T] = Next(g, T)
    <3> DEFINE x == Max(T)
    <3>1. pick[T] = x /\ x \in S /\ T \ {x} \in SUBSET S
      BY <1>4, <2>1
    <3>2. g[T] = F[<<x, g[T \ {x}]>>]
      BY <1>6, <2>1, <3>1 DEF Folding
    <3>3. <<x, g[T \ {x}]>> \in S \X V
      <4> HIDE DEF x, V, S
      <4> QED
        BY <1>6, <3>1
    <3>4. F[<<x, g[T \ {x}]>>] = AddToGroups(g[T \ {x}], v[x])
      <4> HIDE DEF x, V, S
      <4> QED
        BY <3>3
    <3> QED
      BY <2>1, <3>2, <3>4
  <2>2. g[{}] = <<>>
    BY <1>6 DEF Folding
  <2>3. ASSUME NEW T \in SUBSET S PROVE g[T] = Next(g, T)
    <3> HIDE DEF Next
    <3>1. CASE T = {}
      BY <2>2, <3>1 DEF Next
    <3>2. CASE T # {}
      BY <2>1, <3>2
    <3> QED
      BY <3>1, <3>2
  <2> HIDE DEF Next
  <2> QED
    BY <1>6, <2>3
<1>8. Is(k)
  <2> HIDE DEF Is
  <2> QED
    BY <1>7
<1>9. GroupByRule(v) = k[S]
  BY <1>1 DEF GroupByRule, FoldLeft, MapThenFoldSet
<1> HIDE DEF k
<1> DEFINE G == [i \in 0 .. n |-> k[1 .. i]]
<1>10. \A T \in SUBSET S : k[T] = Next(k, T)
  BY <1>8
<1>11. G[0] = <<>>
  <2>1. 1 .. 0 = {} /\ {} \in SUBSET S
    OBVIOUS
  <2>2. k[1 .. 0] = <<>>
    BY <1>10, <2>1
  <2> QED
    BY <1>1, <2>2
<1>12. ASSUME NEW i \in 1 .. n PROVE G[i] = AddToGroups(G[i - 1], v[i])
  <2>1. /\ 1 .. i \in SUBSET S /\ 1 .. i # {} /\ i \in Nat \ {0}
        /\ (1 .. i) \ {i} = 1 .. (i - 1)
        /\ i \in 0 .. n /\ i - 1 \in 0 .. n
    BY <1>1
  <2>2. Max(1 .. i) = i
    BY <2>1, MaxOfInterval
  <2>3. k[1 .. i] = AddToGroups(k[(1 .. i) \ {i}], v[i])
    BY <1>10, <2>1, <2>2
  <2> QED
    BY <2>1, <2>3
<1>13. \A i \in 0 .. n : G[i] \in V
  <2> DEFINE Right == {i \in Nat : i <= n => G[i] \in V}
  <2>1. 0 \in Right
    BY <1>2, <1>11
  <2>2. ASSUME NEW i \in Nat, i \in Right PROVE i + 1 \in Right
    <3>1. SUFFICES ASSUME i + 1 <= n PROVE G[i + 1] \in V
      OBVIOUS
    <3>2. i + 1 \in 1 .. n /\ (i + 1) - 1 = i /\ G[i] \in V
      BY <1>1, <2>2, <3>1
    <3>3. G[i + 1] = AddToGroups(G[i], v[i + 1])
      BY <1>12, <3>2
    <3> HIDE DEF G
    <3> QED
      BY <1>1, <3>2, <3>3, AddToGroupsType
  <2>3. Nat \subseteq Right
    <3> HIDE DEF Right
    <3> QED
      BY <2>1, <2>2, NaturalInduct
  <2>4. ASSUME NEW i \in 0 .. n PROVE G[i] \in V
    <3>1. i \in Nat /\ i <= n
      BY <1>1
    <3> HIDE DEF G, V
    <3> QED
      BY <2>3, <3>1
  <2> QED
    BY <2>4
<1>14. GroupByRule(v) = G[n]
  BY <1>1, <1>9
<1>15. G \in [0 .. n -> V]
  <2> HIDE DEF V
  <2> QED
    BY <1>13
<1> HIDE DEF G
<1> QED
  BY <1>11, <1>12, <1>14, <1>15

Less(P) == {pair \in P \X P : pair[1] < pair[2]}

(* The groups hold the violations seen, and nothing else: one group per    *)
(* rule, with the ports it was seen with in ascending order.               *)
Recorded(groups, seen, P) ==
  /\ \A i, j \in DOMAIN groups : groups[i].rule = groups[j].rule => i = j
  /\ \A w \in seen :
       \E i \in DOMAIN groups : /\ groups[i].rule = w.rule
                                /\ w.port \in ToSet(groups[i].ports)
  /\ \A i \in DOMAIN groups :
       /\ groups[i].ports # <<>>
       /\ Ordered(groups[i].ports, Less(P))
       /\ \A p \in ToSet(groups[i].ports) :
            [port |-> p, rule |-> groups[i].rule] \in seen

(* One more violation, of a port above those its rule was seen with.       *)
LEMMA RecordedStep ==
  ASSUME NEW P, P \subseteq Int, NEW R, NEW groups \in Groupings(P, R),
         NEW seen \in SUBSET [port : P, rule : R],
         NEW violation \in [port : P, rule : R],
         Recorded(groups, seen, P),
         \A w \in seen : w.rule = violation.rule => w.port < violation.port
  PROVE  Recorded(AddToGroups(groups, violation), seen \union {violation}, P)
<1> DEFINE n == Len(groups)
           next == AddToGroups(groups, violation)
           later == seen \union {violation}
<1>1. /\ n \in Nat /\ DOMAIN groups = 1 .. n
      /\ \A i \in 1 .. n : groups[i] \in [rule : R, ports : Seq(P)]
  BY LenProperties, ElementOfSeq DEF Groupings
<1>2. /\ violation = [port |-> violation.port, rule |-> violation.rule]
      /\ violation.port \in P
  OBVIOUS
<1>3. CASE \E i \in DOMAIN groups : groups[i].rule = violation.rule
  <2>1. PICK at \in 1 .. n : groups[at].rule = violation.rule
    BY <1>1, <1>3
  <2>2. \A i \in 1 .. n : i # at => groups[i].rule # violation.rule
    BY <1>1, <2>1 DEF Recorded
  <2> DEFINE ports == Append(groups[at].ports, violation.port)
  <2>3. /\ DOMAIN next = 1 .. n
        /\ \A i \in 1 .. n : /\ next[i].rule = groups[i].rule
                             /\ i # at => next[i].ports = groups[i].ports
        /\ next[at].ports = ports
    <3>1. next = [i \in 1 .. n |->
                    IF groups[i].rule = violation.rule
                    THEN [groups[i] EXCEPT !.ports = Append(@, violation.port)]
                    ELSE groups[i]]
      BY <1>1, <1>3 DEF AddToGroups
    <3> HIDE DEF next
    <3>2. ASSUME NEW i \in 1 .. n, i # at PROVE next[i] = groups[i]
      BY <2>2, <3>1, <3>2
    <3>3. next[at] = [groups[at] EXCEPT !.ports = ports]
      BY <2>1, <3>1
    <3>4. next[at].rule = groups[at].rule /\ next[at].ports = ports
      BY <1>1, <3>3
    <3> QED
      BY <3>1, <3>2, <3>4
  <2>4. ToSet(ports) = ToSet(groups[at].ports) \union {violation.port}
    BY <1>1, <1>2, ElementsOfAppend
  <2>5. ASSUME NEW p \in ToSet(groups[at].ports)
        PROVE  <<p, violation.port>> \in Less(P)
    <3>1. [port |-> p, rule |-> violation.rule] \in seen
      BY <1>1, <2>1 DEF Recorded
    <3>2. p < violation.port /\ p \in P
      BY <3>1
    <3> QED
      BY <1>2, <3>2 DEF Less
  <2>6. Ordered(ports, Less(P))
    <3>1. Ordered(groups[at].ports, Less(P)) /\ groups[at].ports \in Seq(P)
      BY <1>1 DEF Recorded
    <3> QED
      BY <1>2, <2>5, <3>1, OrderedAppend
  <2>7. ports # <<>>
    <3>1. violation.port \in ToSet(ports)
      BY <2>4
    <3>2. ToSet(<<>>) = {}
      BY DEF ToSet
    <3> QED
      BY <3>1, <3>2
  <2> HIDE DEF next, ports
  <2>8. \A i, j \in DOMAIN next : next[i].rule = next[j].rule => i = j
    BY <1>1, <2>3 DEF Recorded
  <2>9. ASSUME NEW w \in later
        PROVE  \E i \in DOMAIN next : /\ next[i].rule = w.rule
                                      /\ w.port \in ToSet(next[i].ports)
    <3>1. CASE w = violation
      BY <2>1, <2>3, <2>4, <3>1
    <3>2. CASE w # violation
      <4>1. PICK i \in 1 .. n : /\ groups[i].rule = w.rule
                                /\ w.port \in ToSet(groups[i].ports)
        BY <1>1, <3>2 DEF Recorded
      <4>2. ToSet(groups[i].ports) \subseteq ToSet(next[i].ports)
        BY <2>3, <2>4
      <4> QED
        BY <2>3, <4>1, <4>2
    <3> QED
      BY <3>1, <3>2
  <2>10. ASSUME NEW i \in DOMAIN next
         PROVE  /\ next[i].ports # <<>>
                /\ Ordered(next[i].ports, Less(P))
                /\ \A p \in ToSet(next[i].ports) :
                     [port |-> p, rule |-> next[i].rule] \in later
    <3>1. CASE i = at
      <4>1. ASSUME NEW p \in ToSet(ports)
            PROVE  [port |-> p, rule |-> groups[at].rule] \in later
        <5>1. CASE p = violation.port
          BY <1>2, <2>1, <5>1
        <5>2. CASE p # violation.port
          BY <1>1, <2>1, <2>4, <5>2 DEF Recorded
        <5> QED
          BY <5>1, <5>2
      <4> QED
        BY <2>3, <2>6, <2>7, <3>1, <4>1
    <3>2. CASE i # at
      BY <1>1, <2>3, <3>2 DEF Recorded
    <3> QED
      BY <3>1, <3>2
  <2> QED
    BY <2>8, <2>9, <2>10 DEF next, Recorded
<1>4. CASE ~ \E i \in DOMAIN groups : groups[i].rule = violation.rule
  <2> DEFINE fresh == [rule |-> violation.rule, ports |-> <<violation.port>>]
  <2>1. fresh \in [rule : R, ports : Seq(P)]
    OBVIOUS
  <2>2. /\ next = Append(groups, fresh)
        /\ DOMAIN next = 1 .. n + 1
        /\ \A i \in 1 .. n : next[i] = groups[i]
        /\ next[n + 1] = fresh
    <3>1. next = Append(groups, fresh)
      BY <1>4 DEF AddToGroups
    <3> HIDE DEF next, fresh
    <3>2. /\ Append(groups, fresh) \in Seq([rule : R, ports : Seq(P)])
          /\ Len(Append(groups, fresh)) = n + 1
          /\ \A i \in 1 .. n : Append(groups, fresh)[i] = groups[i]
          /\ Append(groups, fresh)[n + 1] = fresh
      BY <2>1, AppendProperties DEF Groupings
    <3>3. DOMAIN Append(groups, fresh) = 1 .. n + 1
      BY <3>2, LenProperties
    <3> QED
      BY <3>1, <3>2, <3>3
  <2>3. /\ ToSet(<<violation.port>>) = {violation.port}
        /\ <<violation.port>> # <<>>
        /\ Ordered(<<violation.port>>, Less(P))
    BY DEF ToSet, Ordered
  <2>4. 1 .. n + 1 = (1 .. n) \union {n + 1} /\ n + 1 \notin 1 .. n
    BY <1>1
  <2>5. fresh.rule = violation.rule /\ fresh.ports = <<violation.port>>
    OBVIOUS
  <2> HIDE DEF next, fresh
  <2>6. \A i, j \in DOMAIN next : next[i].rule = next[j].rule => i = j
    <3>1. ASSUME NEW i \in 1 .. n, NEW j \in 1 .. n, next[i].rule = next[j].rule
          PROVE  i = j
      BY <1>1, <2>2, <3>1 DEF Recorded
    <3>2. ASSUME NEW i \in 1 .. n PROVE next[i].rule # next[n + 1].rule
      BY <1>1, <1>4, <2>2, <2>5
    <3> QED
      BY <2>2, <2>4, <3>1, <3>2
  <2>7. ASSUME NEW w \in later
        PROVE  \E i \in DOMAIN next : /\ next[i].rule = w.rule
                                      /\ w.port \in ToSet(next[i].ports)
    <3>1. CASE w = violation
      BY <2>2, <2>3, <2>4, <2>5, <3>1
    <3>2. CASE w # violation
      <4>1. PICK i \in 1 .. n : /\ groups[i].rule = w.rule
                                /\ w.port \in ToSet(groups[i].ports)
        BY <1>1, <3>2 DEF Recorded
      <4> QED
        BY <2>2, <2>4, <4>1
    <3> QED
      BY <3>1, <3>2
  <2>8. ASSUME NEW i \in DOMAIN next
        PROVE  /\ next[i].ports # <<>>
               /\ Ordered(next[i].ports, Less(P))
               /\ \A p \in ToSet(next[i].ports) :
                    [port |-> p, rule |-> next[i].rule] \in later
    <3>1. CASE i = n + 1
      <4>1. next[i].ports = <<violation.port>> /\ next[i].rule = violation.rule
        BY <2>2, <2>5, <3>1
      <4> QED
        BY <1>2, <2>3, <4>1
    <3>2. CASE i # n + 1
      <4>1. i \in 1 .. n /\ next[i] = groups[i]
        BY <2>2, <2>4, <3>2
      <4> QED
        BY <1>1, <4>1 DEF Recorded
    <3> QED
      BY <3>1, <3>2
  <2> QED
    BY <2>6, <2>7, <2>8 DEF next, Recorded
<1> QED
  BY <1>3, <1>4

(* The ports a rule is seen with come in ascending order.                  *)
Ascending(P, R) ==
  {pair \in [port : P, rule : R] \X [port : P, rule : R] :
     pair[1].rule = pair[2].rule => pair[1].port < pair[2].port}

(* group_by_rule records what it is given.                                 *)
LEMMA GroupsRecord ==
  ASSUME NEW P, P \subseteq Int, NEW R, NEW v \in Seq([port : P, rule : R]),
         Ordered(v, Ascending(P, R))
  PROVE  /\ GroupByRule(v) \in Groupings(P, R)
         /\ Recorded(GroupByRule(v), ToSet(v), P)
<1> DEFINE n == Len(v)
           Seen(m) == {v[k] : k \in 1 .. m}
<1>1. n \in Nat /\ DOMAIN v = 1 .. n /\ \A i \in 1 .. n : v[i] \in [port : P, rule : R]
  BY LenProperties, ElementOfSeq
<1>2. PICK G \in [0 .. n -> Groupings(P, R)] :
        /\ G[0] = <<>>
        /\ \A i \in 1 .. n : G[i] = AddToGroups(G[i - 1], v[i])
        /\ GroupByRule(v) = G[n]
  BY GroupsUnfold
<1> DEFINE Right == {m \in Nat : m <= n => Recorded(G[m], Seen(m), P)}
<1>3. 0 \in Right
  <2>1. Seen(0) = {} /\ DOMAIN <<>> = {}
    OBVIOUS
  <2> QED
    BY <1>2, <2>1 DEF Recorded
<1>4. ASSUME NEW m \in Nat, m \in Right PROVE m + 1 \in Right
  <2>1. SUFFICES ASSUME m + 1 <= n PROVE Recorded(G[m + 1], Seen(m + 1), P)
    OBVIOUS
  <2>2. m + 1 \in 1 .. n /\ m \in 0 .. n /\ (m + 1) - 1 = m
    BY <1>1, <2>1
  <2>3. /\ G[m + 1] = AddToGroups(G[m], v[m + 1])
        /\ G[m] \in Groupings(P, R)
        /\ v[m + 1] \in [port : P, rule : R]
    BY <1>1, <1>2, <2>2
  <2>4. Recorded(G[m], Seen(m), P)
    BY <1>4, <2>2
  <2>5. Seen(m) \in SUBSET [port : P, rule : R]
    BY <1>1, <2>2
  <2>6. ASSUME NEW w \in Seen(m), w.rule = v[m + 1].rule
        PROVE  w.port < v[m + 1].port
    <3>1. PICK k \in 1 .. m : w = v[k]
      OBVIOUS
    <3>2. k \in DOMAIN v /\ m + 1 \in DOMAIN v /\ k < m + 1
      BY <1>1, <2>2
    <3>3. <<v[k], v[m + 1]>> \in Ascending(P, R)
      BY <3>2 DEF Ordered
    <3> QED
      BY <2>6, <3>1, <3>3 DEF Ascending
  <2>7. Seen(m + 1) = Seen(m) \union {v[m + 1]}
    <3>1. 1 .. m + 1 = (1 .. m) \union {m + 1}
      OBVIOUS
    <3> QED
      BY <3>1
  <2> HIDE DEF Seen
  <2>8. Recorded(AddToGroups(G[m], v[m + 1]), Seen(m) \union {v[m + 1]}, P)
    BY <2>3, <2>4, <2>5, <2>6, RecordedStep
  <2> QED
    BY <2>3, <2>7, <2>8
<1>5. n \in Right
  <2> HIDE DEF Right
  <2> QED
    BY <1>1, <1>3, <1>4, NaturalInduct
<1>6. Seen(n) = ToSet(v) /\ n \in 0 .. n
  BY <1>1 DEF ToSet
<1>7. Recorded(G[n], Seen(n), P)
  BY <1>1, <1>5
<1> HIDE DEF Seen, n
<1> QED
  BY <1>2, <1>6, <1>7

-----------------------------------------------------------------------------
(* The violations of an item.                                              *)

AllRules == {RuleOf(item, c) : item \in Items, c \in STRING}
Violations == [port : RestrictedPorts, rule : AllRules]
InOrder == Ascending(RestrictedPorts, AllRules)

CidrsOf(item) == ToSet(item.v4) \union ToSet(item.v6)
Covered(item) == {p \in RestrictedPorts : CoversPort(PortRange(item), p)}
FoundIn(item) ==
  {[port |-> p, rule |-> RuleOf(item, c)] :
     p \in Covered(item), c \in CidrsOf(item) \intersect OpenCidrs}

(* The ports of a range are reported once each, in ascending order.        *)
LEMMA ExposedPortsAre ==
  ASSUME NEW range
  PROVE  /\ ExposedPorts(range) \in Seq(RestrictedPorts)
         /\ ToSet(ExposedPorts(range)) = {p \in RestrictedPorts : CoversPort(range, p)}
         /\ Ordered(ExposedPorts(range), Less(RestrictedPorts))
<1> DEFINE s == IF CoversPort(range, 22) THEN <<22>> ELSE <<>>
           t == IF CoversPort(range, 3389) THEN <<3389>> ELSE <<>>
<1>1. ExposedPorts(range) = s \o t
  BY DEF ExposedPorts
<1>2. /\ <<22>> \in Seq(RestrictedPorts) /\ <<3389>> \in Seq(RestrictedPorts)
      /\ <<>> \in Seq(RestrictedPorts)
  BY DEF RestrictedPorts
<1>3. s \in Seq(RestrictedPorts) /\ t \in Seq(RestrictedPorts)
  BY <1>2
<1>4. ToSet(<<22>>) = {22} /\ ToSet(<<3389>>) = {3389} /\ ToSet(<<>>) = {}
  BY DEF ToSet
<1>5. /\ ToSet(s) = IF CoversPort(range, 22) THEN {22} ELSE {}
      /\ ToSet(t) = IF CoversPort(range, 3389) THEN {3389} ELSE {}
  <2>1. ToSet(s) = IF CoversPort(range, 22) THEN {22} ELSE {}
    <3>1. CASE CoversPort(range, 22)
      BY <1>4, <3>1
    <3>2. CASE ~ CoversPort(range, 22)
      BY <1>4, <3>2
    <3> QED
      BY <3>1, <3>2
  <2>2. ToSet(t) = IF CoversPort(range, 3389) THEN {3389} ELSE {}
    <3>1. CASE CoversPort(range, 3389)
      BY <1>4, <3>1
    <3>2. CASE ~ CoversPort(range, 3389)
      BY <1>4, <3>2
    <3> QED
      BY <3>1, <3>2
  <2> QED
    BY <2>1, <2>2
<1>6. /\ Ordered(<<22>>, Less(RestrictedPorts)) /\ Ordered(<<3389>>, Less(RestrictedPorts))
      /\ Ordered(<<>>, Less(RestrictedPorts))
  BY DEF Ordered
<1>7. Ordered(s, Less(RestrictedPorts)) /\ Ordered(t, Less(RestrictedPorts))
  BY <1>6
<1>8. <<22, 3389>> \in Less(RestrictedPorts)
  BY DEF Less, RestrictedPorts
<1>9. Before(s, t, Less(RestrictedPorts))
  BY <1>5, <1>8 DEF Before
<1> HIDE DEF s, t
<1>10. ToSet(s \o t) = ToSet(s) \union ToSet(t)
  BY <1>3, ElementsOfConcat
<1>11. s \o t \in Seq(RestrictedPorts)
  BY <1>3, ConcatProperties
<1>12. Ordered(s \o t, Less(RestrictedPorts))
  BY <1>3, <1>7, <1>9, OrderedConcat
<1>13. ToSet(s \o t) = {p \in RestrictedPorts : CoversPort(range, p)}
  BY <1>5, <1>10 DEF RestrictedPorts
<1> QED
  BY <1>1, <1>11, <1>12, <1>13

(* A cidr contributes the covered ports, if it is open.                    *)
LEMMA CidrViolationsAre ==
  ASSUME NEW item \in Items, NEW c \in STRING
  PROVE  /\ CidrViolations(item, c) \in Seq(Violations)
         /\ ToSet(CidrViolations(item, c))
              = {[port |-> p, rule |-> RuleOf(item, c)] :
                   p \in {q \in Covered(item) : c \in OpenCidrs}}
         /\ Ordered(CidrViolations(item, c), InOrder)
<1> DEFINE ports == IF c \in OpenCidrs THEN ExposedPorts(PortRange(item)) ELSE <<>>
           w(p) == [port |-> p, rule |-> RuleOf(item, c)]
           s == [i \in DOMAIN ports |-> w(ports[i])]
<1>1. CidrViolations(item, c) = s
  BY DEF CidrViolations
<1>2. /\ ports \in Seq(RestrictedPorts)
      /\ ToSet(ports) = {q \in Covered(item) : c \in OpenCidrs}
      /\ Ordered(ports, Less(RestrictedPorts))
  <2>1. CASE c \in OpenCidrs
    BY <2>1, ExposedPortsAre DEF Covered
  <2>2. CASE c \notin OpenCidrs
    <3>1. ports = <<>>
      BY <2>2
    <3>2. /\ <<>> \in Seq(RestrictedPorts) /\ ToSet(<<>>) = {}
          /\ Ordered(<<>>, Less(RestrictedPorts))
      BY DEF ToSet, Ordered
    <3>3. {q \in Covered(item) : c \in OpenCidrs} = {}
      BY <2>2
    <3> HIDE DEF ports
    <3> QED
      BY <3>1, <3>2, <3>3
  <2> QED
    BY <2>1, <2>2
<1> HIDE DEF ports
<1>3. /\ Len(ports) \in Nat /\ DOMAIN ports = 1 .. Len(ports)
      /\ \A i \in 1 .. Len(ports) : ports[i] \in RestrictedPorts
  BY <1>2, LenProperties, ElementOfSeq
<1>4. RuleOf(item, c) \in AllRules
  BY DEF AllRules
<1>5. \A p \in RestrictedPorts : w(p) \in Violations
  BY <1>4 DEF Violations
<1>6. s \in Seq(Violations)
  <2>1. s \in [1 .. Len(ports) -> Violations]
    <3> HIDE DEF w
    <3> QED
      BY <1>3, <1>5
  <2> HIDE DEF s
  <2> QED
    BY <1>3, <2>1, SeqDef
<1>7. ToSet(s) = {w(p) : p \in ToSet(ports)}
  BY DEF ToSet
<1>8. ASSUME NEW j \in DOMAIN s, NEW k \in DOMAIN s, j < k
      PROVE  <<s[j], s[k]>> \in InOrder
  <2>1. <<ports[j], ports[k]>> \in Less(RestrictedPorts)
    BY <1>2, <1>8 DEF Ordered
  <2>2. ports[j] < ports[k]
    BY <2>1 DEF Less
  <2>3. s[j] \in Violations /\ s[k] \in Violations
    BY <1>3, <1>5
  <2>4. s[j].port = ports[j] /\ s[k].port = ports[k]
    OBVIOUS
  <2> HIDE DEF s
  <2> QED
    BY <2>2, <2>3, <2>4 DEF InOrder, Ascending, Violations
<1>9. Ordered(s, InOrder)
  BY <1>8 DEF Ordered
<1> QED
  BY <1>1, <1>2, <1>6, <1>7, <1>9

(* The cidrs of an item, each once.                                        *)
LEMMA ItemCidrs ==
  ASSUME NEW item \in Items
  PROVE  /\ item.v4 \o item.v6 \in Seq(STRING)
         /\ ToSet(item.v4 \o item.v6) = CidrsOf(item)
         /\ \A i, j \in DOMAIN (item.v4 \o item.v6) :
              (item.v4 \o item.v6)[i] = (item.v4 \o item.v6)[j] => i = j
<1> DEFINE s == item.v4
           t == item.v6
<1>1. /\ s \in Seq(STRING) /\ t \in Seq(STRING)
      /\ \A i, j \in DOMAIN s : s[i] = s[j] => i = j
      /\ \A i, j \in DOMAIN t : t[i] = t[j] => i = j
      /\ \A i \in DOMAIN s, j \in DOMAIN t : s[i] # t[j]
  <2>1. /\ s \in Seq(STRING) /\ t \in Seq(STRING)
        /\ IsInjective(s) /\ IsInjective(t)
    BY ItemsAssumption
  <2>2. /\ \A i \in DOMAIN s : ~ IsV6(s[i])
        /\ \A i \in DOMAIN t : IsV6(t[i])
    BY ItemsAssumption
  <2> HIDE DEF s, t
  <2>3. \A i \in DOMAIN s, j \in DOMAIN t : s[i] # t[j]
    BY <2>2
  <2> QED
    BY <2>1, <2>3 DEF IsInjective
<1> HIDE DEF s, t
<1>2. /\ Len(s) \in Nat /\ DOMAIN s = 1 .. Len(s)
      /\ Len(t) \in Nat /\ DOMAIN t = 1 .. Len(t)
  BY <1>1, LenProperties
<1>3. /\ s \o t \in Seq(STRING)
      /\ Len(s \o t) = Len(s) + Len(t)
      /\ \A i \in 1 .. Len(s) + Len(t) :
           (s \o t)[i] = IF i <= Len(s) THEN s[i] ELSE t[i - Len(s)]
  BY <1>1, ConcatProperties
<1>4. DOMAIN (s \o t) = 1 .. Len(s) + Len(t)
  BY <1>3, LenProperties
<1>5. ASSUME NEW i \in 1 .. Len(s) + Len(t), NEW j \in 1 .. Len(s) + Len(t),
             (s \o t)[i] = (s \o t)[j]
      PROVE  i = j
  <2>1. CASE i <= Len(s) /\ j <= Len(s)
    BY <1>1, <1>2, <1>3, <1>5, <2>1
  <2>2. CASE ~ (i <= Len(s)) /\ ~ (j <= Len(s))
    <3>1. i - Len(s) \in DOMAIN t /\ j - Len(s) \in DOMAIN t
      BY <1>2, <2>2
    <3>2. t[i - Len(s)] = t[j - Len(s)]
      BY <1>3, <1>5, <2>2
    <3>3. i - Len(s) = j - Len(s)
      BY <1>1, <3>1, <3>2
    <3> QED
      BY <1>2, <3>3
  <2>3. CASE i <= Len(s) /\ ~ (j <= Len(s))
    <3>1. i \in DOMAIN s /\ j - Len(s) \in DOMAIN t
      BY <1>2, <2>3
    <3>2. s[i] = t[j - Len(s)]
      BY <1>3, <1>5, <2>3
    <3> QED
      BY <1>1, <3>1, <3>2
  <2>4. CASE ~ (i <= Len(s)) /\ j <= Len(s)
    <3>1. j \in DOMAIN s /\ i - Len(s) \in DOMAIN t
      BY <1>2, <2>4
    <3>2. s[j] = t[i - Len(s)]
      BY <1>3, <1>5, <2>4
    <3> QED
      BY <1>1, <3>1, <3>2
  <2> QED
    BY <2>1, <2>2, <2>3, <2>4
<1>6. ToSet(s \o t) = ToSet(s) \union ToSet(t)
  BY <1>1, ElementsOfConcat
<1> QED
  BY <1>3, <1>4, <1>5, <1>6 DEF s, t, CidrsOf

(* An item contributes one violation per open cidr and covered port, those *)
(* of one cidr behind one another.                                         *)
LEMMA ItemViolationsAre ==
  ASSUME NEW item \in Items
  PROVE  /\ ItemViolations(item) \in Seq(Violations)
         /\ ToSet(ItemViolations(item)) = FoundIn(item)
         /\ Ordered(ItemViolations(item), InOrder)
<1> DEFINE cidrs == item.v4 \o item.v6
           n == Len(cidrs)
           seqs == [i \in 1 .. n |-> CidrViolations(item, cidrs[i])]
<1>1. /\ cidrs \in Seq(STRING)
      /\ ToSet(cidrs) = CidrsOf(item)
      /\ \A i, j \in DOMAIN cidrs : cidrs[i] = cidrs[j] => i = j
  BY ItemCidrs
<1>2. ItemViolations(item) = FlattenSeq([i \in DOMAIN cidrs |-> CidrViolations(item, cidrs[i])])
  BY DEF ItemViolations
<1> HIDE DEF cidrs
<1>3. /\ n \in Nat /\ DOMAIN cidrs = 1 .. n
      /\ \A i \in 1 .. n : cidrs[i] \in STRING
  BY <1>1, LenProperties, ElementOfSeq
<1>4. seqs \in Seq(Seq(Violations)) /\ Len(seqs) = n
  <2>1. seqs \in [1 .. n -> Seq(Violations)]
    BY <1>3, CidrViolationsAre
  <2> HIDE DEF seqs, n
  <2> QED
    BY <1>3, <2>1, SeqDef, LenProperties
<1>5. \A i \in 1 .. n : Ordered(seqs[i], InOrder)
  BY <1>3, CidrViolationsAre
<1>6. ASSUME NEW i \in 1 .. n, NEW j \in 1 .. n, i < j
      PROVE  Before(seqs[i], seqs[j], InOrder)
  <2>1. cidrs[i] # cidrs[j] /\ cidrs[i] \in STRING /\ cidrs[j] \in STRING
    BY <1>1, <1>3, <1>6
  <2>2. ASSUME NEW x \in ToSet(seqs[i]), NEW y \in ToSet(seqs[j])
        PROVE  <<x, y>> \in InOrder
    <3>1. x.rule = RuleOf(item, cidrs[i])
      <4>1. PICK p \in Covered(item) : x = [port |-> p, rule |-> RuleOf(item, cidrs[i])]
        BY <2>1, CidrViolationsAre
      <4> QED
        BY <4>1
    <3>2. y.rule = RuleOf(item, cidrs[j])
      <4>1. PICK p \in Covered(item) : y = [port |-> p, rule |-> RuleOf(item, cidrs[j])]
        BY <2>1, CidrViolationsAre
      <4> QED
        BY <4>1
    <3>3. x.rule # y.rule
      BY <2>1, <3>1, <3>2 DEF RuleOf
    <3>4. x \in Violations /\ y \in Violations
      <4>1. seqs[i] \in Seq(Violations) /\ seqs[j] \in Seq(Violations)
        BY <1>3, CidrViolationsAre
      <4>2. \A s \in Seq(Violations) : ToSet(s) \subseteq Violations
        BY LenProperties, ElementOfSeq DEF ToSet
      <4> QED
        BY <4>1, <4>2
    <3> QED
      BY <3>3, <3>4 DEF InOrder, Ascending, Violations
  <2> QED
    BY <2>2 DEF Before
<1>7. UNION {ToSet(seqs[i]) : i \in 1 .. n} = FoundIn(item)
  <2>1. \A i \in 1 .. n :
          ToSet(seqs[i]) = {[port |-> p, rule |-> RuleOf(item, cidrs[i])] :
                              p \in {q \in Covered(item) : cidrs[i] \in OpenCidrs}}
    BY <1>3, CidrViolationsAre
  <2>2. CidrsOf(item) = {cidrs[i] : i \in 1 .. n}
    BY <1>1, <1>3 DEF ToSet
  <2> HIDE DEF seqs, n
  <2> QED
    BY <2>1, <2>2 DEF FoundIn
<1>8. ItemViolations(item) = FlattenSeq(seqs)
  BY <1>2, <1>3
<1> HIDE DEF seqs, n
<1>9. /\ FlattenSeq(seqs) \in Seq(Violations)
      /\ ToSet(FlattenSeq(seqs)) = FoundIn(item)
  BY <1>4, <1>7, FlattenElements
<1>10. Ordered(FlattenSeq(seqs), InOrder)
  BY <1>4, <1>5, <1>6, FlattenOrdered
<1> QED
  BY <1>8, <1>9, <1>10

-----------------------------------------------------------------------------
(* What EC2 holds, and what is asked of it.                                *)

(* What would be asked of an item, and of a request: of its rules, those   *)
(* found open that cover a restricted port.                                *)
Leaves(item) == {RevokeRequest(RuleOf(item, c)) : c \in CidrsOf(item)}
AskedRules(items) == UNION {Leaves(items[i]) : i \in DOMAIN items}

CoveredPortsOf(rule) ==
  {p \in RestrictedPorts : CoversPort([from |-> rule.from, to |-> rule.to], p)}

FlaggedRules(items) ==
  {rule \in AskedRules(items) : rule.cidr \in OpenCidrs /\ CoveredPortsOf(rule) # {}}

(* Ports, types and codes are small numbers.                               *)
LEMMA NumbersAre ==
  /\ \A x \in PortNumbers : x \in Int /\ 0 <= x /\ x <= 65535
  /\ \A x \in Types : x \in Int /\ -1 <= x /\ x <= 255
BY DEF PortNumbers, Types

(* Where an item has a range at all it has both ends of it, and only one   *)
(* for another protocol than TCP and UDP lacks it.                         *)
LEMMA RangesAre ==
  ASSUME NEW item \in Items, item.protocol # AllTraffic
  PROVE  \/ /\ ~ HasPorts(item)
            /\ item.from = Absent /\ item.to = Absent
         \/ /\ ~ HasPorts(item)
            /\ item.from \in Int /\ -1 <= item.from /\ item.from <= 255
            /\ item.to \in Int /\ -1 <= item.to /\ item.to <= 255
            /\ item.from = -1 => item.to = -1
         \/ /\ HasPorts(item) /\ item.protocol \in WithPorts
            /\ item.from \in Int /\ 0 <= item.from /\ item.from <= 65535
            /\ item.to \in Int /\ 0 <= item.to /\ item.to <= 65535
<1>1. CASE item.protocol \in WithPorts
  <2>1. item.from \in PortNumbers /\ item.to \in PortNumbers
    BY <1>1, ItemsAssumption
  <2> QED
    BY <1>1, <2>1, NumbersAre DEF HasPorts
<1>2. CASE item.protocol \notin WithPorts
  <2>1. ~ HasPorts(item)
    BY <1>2 DEF HasPorts, AllTraffic
  <2>2. \/ item.from = Absent /\ item.to = Absent
        \/ /\ item.from \in Types /\ item.to \in Types
           /\ item.from = -1 => item.to = -1
    BY <2>1, ItemsAssumption
  <2> QED
    BY <2>1, <2>2, NumbersAre
<1> QED
  BY <1>1, <1>2

(* The range found of an item is its own, or all numbers if it has none.   *)
LEMMA RangeIsKept ==
  ASSUME NEW item \in Items
  PROVE  IF item.protocol = AllTraffic
         THEN PortRange(item).from = Absent /\ PortRange(item).to = Absent
         ELSE /\ IF item.from = Absent
                 THEN PortRange(item).from = 0 /\ PortRange(item).to = 65535
                 ELSE PortRange(item).from = item.from /\ PortRange(item).to = item.to
              /\ PortRange(item).from \in Int /\ PortRange(item).to \in Int
              /\ -1 <= PortRange(item).from /\ PortRange(item).to <= 65535
              /\ PortRange(item).from = -1 => PortRange(item).to = -1
<1>1. CASE item.protocol = AllTraffic
  BY <1>1 DEF PortRange
<1>2. CASE item.protocol # AllTraffic
  <2>1. CASE item.from = Absent
    <3>1. item.to = Absent
      BY <1>2, <2>1, RangesAre DEF Absent
    <3>2. PortRange(item).from = 0 /\ PortRange(item).to = 65535
      BY <1>2, <2>1, <3>1 DEF PortRange
    <3> QED
      BY <1>2, <2>1, <3>2
  <2>2. CASE item.from # Absent
    <3>1. /\ item.from \in Int /\ -1 <= item.from
          /\ item.to \in Int /\ -1 <= item.to /\ item.to <= 65535
          /\ item.from = -1 => item.to = -1
      BY <1>2, <2>2, RangesAre
    <3>2. item.to # Absent
      BY <3>1 DEF Absent
    <3>3. PortRange(item).from = item.from /\ PortRange(item).to = item.to
      BY <1>2, <2>2, <3>2 DEF PortRange
    <3> QED
      BY <1>2, <2>2, <3>1, <3>3
  <2> QED
    BY <2>1, <2>2
<1> QED
  BY <1>1, <1>2

(* A missing range is filled in and nothing else changed.                  *)
LEMMA FillingIs ==
  ASSUME NEW item, NEW f, NEW c, item.protocol # "-1", item.from = Absent
  PROVE  Filled(Held(item, f, c))
           = [protocol |-> item.protocol, from |-> 0, to |-> 65535,
              family |-> f, cidr |-> c]
<1>1. Held(item, f, c) = [protocol |-> item.protocol, from |-> item.from,
                          to |-> item.to, family |-> f, cidr |-> c]
  BY DEF Held
<1>2. /\ Held(item, f, c).protocol = item.protocol
      /\ Held(item, f, c).from = Absent
      /\ Held(item, f, c).family = f /\ Held(item, f, c).cidr = c
  BY <1>1
<1> QED
  BY <1>2 DEF Filled

(* What would be asked of an item is what it leaves in the group, missing  *)
(* ranges filled in.                                                       *)
LEMMA HeldIsRevoked ==
  ASSUME NEW item \in Items
  PROVE  /\ CidrsOf(item) \subseteq STRING
         /\ {Filled(held) : held \in HeldOf(item)} = Leaves(item)
<1>1. /\ item.v4 \in Seq(STRING) /\ item.v6 \in Seq(STRING)
      /\ \A i \in DOMAIN item.v4 : ~ IsV6(item.v4[i])
      /\ \A i \in DOMAIN item.v6 : IsV6(item.v6[i])
  BY ItemsAssumption
<1>2. CidrsOf(item) \subseteq STRING
  <2>1. \A s \in Seq(STRING) : ToSet(s) \subseteq STRING
    BY LenProperties, ElementOfSeq DEF ToSet
  <2> QED
    BY <1>1, <2>1 DEF CidrsOf
<1>3. \A c : /\ ~ IsV6(c) => Filled(Held(item, "v4", c)) = RevokeRequest(RuleOf(item, c))
             /\ IsV6(c) => Filled(Held(item, "v6", c)) = RevokeRequest(RuleOf(item, c))
  <2>1. CASE item.protocol = AllTraffic
    BY <2>1, RangeIsKept DEF Held, Filled, RevokeRequest, RuleOf, AllTraffic
  <2>2. CASE item.protocol # AllTraffic /\ item.from # Absent
    BY <2>2, RangeIsKept DEF Held, Filled, RevokeRequest, RuleOf, AllTraffic
  <2>3. CASE item.protocol # AllTraffic /\ item.from = Absent
    <3>1. \A f, c : Filled(Held(item, f, c))
                     = [protocol |-> item.protocol, from |-> 0, to |-> 65535,
                        family |-> f, cidr |-> c]
      BY <2>3, FillingIs DEF AllTraffic
    <3>2. PortRange(item).from = 0 /\ PortRange(item).to = 65535
      BY <2>3, RangeIsKept
    <3> QED
      BY <3>1, <3>2 DEF RevokeRequest, RuleOf
  <2> QED
    BY <2>1, <2>2, <2>3
<1>4. /\ \A c \in ToSet(item.v4) : ~ IsV6(c)
      /\ \A c \in ToSet(item.v6) : IsV6(c)
  BY <1>1 DEF ToSet
<1>5. {Filled(Held(item, "v4", c)) : c \in ToSet(item.v4)}
        = {RevokeRequest(RuleOf(item, c)) : c \in ToSet(item.v4)}
  BY <1>3, <1>4
<1>6. {Filled(Held(item, "v6", c)) : c \in ToSet(item.v6)}
        = {RevokeRequest(RuleOf(item, c)) : c \in ToSet(item.v6)}
  BY <1>3, <1>4
<1>7. {Filled(held) : held \in HeldOf(item)}
        = {Filled(Held(item, "v4", c)) : c \in ToSet(item.v4)}
            \union {Filled(Held(item, "v6", c)) : c \in ToSet(item.v6)}
  BY DEF HeldOf
<1> QED
  BY <1>2, <1>5, <1>6, <1>7 DEF Leaves, CidrsOf

(* A rule for ports, or for all traffic, is asked for as it is held.       *)
LEMMA PortsAreKept ==
  ASSUME NEW item \in Items, NEW held \in HeldOf(item)
  PROVE  /\ held.protocol = item.protocol
         /\ HasPorts(held) => Filled(held) = held
         /\ Filled(held).protocol = held.protocol /\ Filled(held).cidr = held.cidr
<1>1. PICK c \in CidrsOf(item) : held = Held(item, "v4", c) \/ held = Held(item, "v6", c)
  BY DEF HeldOf, CidrsOf
<1>2. /\ held.protocol = item.protocol
      /\ held.protocol # "-1" => held.from = item.from
  BY <1>1 DEF Held
<1>3. ASSUME HasPorts(held), held.protocol # "-1" PROVE held.from # Absent
  <2>1. HasPorts(item) /\ item.protocol # AllTraffic
    BY <1>2, <1>3 DEF HasPorts, AllTraffic
  <2>2. item.from \in Int /\ 0 <= item.from
    BY <2>1, RangesAre
  <2> QED
    BY <1>2, <1>3, <2>2 DEF Absent
<1>4. HasPorts(held) => Filled(held) = held
  BY <1>3 DEF Filled
<1>5. Filled(held).protocol = held.protocol /\ Filled(held).cidr = held.cidr
  BY <1>1 DEF Filled, Held
<1> QED
  BY <1>2, <1>4, <1>5

(* No two rules are asked for alike: no type and code is a full range.     *)
LEMMA FilledInjective ==
  ASSUME NEW item \in Items, NEW held \in HeldOf(item),
         NEW other \in Items, NEW rule \in HeldOf(other),
         Filled(held) = Filled(rule)
  PROVE  held = rule
<1>1. PICK c, f : held = Held(item, f, c)
  BY DEF HeldOf
<1>2. PICK d, g : rule = Held(other, g, d)
  BY DEF HeldOf
<1>3. held.protocol = rule.protocol
  BY PortsAreKept
<1>4. CASE HasPorts(held)
  <2>1. HasPorts(rule)
    BY <1>3, <1>4 DEF HasPorts
  <2> QED
    BY <1>4, <2>1, PortsAreKept
<1>5. CASE ~ HasPorts(held)
  <2>1. /\ item.protocol = held.protocol /\ other.protocol = held.protocol
        /\ ~ HasPorts(item) /\ ~ HasPorts(other)
        /\ item.protocol # "-1" /\ other.protocol # "-1"
    BY <1>3, <1>5, PortsAreKept DEF HasPorts
  <2>2. /\ held = [protocol |-> item.protocol, from |-> item.from, to |-> item.to,
                   family |-> f, cidr |-> c]
        /\ rule = [protocol |-> other.protocol, from |-> other.from, to |-> other.to,
                   family |-> g, cidr |-> d]
    BY <1>1, <1>2, <2>1 DEF Held
  <2>3. /\ \/ item.from = Absent /\ item.to = Absent
           \/ item.to \in Int /\ item.to <= 255
        /\ \/ other.from = Absent /\ other.to = Absent
           \/ other.to \in Int /\ other.to <= 255
    BY <2>1, RangesAre DEF AllTraffic
  <2>4. /\ item.from # Absent => Filled(held) = held
        /\ other.from # Absent => Filled(rule) = rule
    BY <2>1, <2>2 DEF Filled
  <2>5. ASSUME item.from = Absent
        PROVE  /\ item.to = Absent /\ Filled(held).to = 65535
               /\ Filled(held).family = f /\ Filled(held).cidr = c
    <3>1. item.to = Absent
      BY <2>1, <2>5, RangesAre DEF Absent, AllTraffic
    <3>2. Filled(held) = [protocol |-> item.protocol, from |-> 0, to |-> 65535,
                          family |-> f, cidr |-> c]
      BY <1>1, <2>1, <2>5, FillingIs
    <3> QED
      BY <3>1, <3>2
  <2>6. ASSUME other.from = Absent
        PROVE  /\ other.to = Absent /\ Filled(rule).to = 65535
               /\ Filled(rule).family = g /\ Filled(rule).cidr = d
    <3>1. other.to = Absent
      BY <2>1, <2>6, RangesAre DEF Absent, AllTraffic
    <3>2. Filled(rule) = [protocol |-> other.protocol, from |-> 0, to |-> 65535,
                          family |-> g, cidr |-> d]
      BY <1>2, <2>1, <2>6, FillingIs
    <3> QED
      BY <3>1, <3>2
  <2>7. CASE item.from # Absent /\ other.from # Absent
    BY <2>4, <2>7
  <2>8. CASE item.from = Absent /\ other.from = Absent
    <3>1. item.to = Absent /\ other.to = Absent /\ f = g /\ c = d
      BY <2>5, <2>8, <2>6
    <3> QED
      BY <2>1, <2>2, <2>8, <3>1
  <2>9. CASE item.from # Absent /\ other.from = Absent
    <3>1. Filled(held).to = item.to /\ item.to <= 255 /\ item.to \in Int
      BY <2>2, <2>3, <2>4, <2>9
    <3> QED
      BY <2>9, <2>6, <3>1
  <2>10. CASE item.from = Absent /\ other.from # Absent
    <3>1. Filled(rule).to = other.to /\ other.to <= 255 /\ other.to \in Int
      BY <2>2, <2>3, <2>4, <2>10
    <3> QED
      BY <2>5, <2>10, <3>1
  <2> QED
    BY <2>7, <2>8, <2>9, <2>10
<1> QED
  BY <1>4, <1>5

(* The rules a request leaves, item by item, and what is asked of them.    *)
LEMMA StoredRulesAre ==
  ASSUME NEW items \in Seq(Items)
  PROVE  /\ DOMAIN items = 1 .. Len(items) /\ Len(items) \in Nat
         /\ \A i \in DOMAIN items : items[i] \in Items
         /\ AskedRules(items) = {Filled(held) : held \in StoredRules(items)}
<1>1. /\ DOMAIN items = 1 .. Len(items) /\ Len(items) \in Nat
      /\ \A i \in DOMAIN items : items[i] \in Items
  BY LenProperties, ElementOfSeq
<1>2. \A i \in DOMAIN items :
        Leaves(items[i]) = {Filled(held) : held \in HeldOf(items[i])}
  BY <1>1, HeldIsRevoked
<1> QED
  BY <1>1, <1>2 DEF StoredRules, AskedRules

(* The rules of a request of one item.                                     *)
LEMMA StoredRulesOfOne ==
  ASSUME NEW item
  PROVE  StoredRules(<<item>>) = HeldOf(item)
<1>1. DOMAIN <<item>> = {1} /\ <<item>>[1] = item
  OBVIOUS
<1> QED
  BY <1>1 DEF StoredRules

(* The ports found of an item are those of the rules asked of it.          *)
LEMMA CoveredIsReached ==
  ASSUME NEW item, NEW c
  PROVE  CoveredPortsOf(RevokeRequest(RuleOf(item, c))) = Covered(item)
<1> DEFINE range == [from |-> RevokeRequest(RuleOf(item, c)).from,
                     to |-> RevokeRequest(RuleOf(item, c)).to]
<1>1. range.from = PortRange(item).from /\ range.to = PortRange(item).to
  BY DEF RevokeRequest, RuleOf
<1>2. \A p : CoversPort(range, p) <=> CoversPort(PortRange(item), p)
  BY <1>1 DEF CoversPort
<1> HIDE DEF range
<1>3. {p \in RestrictedPorts : CoversPort(range, p)} = Covered(item)
  BY <1>2 DEF Covered
<1> QED
  BY <1>3 DEF CoveredPortsOf, range

(* The rule can be told from the request.                                  *)
LEMMA RevokeRequestInjective ==
  ASSUME NEW r \in AllRules, NEW t \in AllRules, RevokeRequest(r) = RevokeRequest(t)
  PROVE  r = t
<1>1. /\ r.protocol = t.protocol /\ r.from = t.from /\ r.to = t.to
      /\ r.cidr = t.cidr
  BY DEF RevokeRequest
<1>2. PICK item \in Items, c \in STRING : r = RuleOf(item, c)
  BY DEF AllRules
<1>3. PICK other \in Items, d \in STRING : t = RuleOf(other, d)
  BY DEF AllRules
<1> QED
  BY <1>1, <1>2, <1>3 DEF RuleOf

-----------------------------------------------------------------------------
(* Requests.                                                               *)

(* EC2 refuses a request that names the same rule twice.                   *)
NoRuleTwice(items) ==
  \A i, j \in DOMAIN items :
    i # j => StoredRules(<<items[i]>>) \intersect StoredRules(<<items[j]>>) = {}

(* A request contributes what its items do, and no two of them the same    *)
(* rule.                                                                   *)
LEMMA RequestViolationsAre ==
  ASSUME NEW items \in Seq(Items), NoRuleTwice(items)
  PROVE  /\ IsPublicIngress(items) \in Seq(Violations)
         /\ ToSet(IsPublicIngress(items)) = UNION {FoundIn(items[i]) : i \in DOMAIN items}
         /\ Ordered(IsPublicIngress(items), InOrder)
<1> DEFINE n == Len(items)
           seqs == [i \in DOMAIN items |-> ItemViolations(items[i])]
<1>1. /\ DOMAIN items = 1 .. n /\ n \in Nat
      /\ \A i \in 1 .. n : items[i] \in Items
  BY StoredRulesAre
<1>2. IsPublicIngress(items) = FlattenSeq(seqs)
  BY DEF IsPublicIngress
<1>3. seqs \in [1 .. n -> Seq(Violations)]
  BY <1>1, ItemViolationsAre
<1>4. seqs \in Seq(Seq(Violations)) /\ Len(seqs) = n
  <2> HIDE DEF seqs, n
  <2> QED
    BY <1>1, <1>3, SeqDef, LenProperties
<1>5. \A i \in 1 .. n : /\ ToSet(seqs[i]) = FoundIn(items[i])
                        /\ Ordered(seqs[i], InOrder)
  BY <1>1, ItemViolationsAre
<1>6. ASSUME NEW i \in 1 .. n, NEW j \in 1 .. n, i < j
      PROVE  Before(seqs[i], seqs[j], InOrder)
  <2>1. items[i] \in Items /\ items[j] \in Items
    BY <1>1
  <2>2. i # j
    BY <1>1, <1>6
  <2>3. Leaves(items[i]) \intersect Leaves(items[j]) = {}
    <3>1. HeldOf(items[i]) \intersect HeldOf(items[j]) = {}
      BY <1>1, <2>2, StoredRulesOfOne DEF NoRuleTwice
    <3>2. /\ Leaves(items[i]) = {Filled(held) : held \in HeldOf(items[i])}
          /\ Leaves(items[j]) = {Filled(held) : held \in HeldOf(items[j])}
      BY <2>1, HeldIsRevoked
    <3>3. \A held \in HeldOf(items[i]), rule \in HeldOf(items[j]) :
            Filled(held) # Filled(rule)
      BY <2>1, <3>1, FilledInjective
    <3> QED
      BY <3>2, <3>3
  <2>4. ASSUME NEW x \in FoundIn(items[i]), NEW y \in FoundIn(items[j])
        PROVE  <<x, y>> \in InOrder
    <3>1. PICK p \in Covered(items[i]), c \in CidrsOf(items[i]) :
            x = [port |-> p, rule |-> RuleOf(items[i], c)]
      BY DEF FoundIn
    <3>2. PICK q \in Covered(items[j]), d \in CidrsOf(items[j]) :
            y = [port |-> q, rule |-> RuleOf(items[j], d)]
      BY DEF FoundIn
    <3>3. x.rule # y.rule
      <4>1. /\ RevokeRequest(x.rule) \in Leaves(items[i])
            /\ RevokeRequest(y.rule) \in Leaves(items[j])
        BY <3>1, <3>2 DEF Leaves
      <4> QED
        BY <2>3, <4>1
    <3>4. x \in Violations /\ y \in Violations
      <4>1. c \in STRING /\ d \in STRING
        BY <2>1, HeldIsRevoked
      <4>2. p \in RestrictedPorts /\ q \in RestrictedPorts
        BY DEF Covered
      <4> QED
        BY <2>1, <3>1, <3>2, <4>1, <4>2 DEF Violations, AllRules
    <3> QED
      BY <3>3, <3>4 DEF InOrder, Ascending, Violations
  <2> HIDE DEF seqs
  <2> QED
    BY <1>5, <2>4 DEF Before
<1>7. UNION {ToSet(seqs[i]) : i \in 1 .. n} = UNION {FoundIn(items[i]) : i \in DOMAIN items}
  <2> HIDE DEF seqs, n
  <2> QED
    BY <1>1, <1>5
<1> HIDE DEF seqs, n
<1>8. /\ FlattenSeq(seqs) \in Seq(Violations)
      /\ ToSet(FlattenSeq(seqs)) = UNION {FoundIn(items[i]) : i \in DOMAIN items}
  BY <1>4, <1>7, FlattenElements
<1>9. Ordered(FlattenSeq(seqs), InOrder)
  BY <1>4, <1>5, <1>6, FlattenOrdered
<1> QED
  BY <1>2, <1>8, <1>9

(* The groups of a request are its flagged rules, each with the ports it   *)
(* covers.                                                                 *)
LEMMA GroupsAreFlaggedRules ==
  ASSUME NEW items \in Seq(Items), NoRuleTwice(items),
         NEW groups, groups = GroupByRule(IsPublicIngress(items))
  PROVE  /\ groups \in Groupings(RestrictedPorts, AllRules)
         /\ \A i, j \in DOMAIN groups : groups[i].rule = groups[j].rule => i = j
         /\ \A i \in DOMAIN groups :
              /\ groups[i].rule \in AllRules
              /\ RevokeRequest(groups[i].rule) \in FlaggedRules(items)
              /\ ToSet(groups[i].ports) = CoveredPortsOf(RevokeRequest(groups[i].rule))
              /\ Ordered(groups[i].ports, Less(RestrictedPorts))
         /\ \A held \in FlaggedRules(items) :
              \E i \in DOMAIN groups : RevokeRequest(groups[i].rule) = held
<1> DEFINE Found == UNION {FoundIn(items[k]) : k \in DOMAIN items}
<1>1. /\ groups \in Groupings(RestrictedPorts, AllRules)
      /\ Recorded(groups, Found, RestrictedPorts)
  <2>1. RestrictedPorts \subseteq Int
    BY DEF RestrictedPorts
  <2> QED
    BY <2>1, RequestViolationsAre, GroupsRecord DEF Violations, InOrder
<1>2. \A i, j \in DOMAIN groups : groups[i].rule = groups[j].rule => i = j
  BY <1>1 DEF Recorded
<1>3. \A k \in DOMAIN items : items[k] \in Items
  BY StoredRulesAre
<1>4. \A k \in DOMAIN items : Leaves(items[k]) \subseteq AskedRules(items)
  BY DEF AskedRules
<1>5. ASSUME NEW i \in DOMAIN groups
      PROVE  /\ groups[i].rule \in AllRules
             /\ RevokeRequest(groups[i].rule) \in FlaggedRules(items)
             /\ ToSet(groups[i].ports) = CoveredPortsOf(RevokeRequest(groups[i].rule))
             /\ Ordered(groups[i].ports, Less(RestrictedPorts))
  <2> DEFINE rule == groups[i].rule
             ports == groups[i].ports
             held == RevokeRequest(rule)
  <2>1. /\ ports # <<>> /\ Ordered(ports, Less(RestrictedPorts))
        /\ \A p \in ToSet(ports) : [port |-> p, rule |-> rule] \in Found
    BY <1>1 DEF Recorded
  <2>2. rule \in AllRules /\ ports \in Seq(RestrictedPorts)
    <3>1. groups[i] \in [rule : AllRules, ports : Seq(RestrictedPorts)]
      BY <1>1, LenProperties, ElementOfSeq DEF Groupings
    <3> QED
      BY <3>1
  <2> HIDE DEF rule, ports
  <2>3. PICK first : first \in ToSet(ports)
    <3>1. 1 \in DOMAIN ports
      BY <2>1, <2>2, EmptySeq, LenProperties
    <3> QED
      BY <3>1 DEF ToSet
  <2>4. ASSUME NEW p \in ToSet(ports)
        PROVE  \E k \in DOMAIN items, c \in OpenCidrs :
                 /\ c \in CidrsOf(items[k]) /\ p \in Covered(items[k])
                 /\ rule = RuleOf(items[k], c)
    <3>1. PICK k \in DOMAIN items : [port |-> p, rule |-> rule] \in FoundIn(items[k])
      BY <2>1
    <3>2. PICK q \in Covered(items[k]), c \in CidrsOf(items[k]) \intersect OpenCidrs :
            [port |-> p, rule |-> rule] = [port |-> q, rule |-> RuleOf(items[k], c)]
      BY <3>1 DEF FoundIn
    <3>3. p = q /\ rule = RuleOf(items[k], c)
      BY <3>2
    <3> QED
      BY <3>3
  <2>5. PICK k \in DOMAIN items, c \in OpenCidrs :
          /\ c \in CidrsOf(items[k]) /\ first \in Covered(items[k])
          /\ rule = RuleOf(items[k], c)
    BY <2>3, <2>4
  <2>6. CoveredPortsOf(held) = Covered(items[k])
    BY <1>3, <2>5, CoveredIsReached
  <2>7. held \in FlaggedRules(items)
    <3>1. held \in AskedRules(items)
      BY <1>4, <2>5 DEF Leaves
    <3>2. held.cidr = c /\ c \in OpenCidrs
      BY <2>5 DEF RevokeRequest, RuleOf
    <3>3. CoveredPortsOf(held) # {}
      BY <2>5, <2>6
    <3> HIDE DEF held
    <3> QED
      BY <3>1, <3>2, <3>3 DEF FlaggedRules
  <2>8. ASSUME NEW p \in ToSet(ports) PROVE p \in CoveredPortsOf(held)
    <3>1. PICK l \in DOMAIN items, d \in OpenCidrs :
            /\ d \in CidrsOf(items[l]) /\ p \in Covered(items[l])
            /\ rule = RuleOf(items[l], d)
      BY <2>4
    <3>2. CoveredPortsOf(held) = Covered(items[l])
      BY <1>3, <3>1, CoveredIsReached
    <3> QED
      BY <3>1, <3>2
  <2>9. ASSUME NEW p \in CoveredPortsOf(held) PROVE p \in ToSet(ports)
    <3>1. [port |-> p, rule |-> rule] \in FoundIn(items[k])
      BY <2>5, <2>6 DEF FoundIn
    <3>2. PICK j \in DOMAIN groups : /\ groups[j].rule = rule
                                     /\ p \in ToSet(groups[j].ports)
      <4>1. [port |-> p, rule |-> rule] \in Found
        BY <3>1
      <4> HIDE DEF Found
      <4> QED
        BY <1>1, <4>1 DEF Recorded
    <3> QED
      BY <1>2, <3>2 DEF rule, ports
  <2> QED
    BY <2>1, <2>2, <2>7, <2>8, <2>9 DEF rule, ports
<1>6. ASSUME NEW held \in FlaggedRules(items)
      PROVE  \E i \in DOMAIN groups : RevokeRequest(groups[i].rule) = held
  <2>1. /\ held \in AskedRules(items) /\ held.cidr \in OpenCidrs
        /\ CoveredPortsOf(held) # {}
    BY DEF FlaggedRules
  <2>2. PICK k \in DOMAIN items : held \in Leaves(items[k])
    BY <2>1 DEF AskedRules
  <2>3. PICK c \in CidrsOf(items[k]) : held = RevokeRequest(RuleOf(items[k], c))
    BY <2>2 DEF Leaves
  <2>4. held.cidr = c
    BY <2>3 DEF RevokeRequest, RuleOf
  <2>5. PICK p : p \in Covered(items[k])
    BY <1>3, <2>1, <2>3, CoveredIsReached
  <2>6. [port |-> p, rule |-> RuleOf(items[k], c)] \in FoundIn(items[k])
    BY <2>1, <2>4, <2>5 DEF FoundIn
  <2>7. [port |-> p, rule |-> RuleOf(items[k], c)] \in Found
    BY <2>6
  <2> HIDE DEF Found
  <2>8. PICK i \in DOMAIN groups : groups[i].rule = RuleOf(items[k], c)
    BY <1>1, <2>7 DEF Recorded
  <2> QED
    BY <2>3, <2>8
<1> QED
  BY <1>1, <1>2, <1>5, <1>6

-----------------------------------------------------------------------------
(* What detection promises.                                                *)

(* The engine asks for the flagged rules of a request, each once.          *)
LEMMA RevokesTheFlagged ==
  ASSUME NEW items \in Seq(Items), NoRuleTwice(items)
  PROVE  /\ RevokeRequests(items) \in Seq(FlaggedRules(items))
         /\ ToSet(RevokeRequests(items)) = FlaggedRules(items)
         /\ IsInjective(RevokeRequests(items))
<1> DEFINE groups == GroupByRule(IsPublicIngress(items))
           requests == [i \in DOMAIN groups |-> RevokeRequest(groups[i].rule)]
<1>1. RevokeRequests(items) = requests
  BY DEF RevokeRequests
<1>2. /\ groups \in Groupings(RestrictedPorts, AllRules)
      /\ \A i, j \in DOMAIN groups : groups[i].rule = groups[j].rule => i = j
      /\ \A i \in DOMAIN groups : /\ groups[i].rule \in AllRules
                                  /\ RevokeRequest(groups[i].rule) \in FlaggedRules(items)
      /\ \A held \in FlaggedRules(items) :
           \E i \in DOMAIN groups : RevokeRequest(groups[i].rule) = held
  BY GroupsAreFlaggedRules
<1> HIDE DEF groups
<1>3. DOMAIN groups = 1 .. Len(groups) /\ Len(groups) \in Nat
  BY <1>2, LenProperties DEF Groupings
<1>4. requests \in Seq(FlaggedRules(items))
  <2>1. requests \in [1 .. Len(groups) -> FlaggedRules(items)]
    BY <1>2, <1>3
  <2> HIDE DEF requests
  <2> QED
    BY <1>3, <2>1, SeqDef
<1>5. ToSet(requests) = FlaggedRules(items)
  BY <1>2 DEF ToSet
<1>6. IsInjective(requests)
  BY <1>2, RevokeRequestInjective DEF IsInjective
<1> QED
  BY <1>1, <1>4, <1>5, <1>6

(* Of a rule for ports, the ports covered are those that can be reached.   *)
LEMMA PortsAreReached ==
  ASSUME NEW item \in Items, NEW held \in HeldOf(item), HasPorts(held)
  PROVE  Filled(held) = held /\ CoveredPortsOf(held) = ExposedPortsOf(held)
<1> DEFINE range == [from |-> held.from, to |-> held.to]
<1>1. /\ held.protocol = item.protocol /\ Filled(held) = held
      /\ HasPorts(item)
  BY PortsAreKept DEF HasPorts
<1>2. /\ held.protocol = "-1" => held.from = Absent
      /\ held.protocol # "-1" => held.from = item.from /\ held.to = item.to
  BY DEF HeldOf, Held
<1>3. range.from = held.from /\ range.to = held.to
  OBVIOUS
<1> HIDE DEF range
<1>4. \A p \in RestrictedPorts : CoversPort(range, p) <=> ReachesPort(held, p)
  <2>1. CASE held.protocol = "-1"
    BY <1>2, <1>3, <2>1 DEF CoversPort, ReachesPort
  <2>2. CASE held.protocol # "-1"
    <3>1. held.protocol \in WithPorts /\ item.protocol # AllTraffic
      BY <1>1, <2>2 DEF HasPorts, AllTraffic
    <3>2. held.from \in Int /\ 0 <= held.from /\ held.to \in Int
      BY <1>1, <1>2, <2>2, <3>1, RangesAre
    <3>3. range.from # Absent
      BY <1>3, <3>2 DEF Absent
    <3>4. ASSUME NEW p \in RestrictedPorts
          PROVE  p \in held.from .. held.to <=> held.from <= p /\ p <= held.to
      BY <3>2 DEF RestrictedPorts
    <3> QED
      BY <1>3, <2>2, <3>1, <3>3, <3>4 DEF CoversPort, ReachesPort
  <2> QED
    BY <2>1, <2>2
<1>5. {p \in RestrictedPorts : CoversPort(range, p)} = ExposedPortsOf(held)
  BY <1>4 DEF ExposedPortsOf, RestrictedPorts
<1> QED
  BY <1>1, <1>5 DEF CoveredPortsOf, range

(* A rule of another protocol exposes nothing.                             *)
LEMMA OthersReachNone ==
  ASSUME NEW held, ~ HasPorts(held)
  PROVE  ExposedPortsOf(held) = {}
BY DEF HasPorts, ExposedPortsOf, ReachesPort

(* The exposed rules of a request are the flagged ones that are for ports. *)
LEMMA ExposedAreFlagged ==
  ASSUME NEW items \in Seq(Items)
  PROVE  /\ ExposedRules(items) = {rule \in FlaggedRules(items) : HasPorts(rule)}
         /\ \A held \in ExposedRules(items) :
              HasPorts(held) /\ CoveredPortsOf(held) = ExposedPortsOf(held)
         /\ \A rule \in FlaggedRules(items) :
              \E held \in StoredRules(items) : rule = Filled(held)
<1>1. /\ \A i \in DOMAIN items : items[i] \in Items
      /\ AskedRules(items) = {Filled(held) : held \in StoredRules(items)}
  BY StoredRulesAre
<1>2. \A held \in StoredRules(items) : \E item \in Items : held \in HeldOf(item)
  BY <1>1 DEF StoredRules
<1>3. ASSUME NEW held \in ExposedRules(items)
      PROVE  /\ held \in FlaggedRules(items) /\ HasPorts(held)
             /\ CoveredPortsOf(held) = ExposedPortsOf(held)
  <2>1. /\ held \in StoredRules(items) /\ held.cidr \in OpenCidrs
        /\ ExposedPortsOf(held) # {}
    BY DEF ExposedRules, OpenCidrs
  <2>2. HasPorts(held)
    BY <2>1, OthersReachNone
  <2>3. Filled(held) = held /\ CoveredPortsOf(held) = ExposedPortsOf(held)
    BY <1>2, <2>1, <2>2, PortsAreReached
  <2>4. held \in AskedRules(items)
    BY <1>1, <2>1, <2>3
  <2> QED
    BY <2>1, <2>2, <2>3, <2>4 DEF FlaggedRules
<1>4. ASSUME NEW rule \in FlaggedRules(items)
      PROVE  /\ \E held \in StoredRules(items) : rule = Filled(held)
             /\ HasPorts(rule) => rule \in ExposedRules(items)
  <2>1. /\ rule \in AskedRules(items) /\ rule.cidr \in OpenCidrs
        /\ CoveredPortsOf(rule) # {}
    BY DEF FlaggedRules
  <2>2. PICK held \in StoredRules(items) : rule = Filled(held)
    BY <1>1, <2>1
  <2>3. ASSUME HasPorts(rule) PROVE rule \in ExposedRules(items)
    <3>1. HasPorts(held)
      <4>1. rule.protocol = held.protocol
        BY <1>2, <2>2, PortsAreKept
      <4> QED
        BY <2>3, <4>1 DEF HasPorts
    <3>2. rule = held /\ CoveredPortsOf(held) = ExposedPortsOf(held)
      BY <1>2, <2>2, <3>1, PortsAreReached
    <3> QED
      BY <2>1, <3>2 DEF ExposedRules, OpenCidrs
  <2> QED
    BY <2>2, <2>3
<1> QED
  BY <1>3, <1>4

(* Whatever EC2 grants, the engine revokes each rule of it through which   *)
(* the internet reaches SSH or RDP, as EC2 holds it and once; what else it *)
(* asks for is of a protocol without ports, a missing range made up.       *)
THEOREM RevokesTheExposed ==
  ASSUME NEW items \in Seq(Items), NoRuleTwice(items)
  PROVE  /\ ExposedRules(items) \subseteq ToSet(RevokeRequests(items))
         /\ IsInjective(RevokeRequests(items))
         /\ \A r \in ToSet(RevokeRequests(items)) \ ExposedRules(items) :
              /\ ~ HasPorts(r)
              /\ \E held \in StoredRules(items) : r = Filled(held)
BY RevokesTheFlagged, ExposedAreFlagged

(* Whatever a request grants, each exposed rule has a group that reports   *)
(* the ports through which it is reached, and a group names no port twice  *)
(* and the lowest first.                                                   *)
THEOREM ReportsEveryPort ==
  ASSUME NEW items \in Seq(Items), NoRuleTwice(items),
         NEW groups, groups = GroupByRule(IsPublicIngress(items))
  PROVE  /\ \A held \in ExposedRules(items) :
              \E i \in DOMAIN groups :
                /\ RevokeRequest(groups[i].rule) = held
                /\ ToSet(groups[i].ports) = ExposedPortsOf(held)
         /\ \A i \in DOMAIN groups :
              /\ RevokeRequest(groups[i].rule) \in FlaggedRules(items)
              /\ groups[i].ports \in Seq(RestrictedPorts)
              /\ ToSet(groups[i].ports) = CoveredPortsOf(RevokeRequest(groups[i].rule))
              /\ \A j, k \in DOMAIN groups[i].ports :
                   j < k => groups[i].ports[j] < groups[i].ports[k]
<1>1. /\ groups \in Groupings(RestrictedPorts, AllRules)
      /\ \A i \in DOMAIN groups :
           /\ RevokeRequest(groups[i].rule) \in FlaggedRules(items)
           /\ ToSet(groups[i].ports) = CoveredPortsOf(RevokeRequest(groups[i].rule))
           /\ Ordered(groups[i].ports, Less(RestrictedPorts))
      /\ \A held \in FlaggedRules(items) :
           \E i \in DOMAIN groups : RevokeRequest(groups[i].rule) = held
  BY GroupsAreFlaggedRules
<1>2. ASSUME NEW held \in ExposedRules(items)
      PROVE  \E i \in DOMAIN groups :
               /\ RevokeRequest(groups[i].rule) = held
               /\ ToSet(groups[i].ports) = ExposedPortsOf(held)
  <2>1. held \in FlaggedRules(items) /\ CoveredPortsOf(held) = ExposedPortsOf(held)
    BY ExposedAreFlagged
  <2> QED
    BY <1>1, <2>1
<1>3. ASSUME NEW i \in DOMAIN groups
      PROVE  /\ groups[i].ports \in Seq(RestrictedPorts)
             /\ \A j, k \in DOMAIN groups[i].ports :
                  j < k => groups[i].ports[j] < groups[i].ports[k]
  <2>1. groups[i] \in [rule : AllRules, ports : Seq(RestrictedPorts)]
    BY <1>1, LenProperties, ElementOfSeq DEF Groupings
  <2>2. groups[i].ports \in Seq(RestrictedPorts)
    BY <2>1
  <2>3. \A j, k \in DOMAIN groups[i].ports :
          j < k => groups[i].ports[j] < groups[i].ports[k]
    BY <1>1 DEF Ordered, Less
  <2> QED
    BY <2>2, <2>3
<1> QED
  BY <1>1, <1>2, <1>3

(* Two reports of the same ports are the same.                             *)
LEMMA ReportIsUnique ==
  ASSUME NEW s \in Seq(RestrictedPorts), NEW t \in Seq(RestrictedPorts),
         \A j, k \in DOMAIN s : j < k => s[j] < s[k],
         \A j, k \in DOMAIN t : j < k => t[j] < t[k],
         ToSet(s) = ToSet(t)
  PROVE  s = t
<1> DEFINE Ascends(u) == \A j, k \in DOMAIN u : j < k => u[j] < u[k]
           At(u, n) == IF n = 1 THEN IF 22 \in ToSet(u) THEN 22 ELSE 3389
                       ELSE 3389
           Size(u) == IF 22 \in ToSet(u)
                      THEN IF 3389 \in ToSet(u) THEN 2 ELSE 1
                      ELSE IF 3389 \in ToSet(u) THEN 1 ELSE 0
<1>1. ASSUME NEW u \in Seq(RestrictedPorts), Ascends(u)
      PROVE  Len(u) = Size(u) /\ \A n \in 1 .. Len(u) : u[n] = At(u, n)
  <2>1. /\ Len(u) \in Nat /\ DOMAIN u = 1 .. Len(u)
        /\ \A n \in 1 .. Len(u) : u[n] = 22 \/ u[n] = 3389
    <3>1. /\ Len(u) \in Nat /\ DOMAIN u = 1 .. Len(u)
          /\ \A n \in 1 .. Len(u) : u[n] \in RestrictedPorts
      BY LenProperties, ElementOfSeq
    <3> QED
      BY <3>1 DEF RestrictedPorts
  <2>2. \A j \in 1 .. Len(u), k \in 1 .. Len(u) : j < k => u[j] = 22 /\ u[k] = 3389
    <3> SUFFICES ASSUME NEW j \in 1 .. Len(u), NEW k \in 1 .. Len(u), j < k
                 PROVE  u[j] = 22 /\ u[k] = 3389
      OBVIOUS
    <3>1. u[j] < u[k]
      BY <1>1, <2>1
    <3> QED
      BY <2>1, <3>1
  <2>3. Len(u) <= 2
    <3> SUFFICES ASSUME Len(u) > 2 PROVE FALSE
      BY <2>1
    <3>1. 1 \in 1 .. Len(u) /\ 2 \in 1 .. Len(u) /\ 3 \in 1 .. Len(u)
      BY <2>1
    <3>2. u[2] = 3389
      BY <2>2, <3>1
    <3>3. u[2] = 22
      BY <2>2, <3>1
    <3> QED
      BY <3>2, <3>3
  <2>4. \A p : p \in ToSet(u) <=> \E n \in 1 .. Len(u) : u[n] = p
    <3>1. DOMAIN u = 1 .. Len(u)
      BY <2>1
    <3>2. ToSet(u) = {u[n] : n \in 1 .. Len(u)}
      BY <3>1 DEF ToSet
    <3> QED
      BY <3>2
  <2>5. CASE Len(u) = 0
    BY <2>4, <2>5
  <2>6. CASE Len(u) = 1
    <3>1. 1 .. Len(u) = {1}
      BY <2>6
    <3> QED
      BY <2>1, <2>4, <2>6, <3>1
  <2>7. CASE Len(u) = 2
    <3>1. 1 .. Len(u) = {1, 2}
      BY <2>7
    <3>2. u[1] = 22 /\ u[2] = 3389
      BY <2>2, <3>1
    <3> QED
      BY <2>4, <2>7, <3>1, <3>2
  <2> QED
    BY <2>1, <2>3, <2>5, <2>6, <2>7
<1>2. Ascends(s) /\ Ascends(t)
  OBVIOUS
<1> HIDE DEF Ascends
<1>3. /\ Len(s) = Size(s) /\ \A n \in 1 .. Len(s) : s[n] = At(s, n)
      /\ Len(t) = Size(t) /\ \A n \in 1 .. Len(t) : t[n] = At(t, n)
  BY <1>1, <1>2
<1>4. Size(s) = Size(t) /\ \A n : At(s, n) = At(t, n)
  OBVIOUS
<1> HIDE DEF Size, At
<1> QED
  BY <1>3, <1>4, SeqEqual

(* The restricted ports a rule EC2 holds exposes, in report order.         *)
ReportedPorts(held) ==
  IF held.cidr \in OpenCidrs
  THEN ExposedPorts([from |-> held.from, to |-> held.to])
  ELSE <<>>

(* The ports reported of a rule are those it covers, if it is open.        *)
LEMMA ReportedPortsAre ==
  ASSUME NEW held
  PROVE  /\ ReportedPorts(held) \in Seq(RestrictedPorts)
         /\ ToSet(ReportedPorts(held))
              = IF held.cidr \in OpenCidrs THEN CoveredPortsOf(held) ELSE {}
         /\ \A j, k \in DOMAIN ReportedPorts(held) :
              j < k => ReportedPorts(held)[j] < ReportedPorts(held)[k]
<1> DEFINE range == [from |-> held.from, to |-> held.to]
<1>1. CASE held.cidr \in OpenCidrs
  <2>1. ReportedPorts(held) = ExposedPorts(range)
    BY <1>1 DEF ReportedPorts
  <2>2. CoveredPortsOf(held) = {p \in RestrictedPorts : CoversPort(range, p)}
    BY DEF CoveredPortsOf
  <2> HIDE DEF range
  <2>3. /\ ExposedPorts(range) \in Seq(RestrictedPorts)
        /\ ToSet(ExposedPorts(range)) = {p \in RestrictedPorts : CoversPort(range, p)}
        /\ Ordered(ExposedPorts(range), Less(RestrictedPorts))
    BY ExposedPortsAre
  <2>4. \A j, k \in DOMAIN ExposedPorts(range) :
          j < k => ExposedPorts(range)[j] < ExposedPorts(range)[k]
    BY <2>3 DEF Ordered, Less
  <2> QED
    BY <1>1, <2>1, <2>2, <2>3, <2>4
<1>2. CASE held.cidr \notin OpenCidrs
  <2>1. ReportedPorts(held) = <<>>
    BY <1>2 DEF ReportedPorts
  <2>2. /\ <<>> \in Seq(RestrictedPorts) /\ ToSet(<<>>) = {} /\ DOMAIN <<>> = {}
    BY DEF ToSet
  <2> QED
    BY <1>2, <2>1, <2>2
<1> QED
  BY <1>1, <1>2

(* Whatever requests of rules that know ports people make, what detection  *)
(* makes of them is what the rule at work takes for granted                *)
(* (DetectionAssumption of SgRules): of the rules a request grants, those  *)
(* with a port to report are revoked, each once; and the ports reported    *)
(* are those of the group.                                                 *)
THEOREM DetectionMeetsSgRules ==
  ASSUME NEW Requests, NEW asked \in [Requests -> Seq(Items)],
         \A q \in Requests : NoRuleTwice(asked[q]),
         \A q \in Requests : \A held \in StoredRules(asked[q]) : HasPorts(held),
         NEW Rules, Rules = UNION {StoredRules(asked[q]) : q \in Requests},
         NEW Ports, Ports = [r \in Rules |-> ReportedPorts(r)],
         NEW Grants, Grants = [q \in Requests |-> StoredRules(asked[q])],
         NEW RevokeList, RevokeList = [q \in Requests |-> RevokeRequests(asked[q])]
  PROVE  /\ Ports \in [Rules -> Seq(Nat)]
         /\ Grants \in [Requests -> SUBSET Rules]
         /\ RevokeList \in [Requests -> Seq(Rules)]
         /\ \A q \in Requests :
              /\ {RevokeList[q][i] : i \in 1 .. Len(RevokeList[q])}
                   = Grants[q] \intersect {r \in Rules : Ports[r] # <<>>}
              /\ \A i, j \in 1 .. Len(RevokeList[q]) :
                   RevokeList[q][i] = RevokeList[q][j] => i = j
              /\ \A i \in DOMAIN GroupByRule(IsPublicIngress(asked[q])) :
                   LET group == GroupByRule(IsPublicIngress(asked[q]))[i]
                   IN  Ports[RevokeRequest(group.rule)] = group.ports
<1>1. \A q \in Requests : asked[q] \in Seq(Items)
  OBVIOUS
<1>2. ASSUME NEW q \in Requests, NEW r \in StoredRules(asked[q])
      PROVE  /\ r \in Rules
             /\ Filled(r) = r /\ CoveredPortsOf(r) = ExposedPortsOf(r)
  <2>1. PICK item \in Items : r \in HeldOf(item)
    BY <1>1, StoredRulesAre DEF StoredRules
  <2>2. HasPorts(r)
    OBVIOUS
  <2>3. Filled(r) = r /\ CoveredPortsOf(r) = ExposedPortsOf(r)
    BY <2>1, <2>2, PortsAreReached
  <2> QED
    BY <2>3
<1>3. ASSUME NEW q \in Requests
      PROVE  FlaggedRules(asked[q]) = ExposedRules(asked[q])
  <2>1. \A rule \in FlaggedRules(asked[q]) : HasPorts(rule)
    <3>1. \A rule \in FlaggedRules(asked[q]) :
            \E held \in StoredRules(asked[q]) : rule = Filled(held)
      BY <1>1, ExposedAreFlagged
    <3> QED
      BY <1>2, <3>1
  <2>2. ExposedRules(asked[q]) = {rule \in FlaggedRules(asked[q]) : HasPorts(rule)}
    BY <1>1, ExposedAreFlagged
  <2> QED
    BY <2>1, <2>2
<1>4. Grants \in [Requests -> SUBSET Rules]
  BY <1>2
<1>5. \A r \in Rules : /\ ReportedPorts(r) \in Seq(RestrictedPorts)
                       /\ ToSet(ReportedPorts(r))
                            = IF r.cidr \in OpenCidrs THEN ExposedPortsOf(r) ELSE {}
                       /\ \A j, k \in DOMAIN ReportedPorts(r) :
                            j < k => ReportedPorts(r)[j] < ReportedPorts(r)[k]
  BY <1>2, ReportedPortsAre
<1>6. Ports \in [Rules -> Seq(Nat)]
  <2>1. RestrictedPorts \subseteq Nat
    BY DEF RestrictedPorts
  <2>2. Seq(RestrictedPorts) \subseteq Seq(Nat)
    BY <2>1, SeqMonotonic
  <2> QED
    BY <1>5, <2>2
<1>7. ASSUME NEW r \in Rules
      PROVE  Ports[r] # <<>> <=> r.cidr \in OpenCidrs /\ ExposedPortsOf(r) # {}
  <2>1. Ports[r] = ReportedPorts(r)
    OBVIOUS
  <2>2. \A s \in Seq(RestrictedPorts) : s # <<>> <=> ToSet(s) # {}
    <3> SUFFICES ASSUME NEW s \in Seq(RestrictedPorts)
                 PROVE  s # <<>> <=> ToSet(s) # {}
      OBVIOUS
    <3>1. ToSet(<<>>) = {}
      BY DEF ToSet
    <3>2. ASSUME s # <<>> PROVE s[1] \in ToSet(s)
      <4>1. 1 \in DOMAIN s
        BY <3>2, EmptySeq, LenProperties
      <4> QED
        BY <4>1 DEF ToSet
    <3> QED
      BY <3>1, <3>2
  <2> QED
    BY <1>5, <2>1, <2>2
<1>8. ASSUME NEW q \in Requests
      PROVE  /\ RevokeList[q] \in Seq(Rules)
             /\ {RevokeList[q][i] : i \in 1 .. Len(RevokeList[q])}
                  = Grants[q] \intersect {r \in Rules : Ports[r] # <<>>}
             /\ \A i, j \in 1 .. Len(RevokeList[q]) :
                  RevokeList[q][i] = RevokeList[q][j] => i = j
  <2> DEFINE list == RevokeRequests(asked[q])
             exposed == ExposedRules(asked[q])
  <2>1. list \in Seq(exposed) /\ ToSet(list) = exposed /\ IsInjective(list)
    BY <1>1, <1>3, RevokesTheFlagged
  <2>2. RevokeList[q] = list /\ Grants[q] = StoredRules(asked[q])
    OBVIOUS
  <2>3. exposed = {r \in StoredRules(asked[q]) :
                     r.cidr \in OpenCidrs /\ ExposedPortsOf(r) # {}}
    BY DEF ExposedRules, OpenCidrs
  <2>4. StoredRules(asked[q]) \subseteq Rules
    BY <1>2
  <2>5. exposed = Grants[q] \intersect {r \in Rules : Ports[r] # <<>>}
    <3> HIDE DEF exposed
    <3> QED
      BY <1>7, <2>2, <2>3, <2>4
  <2>6. exposed \subseteq Rules
    BY <2>3, <2>4
  <2> HIDE DEF list, exposed
  <2>7. DOMAIN list = 1 .. Len(list)
    BY <2>1, LenProperties
  <2>8. list \in Seq(Rules)
    BY <2>1, <2>6, SeqMonotonic
  <2>9. {list[i] : i \in 1 .. Len(list)} = exposed
    BY <2>1, <2>7 DEF ToSet
  <2>10. \A i, j \in 1 .. Len(list) : list[i] = list[j] => i = j
    BY <2>1, <2>7 DEF IsInjective
  <2>11. RevokeList[q] \in Seq(Rules)
    BY <2>2, <2>8
  <2>12. {RevokeList[q][i] : i \in 1 .. Len(RevokeList[q])}
           = Grants[q] \intersect {r \in Rules : Ports[r] # <<>>}
    <3>1. {RevokeList[q][i] : i \in 1 .. Len(RevokeList[q])}
            = {list[i] : i \in 1 .. Len(list)}
      BY <2>2, Zenon
    <3> HIDE DEF exposed
    <3> QED
      BY <2>5, <2>9, <3>1
  <2>13. \A i, j \in 1 .. Len(RevokeList[q]) :
           RevokeList[q][i] = RevokeList[q][j] => i = j
    BY <2>2, <2>10
  <2> QED
    BY <2>11, <2>12, <2>13
<1>9. RevokeList \in [Requests -> Seq(Rules)]
  BY <1>8
<1>10. ASSUME NEW q \in Requests, NEW i \in DOMAIN GroupByRule(IsPublicIngress(asked[q]))
       PROVE  LET group == GroupByRule(IsPublicIngress(asked[q]))[i]
              IN  Ports[RevokeRequest(group.rule)] = group.ports
  <2> DEFINE group == GroupByRule(IsPublicIngress(asked[q]))[i]
             held == RevokeRequest(group.rule)
  <2>1. /\ held \in ExposedRules(asked[q])
        /\ group.ports \in Seq(RestrictedPorts)
        /\ ToSet(group.ports) = ExposedPortsOf(held)
        /\ \A j, k \in DOMAIN group.ports : j < k => group.ports[j] < group.ports[k]
    <3> DEFINE groups == GroupByRule(IsPublicIngress(asked[q]))
    <3>1. i \in DOMAIN groups /\ group = groups[i]
      OBVIOUS
    <3>2. /\ RevokeRequest(groups[i].rule) \in FlaggedRules(asked[q])
          /\ groups[i].ports \in Seq(RestrictedPorts)
          /\ ToSet(groups[i].ports) = CoveredPortsOf(RevokeRequest(groups[i].rule))
          /\ \A j, k \in DOMAIN groups[i].ports :
               j < k => groups[i].ports[j] < groups[i].ports[k]
      <4>1. asked[q] \in Seq(Items) /\ NoRuleTwice(asked[q])
        BY <1>1
      <4> HIDE DEF groups
      <4> QED
        BY <3>1, <4>1, ReportsEveryPort DEF groups
    <3>3. held \in ExposedRules(asked[q])
      BY <1>3, <3>1, <3>2
    <3>4. held \in StoredRules(asked[q])
      BY <3>3 DEF ExposedRules
    <3>5. CoveredPortsOf(held) = ExposedPortsOf(held)
      BY <1>2, <3>4
    <3> HIDE DEF groups
    <3> QED
      BY <3>1, <3>2, <3>3, <3>5
  <2> HIDE DEF group, held
  <2>2. held \in StoredRules(asked[q]) /\ held.cidr \in OpenCidrs
    BY <2>1 DEF ExposedRules, OpenCidrs
  <2>3. held \in Rules
    BY <1>2, <2>2
  <2>4. ReportedPorts(held) = group.ports
    BY <1>5, <2>1, <2>2, <2>3, ReportIsUnique
  <2>5. Ports[held] = group.ports
    BY <2>3, <2>4
  <2> QED
    BY <2>5 DEF group, held
<1> QED
  BY <1>4, <1>6, <1>8, <1>9, <1>10

-----------------------------------------------------------------------------
(* The rules of a group as they are added one at a time.                   *)

(* What EC2 let into the group.                                            *)
Requested == perms \in Seq(Items) /\ NoRuleTwice(perms)

(* An item that names no rule again leaves the group without a rule twice. *)
LEMMA AddItemRequested ==
  ASSUME Requested, NEW item \in Items, AddItem(item)
  PROVE  Requested'
<1> DEFINE n == Len(perms)
<1>1. /\ DOMAIN perms = 1 .. n /\ n \in Nat
      /\ \A i \in 1 .. n : perms[i] \in Items
  BY StoredRulesAre DEF Requested
<1>2. /\ perms' \in Seq(Items)
      /\ Len(perms') = n + 1
      /\ \A i \in 1 .. n : perms'[i] = perms[i]
      /\ perms'[n + 1] = item
  BY AppendProperties DEF AddItem, Requested
<1>3. DOMAIN perms' = 1 .. n + 1
  BY <1>2, LenProperties
<1>4. ASSUME NEW i \in 1 .. n
      PROVE  StoredRules(<<perms[i]>>) \intersect StoredRules(<<item>>) = {}
  <2>1. StoredRules(perms) \intersect StoredRules(<<item>>) = {}
    BY DEF AddItem
  <2>2. StoredRules(<<perms[i]>>) \subseteq StoredRules(perms)
    BY <1>1, StoredRulesOfOne DEF StoredRules
  <2> QED
    BY <2>1, <2>2
<1>5. ASSUME NEW i \in 1 .. n + 1, NEW j \in 1 .. n + 1, i # j
      PROVE  StoredRules(<<perms'[i]>>) \intersect StoredRules(<<perms'[j]>>) = {}
  <2>1. CASE i = n + 1
    <3>1. j \in 1 .. n
      BY <1>1, <1>5, <2>1
    <3> QED
      BY <1>2, <1>4, <2>1, <3>1
  <2>2. CASE j = n + 1
    <3>1. i \in 1 .. n
      BY <1>1, <1>5, <2>2
    <3> QED
      BY <1>2, <1>4, <2>2, <3>1
  <2>3. CASE i # n + 1 /\ j # n + 1
    <3>1. i \in 1 .. n /\ j \in 1 .. n
      BY <1>1, <2>3
    <3>2. i \in DOMAIN perms /\ j \in DOMAIN perms
      BY <1>1, <3>1
    <3>3. StoredRules(<<perms[i]>>) \intersect StoredRules(<<perms[j]>>) = {}
      BY <1>5, <3>2 DEF Requested, NoRuleTwice
    <3> QED
      BY <1>2, <3>1, <3>3
  <2> QED
    BY <2>1, <2>2, <2>3
<1>6. NoRuleTwice(perms')
  BY <1>3, <1>5 DEF NoRuleTwice
<1> QED
  BY <1>2, <1>6 DEF Requested

(* Of such a group the engine revokes the exposed rules ...                *)
LEMMA RequestedRevokesTheExposed ==
  ASSUME Requested
  PROVE  ExposedRulesAreRevoked
BY RevokesTheExposed DEF Requested, ExposedRulesAreRevoked

(* ... and reports every port each of them exposes.                        *)
LEMMA RequestedReportsEveryPort ==
  ASSUME Requested
  PROVE  EveryExposedPortReported
<1> DEFINE groups == GroupByRule(IsPublicIngress(perms))
<1>1. /\ \A held \in ExposedRules(perms) :
           \E i \in DOMAIN groups :
             /\ RevokeRequest(groups[i].rule) = held
             /\ ToSet(groups[i].ports) = ExposedPortsOf(held)
      /\ \A i \in DOMAIN groups :
           \A j, k \in DOMAIN groups[i].ports :
             j < k => groups[i].ports[j] < groups[i].ports[k]
  <2> HIDE DEF groups
  <2> QED
    BY ReportsEveryPort DEF Requested, groups
<1> QED
  BY <1>1 DEF EveryExposedPortReported

(* A rule that is revoked has a range of ports, or all traffic.            *)
LEMMA RequestedRanges ==
  ASSUME Requested, NEW r \in ToSet(RevokeRequests(perms))
  PROVE  IF r.protocol = AllTraffic THEN r.from = Absent /\ r.to = Absent
         ELSE 0 <= r.from /\ r.from <= r.to /\ r.to <= 65535
<1>1. r \in FlaggedRules(perms)
  BY RevokesTheFlagged DEF Requested
<1>2. r \in AskedRules(perms) /\ CoveredPortsOf(r) # {}
  BY <1>1 DEF FlaggedRules
<1>3. PICK item \in Items : r \in Leaves(item)
  BY <1>2, StoredRulesAre DEF Requested, AskedRules
<1>4. /\ r.protocol = item.protocol
      /\ r.from = PortRange(item).from /\ r.to = PortRange(item).to
  BY <1>3 DEF Leaves, RevokeRequest, RuleOf
<1>5. CASE item.protocol = AllTraffic
  BY <1>4, <1>5, RangeIsKept
<1>6. CASE item.protocol # AllTraffic
  <2>1. /\ r.from \in Int /\ -1 <= r.from
        /\ r.to \in Int /\ r.to <= 65535
        /\ r.from = -1 => r.to = -1
    BY <1>4, <1>6, RangeIsKept
  <2>2. PICK p \in RestrictedPorts : CoversPort([from |-> r.from, to |-> r.to], p)
    BY <1>2 DEF CoveredPortsOf
  <2>3. r.from <= p /\ p <= r.to /\ p \in Int /\ p > 0
    BY <2>1, <2>2 DEF CoversPort, Absent, RestrictedPorts
  <2> QED
    BY <1>4, <1>6, <2>1, <2>3
<1> QED
  BY <1>5, <1>6

=============================================================================
