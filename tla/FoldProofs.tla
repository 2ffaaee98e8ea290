----------------------------- MODULE FoldProofs -----------------------------
(***************************************************************************)
(* What the proofs about recursive data need: induction over the numbers   *)
(* and over the subsets of a finite set, in the form of a set that is      *)
(* closed; that a function defined by recursion over either exists; and    *)
(* with that what flattening a sequence of sequences yields, and what a    *)
(* sum of counts is.                                                       *)
(***************************************************************************)
EXTENDS Integers, Sequences, FiniteSets, SequencesExt, FiniteSetsExt,
        FiniteSetTheorems, SequenceTheorems, WellFoundedInduction, TLAPS

-----------------------------------------------------------------------------
(* Induction.                                                              *)

(* A set that holds 0 and the successor of each number it holds has them   *)
(* all.                                                                    *)
LEMMA NaturalInduct ==
  ASSUME NEW T, 0 \in T, \A n \in Nat : n \in T => n + 1 \in T
  PROVE  Nat \subseteq T
<1> DEFINE Missing == Nat \ T
<1>1. SUFFICES ASSUME Missing # {} PROVE FALSE
  OBVIOUS
<1>2. PICK m \in Missing : \A k \in Missing : ~ (<<k, m>> \in OpToRel(<, Nat))
  <2>1. Missing \subseteq Nat
    OBVIOUS
  <2> HIDE DEF Missing
  <2> QED
    BY <1>1, <2>1, NatLessThanWellFounded, WFMin
<1>3. m \in Nat /\ m # 0 /\ m - 1 \in Nat
  OBVIOUS
<1>4. m - 1 \notin T
  BY <1>3
<1>5. <<m - 1, m>> \in OpToRel(<, Nat)
  BY <1>3 DEF OpToRel
<1> QED
  BY <1>2, <1>3, <1>4, <1>5

(* So has a collection of sets that holds the empty one, and each subset   *)
(* of a finite set that it holds but for one element.                      *)
LEMMA SubsetInduct ==
  ASSUME NEW S, IsFiniteSet(S), NEW C, {} \in C,
         \A T \in SUBSET S : T # {} /\ (\A x \in T : T \ {x} \in C) => T \in C
  PROVE  SUBSET S \subseteq C
<1> DEFINE Missing == (SUBSET S) \ C
<1>1. SUFFICES ASSUME Missing # {} PROVE FALSE
  OBVIOUS
<1>2. PICK T \in Missing : \A R \in Missing : ~ (<<R, T>> \in StrictSubsetOrdering(S))
  <2>1. IsWellFoundedOn(StrictSubsetOrdering(S), SUBSET S)
    BY FS_StrictSubsetOrderingWellFounded, FS_FiniteSubsetsOfFinite
  <2>2. Missing \subseteq SUBSET S
    OBVIOUS
  <2> HIDE DEF Missing
  <2> QED
    BY <1>1, <2>1, <2>2, WFMin
<1>3. PICK x \in T : T \ {x} \notin C
  OBVIOUS
<1>4. T \ {x} \in Missing
  BY <1>3
<1>5. <<T \ {x}, T>> \in StrictSubsetOrdering(S)
  BY <1>3 DEF StrictSubsetOrdering
<1> QED
  BY <1>2, <1>4, <1>5

(* A finite set of numbers has a last one.                                 *)
LEMMA LastOf ==
  ASSUME NEW T \in SUBSET Nat, IsFiniteSet(T), T # {}
  PROVE  \E m \in T : \A k \in T : k <= m
<1> DEFINE After(m) == {j \in T : j > m}
           Afters == {After(m) : m \in T}
<1>1. Afters \subseteq FiniteSubsetsOf(T) /\ Afters # {}
  <2>1. ASSUME NEW m \in T PROVE After(m) \in FiniteSubsetsOf(T)
    BY FS_Subset DEF FiniteSubsetsOf
  <2> QED
    BY <2>1
<1>2. PICK A \in Afters : \A B \in Afters : ~ (<<B, A>> \in StrictSubsetOrdering(T))
  <2>1. IsWellFoundedOn(StrictSubsetOrdering(T), FiniteSubsetsOf(T))
    BY FS_StrictSubsetOrderingWellFounded
  <2> HIDE DEF Afters
  <2> QED
    BY <1>1, <2>1, WFMin
<1>3. PICK m \in T : A = After(m)
  BY <1>2
<1>4. SUFFICES ASSUME NEW k \in T, k > m PROVE FALSE
  BY <1>3
<1>5. After(k) \subseteq After(m) /\ After(k) # After(m)
  <2>1. k \in After(m) /\ k \notin After(k)
    BY <1>4
  <2>2. ASSUME NEW j \in T, j > k PROVE j > m
    BY <1>4, <2>2
  <2>3. After(k) \subseteq After(m)
    BY <2>2
  <2>4. After(k) # After(m)
    BY <2>1
  <2> QED
    BY <2>3, <2>4
<1>6. <<After(k), A>> \in StrictSubsetOrdering(T)
  BY <1>3, <1>5 DEF StrictSubsetOrdering
<1> QED
  BY <1>2, <1>6

-----------------------------------------------------------------------------
(* Recursion.                                                              *)

(* g goes from base through a set, taking out the element picked.          *)
Folding(g, S, base, F, pick) ==
  \A T \in SUBSET S :
    g[T] = IF T = {} THEN base ELSE F[<<pick[T], g[T \ {pick[T]}]>>]

(* A function of the subsets of a finite set may be defined by taking out  *)
(* an element and going on with the rest.                                  *)
LEMMA FoldDefined ==
  ASSUME NEW S, IsFiniteSet(S), NEW V, NEW base \in V,
         NEW F \in [S \X V -> V],
         NEW pick, \A T \in SUBSET S : T # {} => pick[T] \in T
  PROVE  \E g \in [SUBSET S -> V] : Folding(g, S, base, F, pick)
<1> DEFINE Step(g, T) == IF T = {} THEN base ELSE F[<<pick[T], g[T \ {pick[T]}]>>]
           UpTo(n) == \E g \in [SUBSET S -> V] :
                        \A T \in SUBSET S : Cardinality(T) <= n => g[T] = Step(g, T)
           Reached == {n \in Nat : UpTo(n)}
<1>1. \A T \in SUBSET S : Cardinality(T) \in Nat /\ Cardinality(T) <= Cardinality(S)
  BY FS_Subset, FS_CardinalityType
<1>2. \A T \in SUBSET S : T # {} =>
        Cardinality(T \ {pick[T]}) = Cardinality(T) - 1
  BY FS_Subset, FS_RemoveElement
<1>3. \A g \in [SUBSET S -> V], T \in SUBSET S : Step(g, T) \in V
  OBVIOUS
<1>4. UpTo(0)
  <2> DEFINE g == [T \in SUBSET S |-> base]
  <2>1. ASSUME NEW T \in SUBSET S, Cardinality(T) <= 0 PROVE T = {}
    <3>1. Cardinality(T) = 0 /\ IsFiniteSet(T)
      BY <1>1, <2>1, FS_Subset
    <3> QED
      BY <3>1, FS_EmptySet
  <2>2. g \in [SUBSET S -> V]
    OBVIOUS
  <2> QED
    BY <2>1, <2>2
<1>5. ASSUME NEW n \in Nat, UpTo(n) PROVE UpTo(n + 1)
  <2>1. PICK g \in [SUBSET S -> V] :
          \A T \in SUBSET S : Cardinality(T) <= n => g[T] = Step(g, T)
    BY <1>5
  <2> DEFINE h == [T \in SUBSET S |-> IF Cardinality(T) <= n THEN g[T] ELSE Step(g, T)]
  <2>2. h \in [SUBSET S -> V]
    BY <1>3
  <2>3. ASSUME NEW T \in SUBSET S PROVE h[T] = Step(g, T)
    BY <2>1
  <2>4. ASSUME NEW T \in SUBSET S, Cardinality(T) <= n + 1
        PROVE  Step(g, T) = Step(h, T)
    <3>1. CASE T = {}
      BY <3>1
    <3>2. CASE T # {}
      <4>1. T \ {pick[T]} \in SUBSET S /\ Cardinality(T \ {pick[T]}) <= n
        BY <1>1, <1>2, <2>4, <3>2
      <4>2. h[T \ {pick[T]}] = g[T \ {pick[T]}]
        BY <4>1
      <4> QED
        BY <3>2, <4>2
    <3> QED
      BY <3>1, <3>2
  <2>5. ASSUME NEW T \in SUBSET S, Cardinality(T) <= n + 1 PROVE h[T] = Step(h, T)
    <3> HIDE DEF h, Step
    <3> QED
      BY <2>3, <2>4, <2>5
  <2> HIDE DEF h, Step
  <2> QED
    BY <2>2, <2>5
<1>6. Cardinality(S) \in Reached
  <2>1. 0 \in Reached
    BY <1>4
  <2>2. \A n \in Nat : n \in Reached => n + 1 \in Reached
    <3> HIDE DEF UpTo
    <3> QED
      BY <1>5
  <2> HIDE DEF Reached
  <2> QED
    BY <1>1, <2>1, <2>2, NaturalInduct
<1> HIDE DEF Step
<1> QED
  <2>1. PICK g \in [SUBSET S -> V] :
          \A T \in SUBSET S : Cardinality(T) <= Cardinality(S) => g[T] = Step(g, T)
    BY <1>6
  <2>2. \A T \in SUBSET S : g[T] = Step(g, T)
    BY <1>1, <2>1
  <2> QED
    BY <2>2 DEF Step, Folding

(* g begins with base and goes on by F.                                    *)
Recursion(g, n, base, F) ==
  /\ g[0] = base
  /\ \A i \in 1 .. n : g[i] = F[<<i, g[i - 1]>>]

(* A function of the first numbers may be defined by going on from the one *)
(* before.                                                                 *)
LEMMA RecursionDefined ==
  ASSUME NEW n \in Nat, NEW V, NEW base \in V, NEW F \in [(1 .. n) \X V -> V]
  PROVE  \E g \in [0 .. n -> V] : Recursion(g, n, base, F)
<1> DEFINE Good(g, m) == /\ g[0] = base
                         /\ \A i \in 1 .. n : i <= m => g[i] = F[<<i, g[i - 1]>>]
           UpTo(m) == \E g \in [0 .. n -> V] : Good(g, m)
           Reached == {m \in Nat : UpTo(m)}
<1>1. UpTo(0)
  <2> DEFINE g == [i \in 0 .. n |-> base]
  <2>1. g \in [0 .. n -> V] /\ Good(g, 0)
    OBVIOUS
  <2> QED
    BY <2>1
<1>2. ASSUME NEW m \in Nat, UpTo(m) PROVE UpTo(m + 1)
  <2>1. PICK g \in [0 .. n -> V] : Good(g, m)
    BY <1>2
  <2>2. CASE m + 1 > n
    <3>1. \A i \in 1 .. n : i <= m
      BY <2>2
    <3>2. Good(g, m + 1)
      BY <2>1, <3>1
    <3> QED
      BY <3>2
  <2>3. CASE m + 1 <= n
    <3>1. m + 1 \in 1 .. n /\ m \in 0 .. n /\ m + 1 \in 0 .. n
      BY <2>3
    <3> DEFINE next == F[<<m + 1, g[m]>>]
               h == [g EXCEPT ![m + 1] = next]
    <3>2. next \in V
      BY <3>1
    <3>3. h \in [0 .. n -> V] /\ h[m + 1] = next
      BY <3>1, <3>2
    <3>4. \A i \in 0 .. n : i <= m => h[i] = g[i]
      BY <3>1
    <3>5. h[0] = base
      BY <2>1, <3>4
    <3>6. ASSUME NEW i \in 1 .. n, i <= m + 1 PROVE h[i] = F[<<i, h[i - 1]>>]
      <4>1. i - 1 \in 0 .. n /\ i - 1 <= m /\ i \in 0 .. n
        BY <3>6
      <4>2. h[i - 1] = g[i - 1]
        BY <3>4, <4>1
      <4>3. CASE i = m + 1
        <5>1. i - 1 = m
          BY <4>3
        <5> QED
          BY <3>3, <4>2, <4>3, <5>1
      <4>4. CASE i # m + 1
        <5>1. i <= m
          BY <3>6, <4>4
        <5> QED
          BY <2>1, <3>4, <4>1, <4>2, <5>1
      <4> QED
        BY <4>3, <4>4
    <3> HIDE DEF h
    <3> QED
      BY <3>3, <3>5, <3>6
  <2> QED
    BY <2>2, <2>3
<1>3. n \in Reached
  <2>1. 0 \in Reached
    BY <1>1
  <2>2. \A m \in Nat : m \in Reached => m + 1 \in Reached
    <3> HIDE DEF UpTo
    <3> QED
      BY <1>2
  <2> HIDE DEF Reached
  <2> QED
    BY <2>1, <2>2, NaturalInduct
<1> QED
  BY <1>3 DEF Recursion

-----------------------------------------------------------------------------
(* Flattening.                                                             *)

(* The elements of two sequences put together.                             *)
LEMMA ElementsOfConcat ==
  ASSUME NEW S, NEW s \in Seq(S), NEW t \in Seq(S)
  PROVE  ToSet(s \o t) = ToSet(s) \union ToSet(t)
<1>1. /\ Len(s) \in Nat /\ DOMAIN s = 1 .. Len(s)
      /\ Len(t) \in Nat /\ DOMAIN t = 1 .. Len(t)
  BY LenProperties
<1>2. /\ s \o t \in Seq(S)
      /\ Len(s \o t) = Len(s) + Len(t)
      /\ \A i \in 1 .. Len(s) + Len(t) :
           (s \o t)[i] = IF i <= Len(s) THEN s[i] ELSE t[i - Len(s)]
  BY ConcatProperties
<1>3. DOMAIN (s \o t) = 1 .. Len(s) + Len(t)
  BY <1>2, LenProperties
<1>4. ASSUME NEW x \in ToSet(s \o t) PROVE x \in ToSet(s) \union ToSet(t)
  <2>1. PICK i \in 1 .. Len(s) + Len(t) : x = (s \o t)[i]
    BY <1>3 DEF ToSet
  <2>2. CASE i <= Len(s)
    <3>1. i \in 1 .. Len(s) /\ x = s[i]
      BY <1>1, <1>2, <2>1, <2>2
    <3> QED
      BY <1>1, <3>1 DEF ToSet
  <2>3. CASE ~ (i <= Len(s))
    <3>1. i - Len(s) \in 1 .. Len(t) /\ x = t[i - Len(s)]
      BY <1>1, <1>2, <2>1, <2>3
    <3> QED
      BY <1>1, <3>1 DEF ToSet
  <2> QED
    BY <2>2, <2>3
<1>5. ASSUME NEW x \in ToSet(s) PROVE x \in ToSet(s \o t)
  <2>1. PICK i \in 1 .. Len(s) : x = s[i]
    BY <1>1 DEF ToSet
  <2>2. i \in 1 .. Len(s) + Len(t) /\ (s \o t)[i] = x
    BY <1>1, <1>2, <2>1
  <2> QED
    BY <1>3, <2>2 DEF ToSet
<1>6. ASSUME NEW x \in ToSet(t) PROVE x \in ToSet(s \o t)
  <2>1. PICK i \in 1 .. Len(t) : x = t[i]
    BY <1>1 DEF ToSet
  <2>2. i + Len(s) \in 1 .. Len(s) + Len(t) /\ ~ (i + Len(s) <= Len(s))
        /\ (i + Len(s)) - Len(s) = i
    BY <1>1
  <2>3. (s \o t)[i + Len(s)] = x
    BY <1>2, <2>1, <2>2
  <2> QED
    BY <1>3, <2>2, <2>3 DEF ToSet
<1> QED
  BY <1>4, <1>5, <1>6

(* Sequences flattened are put behind one another, from the empty one on.  *)
LEMMA FlattenUnfold ==
  ASSUME NEW S, NEW seqs \in Seq(Seq(S))
  PROVE  \E f \in [0 .. Len(seqs) -> Seq(S)] :
           /\ f[0] = <<>>
           /\ \A i \in 1 .. Len(seqs) : f[i] = f[i - 1] \o seqs[i]
           /\ FlattenSeq(seqs) = f[Len(seqs)]
<1> DEFINE n == Len(seqs)
           F == [p \in (1 .. n) \X Seq(S) |-> p[2] \o seqs[p[1]]]
<1>1. n \in Nat /\ DOMAIN seqs = 1 .. n /\ \A i \in 1 .. n : seqs[i] \in Seq(S)
  BY LenProperties, ElementOfSeq
<1>2. F \in [(1 .. n) \X Seq(S) -> Seq(S)]
  BY <1>1, ConcatProperties
<1>3. <<>> \in Seq(S)
  BY EmptySeq
<1>4. PICK f \in [0 .. n -> Seq(S)] :
        /\ f[0] = <<>>
        /\ \A i \in 1 .. n : f[i] = F[<<i, f[i - 1]>>]
  <2> DEFINE V == Seq(S)
             base == <<>>
  <2>1. n \in Nat /\ base \in V /\ F \in [(1 .. n) \X V -> V]
    BY <1>1, <1>2, <1>3
  <2> HIDE DEF F, n, V, base
  <2>2. \E f \in [0 .. n -> V] : Recursion(f, n, base, F)
    BY <2>1, RecursionDefined
  <2> QED
    BY <2>2 DEF V, base, Recursion
<1>5. ASSUME NEW i \in 1 .. n PROVE f[i] = f[i - 1] \o seqs[i]
  <2>1. i - 1 \in 0 .. n
    BY <1>1
  <2>2. <<i, f[i - 1]>> \in (1 .. n) \X Seq(S)
    BY <1>4, <2>1
  <2> QED
    BY <1>4, <2>2
<1>6. ASSUME NEW i \in 1 .. n, i = 1 PROVE f[i] = seqs[i]
  <2>1. i - 1 = 0
    BY <1>6
  <2>2. f[i - 1] = <<>>
    BY <1>4, <2>1
  <2> QED
    BY <1>1, <1>5, <2>2, ConcatEmptySeq
<1>7. FlattenSeq(seqs) = f[n]
  <2>1. CASE n = 0
    <3>1. seqs = <<>>
      BY <2>1, EmptySeq
    <3> QED
      BY <1>4, <2>1, <3>1 DEF FlattenSeq
  <2>2. CASE n # 0
    <3> DEFINE Is(g) == g = [i \in 1 .. n |-> IF i = 1 THEN seqs[i] ELSE g[i - 1] \o seqs[i]]
               k == CHOOSE g : Is(g)
    <3>1. FlattenSeq(seqs) = k[n]
      BY <2>2 DEF FlattenSeq
    <3>2. Is([i \in 1 .. n |-> f[i]])
      <4> DEFINE h == [i \in 1 .. n |-> f[i]]
      <4>1. ASSUME NEW i \in 1 .. n
            PROVE  h[i] = IF i = 1 THEN seqs[i] ELSE h[i - 1] \o seqs[i]
        <5>1. CASE i = 1
          BY <1>6, <5>1
        <5>2. CASE i # 1
          <6>1. i - 1 \in 1 .. n
            BY <1>1, <5>2
          <6> QED
            BY <1>5, <5>2, <6>1
        <5> QED
          BY <5>1, <5>2
      <4> QED
        BY <4>1
    <3>3. Is(k)
      <4> HIDE DEF Is
      <4> QED
        BY <3>2
    <3>4. \A i \in 1 .. n : k[i] = IF i = 1 THEN seqs[i] ELSE k[i - 1] \o seqs[i]
      <4> HIDE DEF k
      <4> QED
        BY <3>3
    <3> HIDE DEF k
    <3> DEFINE Same == {i \in Nat : i + 1 \in 1 .. n => k[i + 1] = f[i + 1]}
    <3>5. 0 \in Same
      <4>1. 1 \in 1 .. n
        BY <1>1, <2>2
      <4>2. k[1] = seqs[1]
        BY <3>4, <4>1
      <4>4. f[1] = seqs[1]
        BY <1>6, <4>1
      <4> QED
        BY <4>2, <4>4
    <3>6. ASSUME NEW i \in Nat, i \in Same PROVE i + 1 \in Same
      <4>1. SUFFICES ASSUME i + 2 \in 1 .. n PROVE k[i + 2] = f[i + 2]
        OBVIOUS
      <4>2. i + 1 \in 1 .. n /\ (i + 2) - 1 = i + 1 /\ i + 2 # 1
        BY <1>1, <4>1
      <4>3. k[i + 1] = f[i + 1]
        BY <3>6, <4>2
      <4>4. k[i + 2] = k[i + 1] \o seqs[i + 2]
        BY <3>4, <4>1, <4>2
      <4>5. f[i + 2] = f[i + 1] \o seqs[i + 2]
        BY <1>5, <4>1, <4>2
      <4> QED
        BY <4>3, <4>4, <4>5
    <3>7. n - 1 \in Same
      <4>1. n - 1 \in Nat
        BY <1>1, <2>2
      <4> HIDE DEF Same
      <4> QED
        BY <3>5, <3>6, <4>1, NaturalInduct
    <3>8. (n - 1) + 1 = n /\ n \in 1 .. n
      BY <1>1, <2>2
    <3> QED
      BY <3>1, <3>7, <3>8
  <2> QED
    BY <2>1, <2>2
<1> QED
  BY <1>4, <1>5, <1>7

(* What is flattened so far has the elements of the parts so far.          *)
LEMMA FlattenPrefixes ==
  ASSUME NEW S, NEW seqs \in Seq(Seq(S))
  PROVE  \E f \in [0 .. Len(seqs) -> Seq(S)] :
           /\ f[0] = <<>>
           /\ \A i \in 1 .. Len(seqs) : f[i] = f[i - 1] \o seqs[i]
           /\ FlattenSeq(seqs) = f[Len(seqs)]
           /\ \A m \in 0 .. Len(seqs) :
                ToSet(f[m]) = UNION {ToSet(seqs[i]) : i \in 1 .. m}
<1> DEFINE n == Len(seqs)
<1>1. n \in Nat /\ DOMAIN seqs = 1 .. n /\ \A i \in 1 .. n : seqs[i] \in Seq(S)
  BY LenProperties, ElementOfSeq
<1>2. PICK f \in [0 .. n -> Seq(S)] :
        /\ f[0] = <<>>
        /\ \A i \in 1 .. n : f[i] = f[i - 1] \o seqs[i]
        /\ FlattenSeq(seqs) = f[n]
  BY FlattenUnfold
<1> DEFINE Parts(m) == UNION {ToSet(seqs[i]) : i \in 1 .. m}
           Right == {m \in Nat : m <= n => ToSet(f[m]) = Parts(m)}
<1>3. 0 \in Right
  <2>1. ToSet(<<>>) = {}
    BY DEF ToSet
  <2>2. Parts(0) = {}
    OBVIOUS
  <2> QED
    BY <1>2, <2>1, <2>2
<1>4. ASSUME NEW m \in Nat, m \in Right PROVE m + 1 \in Right
  <2>1. SUFFICES ASSUME m + 1 <= n PROVE ToSet(f[m + 1]) = Parts(m + 1)
    OBVIOUS
  <2>2. m + 1 \in 1 .. n /\ m \in 0 .. n /\ (m + 1) - 1 = m
    BY <1>1, <2>1
  <2>3. f[m + 1] = f[m] \o seqs[m + 1] /\ f[m] \in Seq(S) /\ seqs[m + 1] \in Seq(S)
    BY <1>1, <1>2, <2>2
  <2>4. ToSet(f[m + 1]) = ToSet(f[m]) \union ToSet(seqs[m + 1])
    BY <2>3, ElementsOfConcat
  <2>5. ToSet(f[m]) = Parts(m)
    BY <1>4, <2>2
  <2>6. 1 .. m + 1 = (1 .. m) \union {m + 1}
    OBVIOUS
  <2>7. Parts(m + 1) = Parts(m) \union ToSet(seqs[m + 1])
    BY <2>6
  <2> QED
    BY <2>4, <2>5, <2>7
<1>5. Nat \subseteq Right
  <2> HIDE DEF Right
  <2> QED
    BY <1>3, <1>4, NaturalInduct
<1>6. \A m \in 0 .. n : ToSet(f[m]) = Parts(m)
  BY <1>1, <1>5
<1> HIDE DEF n
<1> QED
  BY <1>2, <1>6 DEF n

(* The elements of what is flattened are those of the parts.               *)
LEMMA FlattenElements ==
  ASSUME NEW S, NEW seqs \in Seq(Seq(S))
  PROVE  /\ FlattenSeq(seqs) \in Seq(S)
         /\ ToSet(FlattenSeq(seqs)) = UNION {ToSet(seqs[i]) : i \in 1 .. Len(seqs)}
<1> DEFINE n == Len(seqs)
<1>1. n \in Nat /\ n \in 0 .. n
  BY LenProperties
<1>2. PICK f \in [0 .. n -> Seq(S)] :
        /\ f[0] = <<>>
        /\ \A i \in 1 .. n : f[i] = f[i - 1] \o seqs[i]
        /\ FlattenSeq(seqs) = f[n]
        /\ \A m \in 0 .. n : ToSet(f[m]) = UNION {ToSet(seqs[i]) : i \in 1 .. m}
  BY FlattenPrefixes
<1> HIDE DEF n
<1> QED
  BY <1>1, <1>2 DEF n

(* Elements of a sequence that come one before the other are related.      *)
Ordered(s, Rel) == \A j, k \in DOMAIN s : j < k => <<s[j], s[k]>> \in Rel

Before(s, t, Rel) == \A x \in ToSet(s), y \in ToSet(t) : <<x, y>> \in Rel

(* Two ordered sequences of which one may come before the other are in     *)
(* order together.                                                         *)
LEMMA OrderedConcat ==
  ASSUME NEW S, NEW s \in Seq(S), NEW t \in Seq(S), NEW Rel,
         Ordered(s, Rel), Ordered(t, Rel), Before(s, t, Rel)
  PROVE  Ordered(s \o t, Rel)
<1>1. /\ Len(s) \in Nat /\ DOMAIN s = 1 .. Len(s)
      /\ Len(t) \in Nat /\ DOMAIN t = 1 .. Len(t)
  BY LenProperties
<1>2. /\ s \o t \in Seq(S)
      /\ Len(s \o t) = Len(s) + Len(t)
      /\ \A i \in 1 .. Len(s) + Len(t) :
           (s \o t)[i] = IF i <= Len(s) THEN s[i] ELSE t[i - Len(s)]
  BY ConcatProperties
<1>3. DOMAIN (s \o t) = 1 .. Len(s) + Len(t)
  BY <1>2, LenProperties
<1>4. SUFFICES ASSUME NEW j \in 1 .. Len(s) + Len(t), NEW k \in 1 .. Len(s) + Len(t),
                      j < k
               PROVE  <<(s \o t)[j], (s \o t)[k]>> \in Rel
  BY <1>3 DEF Ordered
<1>5. CASE k <= Len(s)
  <2>1. /\ j \in DOMAIN s /\ k \in DOMAIN s
        /\ (s \o t)[j] = s[j] /\ (s \o t)[k] = s[k]
    BY <1>1, <1>2, <1>4, <1>5
  <2> QED
    BY <1>4, <2>1 DEF Ordered
<1>6. CASE ~ (j <= Len(s))
  <2>1. /\ j - Len(s) \in DOMAIN t /\ k - Len(s) \in DOMAIN t
        /\ j - Len(s) < k - Len(s)
        /\ (s \o t)[j] = t[j - Len(s)] /\ (s \o t)[k] = t[k - Len(s)]
    BY <1>1, <1>2, <1>4, <1>6
  <2> QED
    BY <2>1 DEF Ordered
<1>7. CASE j <= Len(s) /\ ~ (k <= Len(s))
  <2>1. /\ j \in DOMAIN s /\ k - Len(s) \in DOMAIN t
        /\ (s \o t)[j] = s[j] /\ (s \o t)[k] = t[k - Len(s)]
    BY <1>1, <1>2, <1>4, <1>7
  <2>2. s[j] \in ToSet(s) /\ t[k - Len(s)] \in ToSet(t)
    BY <2>1 DEF ToSet
  <2> QED
    BY <2>1, <2>2 DEF Before
<1> QED
  BY <1>1, <1>4, <1>5, <1>6, <1>7

(* The elements of a sequence with one more, and their order.              *)
LEMMA ElementsOfAppend ==
  ASSUME NEW S, NEW s \in Seq(S), NEW e \in S
  PROVE  ToSet(Append(s, e)) = ToSet(s) \union {e}
<1>1. ToSet(<<e>>) = {e} /\ <<e>> \in Seq(S)
  BY DEF ToSet
<1>2. Append(s, e) = s \o <<e>>
  BY AppendIsConcat
<1>3. ToSet(s \o <<e>>) = ToSet(s) \union ToSet(<<e>>)
  BY <1>1, ElementsOfConcat
<1> QED
  BY <1>1, <1>2, <1>3

(* One more element keeps the order, if it may come after each.            *)
LEMMA OrderedAppend ==
  ASSUME NEW S, NEW s \in Seq(S), NEW e \in S, NEW Rel,
         Ordered(s, Rel), \A x \in ToSet(s) : <<x, e>> \in Rel
  PROVE  Ordered(Append(s, e), Rel)
<1>1. ToSet(<<e>>) = {e} /\ <<e>> \in Seq(S)
  BY DEF ToSet
<1>2. Append(s, e) = s \o <<e>>
  BY AppendIsConcat
<1>3. Ordered(<<e>>, Rel) /\ Before(s, <<e>>, Rel)
  BY <1>1 DEF Ordered, Before
<1> QED
  BY <1>1, <1>2, <1>3, OrderedConcat

(* What is flattened is in order, when its parts are and each may come     *)
(* before those after it.                                                  *)
LEMMA FlattenOrdered ==
  ASSUME NEW S, NEW seqs \in Seq(Seq(S)), NEW Rel,
         \A i \in 1 .. Len(seqs) : Ordered(seqs[i], Rel),
         \A i, j \in 1 .. Len(seqs) : i < j => Before(seqs[i], seqs[j], Rel)
  PROVE  Ordered(FlattenSeq(seqs), Rel)
<1> DEFINE n == Len(seqs)
<1>1. n \in Nat /\ DOMAIN seqs = 1 .. n /\ \A i \in 1 .. n : seqs[i] \in Seq(S)
  BY LenProperties, ElementOfSeq
<1>2. PICK f \in [0 .. n -> Seq(S)] :
        /\ f[0] = <<>>
        /\ \A i \in 1 .. n : f[i] = f[i - 1] \o seqs[i]
        /\ FlattenSeq(seqs) = f[n]
        /\ \A m \in 0 .. n : ToSet(f[m]) = UNION {ToSet(seqs[i]) : i \in 1 .. m}
  BY FlattenPrefixes
<1> DEFINE Right == {m \in Nat : m <= n => Ordered(f[m], Rel)}
<1>3. 0 \in Right
  BY <1>2 DEF Ordered
<1>4. ASSUME NEW m \in Nat, m \in Right PROVE m + 1 \in Right
  <2>1. SUFFICES ASSUME m + 1 <= n PROVE Ordered(f[m + 1], Rel)
    OBVIOUS
  <2>2. m + 1 \in 1 .. n /\ m \in 0 .. n /\ (m + 1) - 1 = m
    BY <1>1, <2>1
  <2>3. f[m + 1] = f[m] \o seqs[m + 1] /\ f[m] \in Seq(S) /\ seqs[m + 1] \in Seq(S)
    BY <1>1, <1>2, <2>2
  <2>4. Ordered(f[m], Rel)
    BY <1>4, <2>2
  <2>5. ASSUME NEW x \in ToSet(f[m]), NEW y \in ToSet(seqs[m + 1])
        PROVE  <<x, y>> \in Rel
    <3>1. PICK i \in 1 .. m : x \in ToSet(seqs[i])
      BY <1>2, <2>2
    <3>2. i \in 1 .. n /\ i < m + 1
      BY <1>1, <2>2
    <3>3. Before(seqs[i], seqs[m + 1], Rel)
      BY <2>2, <3>2
    <3> QED
      BY <3>1, <3>3 DEF Before
  <2>6. Before(f[m], seqs[m + 1], Rel)
    BY <2>5 DEF Before
  <2>7. Ordered(seqs[m + 1], Rel)
    BY <2>2
  <2> QED
    BY <2>3, <2>4, <2>6, <2>7, OrderedConcat
<1>5. n \in Right
  <2> HIDE DEF Right
  <2> QED
    BY <1>1, <1>3, <1>4, NaturalInduct
<1> QED
  BY <1>1, <1>2, <1>5

-----------------------------------------------------------------------------
(* Sums.                                                                   *)

(* g is the sum of N over the subsets of S, as MapThenSumSet takes it.     *)
Summing(g, S, N) ==
  g = [T \in SUBSET S |->
         IF T = {} THEN 0
         ELSE LET x == CHOOSE y \in T : TRUE IN N[x] + g[T \ {x}]]

(* There is such a sum.                                                    *)
LEMMA SummingDefined ==
  ASSUME NEW S, IsFiniteSet(S), NEW N \in [S -> Nat]
  PROVE  \E g : Summing(g, S, N)
<1> DEFINE pick == [T \in SUBSET S |-> CHOOSE y \in T : TRUE]
           F == [p \in S \X Nat |-> N[p[1]] + p[2]]
           base == 0
<1>1. F \in [S \X Nat -> Nat] /\ base \in Nat
  OBVIOUS
<1>2. \A T \in SUBSET S : T # {} => pick[T] \in T
  OBVIOUS
<1>3. PICK g \in [SUBSET S -> Nat] : Folding(g, S, base, F, pick)
  <2> HIDE DEF pick, F, base
  <2> QED
    BY <1>1, <1>2, FoldDefined
<1>4. ASSUME NEW T \in SUBSET S
      PROVE  g[T] = IF T = {} THEN 0
                    ELSE LET x == CHOOSE y \in T : TRUE IN N[x] + g[T \ {x}]
  <2>1. CASE T = {}
    BY <1>3, <2>1 DEF Folding
  <2>2. CASE T # {}
    <3> DEFINE x == CHOOSE y \in T : TRUE
    <3>1. pick[T] = x /\ x \in S
      BY <2>2
    <3>2. g[T] = F[<<x, g[T \ {x}]>>]
      BY <1>3, <2>2, <3>1 DEF Folding
    <3>3. <<x, g[T \ {x}]>> \in S \X Nat
      <4> HIDE DEF x
      <4> QED
        BY <3>1
    <3>4. F[<<x, g[T \ {x}]>>] = N[x] + g[T \ {x}]
      <4> HIDE DEF x
      <4> QED
        BY <3>3
    <3> QED
      BY <2>2, <3>2, <3>4
  <2> QED
    BY <2>1, <2>2
<1>5. Summing(g, S, N)
  BY <1>4 DEF Summing
<1> QED
  BY <1>5

(* The sum of the sizes of disjoint sets is the size of their union.       *)
LEMMA SumOfSizes ==
  ASSUME NEW S, IsFiniteSet(S), NEW U, IsFiniteSet(U),
         NEW A \in [S -> SUBSET U],
         \A x, y \in S : x # y => A[x] \intersect A[y] = {},
         NEW g, Summing(g, S, [x \in S |-> Cardinality(A[x])])
  PROVE  g[S] = Cardinality(UNION {A[x] : x \in S})
<1> DEFINE N == [x \in S |-> Cardinality(A[x])]
           Whole(T) == UNION {A[x] : x \in T}
           C == {T \in SUBSET S : g[T] = Cardinality(Whole(T))}
<1>1. \A T \in SUBSET S :
        g[T] = IF T = {} THEN 0
               ELSE LET x == CHOOSE y \in T : TRUE IN N[x] + g[T \ {x}]
  BY DEF Summing
<1>2. {} \in C
  <2>1. Whole({}) = {} /\ {} \in SUBSET S
    OBVIOUS
  <2> QED
    BY <1>1, <2>1, FS_EmptySet
<1>3. ASSUME NEW T \in SUBSET S, T # {}, \A x \in T : T \ {x} \in C
      PROVE  T \in C
  <2> DEFINE x == CHOOSE y \in T : TRUE
             Rest == Whole(T \ {x})
  <2>1. x \in T /\ x \in S
    BY <1>3
  <2>2. g[T] = Cardinality(A[x]) + g[T \ {x}]
    BY <1>1, <1>3, <2>1
  <2>3. g[T \ {x}] = Cardinality(Rest)
    BY <1>3, <2>1
  <2>4. A[x] \subseteq U /\ Rest \subseteq U /\ A[x] \intersect Rest = {}
    BY <2>1
  <2>5. Whole(T) = A[x] \union Rest
    BY <2>1
  <2>6. /\ IsFiniteSet(A[x]) /\ IsFiniteSet(Rest)
        /\ Cardinality(A[x]) \in Nat /\ Cardinality(Rest) \in Nat
    BY <2>4, FS_Subset, FS_CardinalityType
  <2>7. Cardinality(A[x] \union Rest)
          = Cardinality(A[x]) + Cardinality(Rest) - Cardinality(A[x] \intersect Rest)
    <3> HIDE DEF x, Rest
    <3> QED
      BY <2>6, FS_Union
  <2>8. Cardinality(A[x] \intersect Rest) = 0
    BY <2>4, FS_EmptySet
  <2>9. g[T] = Cardinality(Whole(T))
    <3> HIDE DEF x, Rest, Whole
    <3> QED
      BY <2>2, <2>3, <2>5, <2>6, <2>7, <2>8
  <2> QED
    BY <2>9
<1>4. S \in C
  <2> HIDE DEF C
  <2> QED
    BY <1>2, <1>3, SubsetInduct
<1> QED
  BY <1>4

=============================================================================
