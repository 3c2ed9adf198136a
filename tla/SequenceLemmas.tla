---------------------------- MODULE SequenceLemmas ----------------------------
(***************************************************************************)
(* What the proofs of several components need of numbers and sequences:    *)
(* induction, as a fact about sets, what FlattenSeq makes of a sequence of *)
(* sequences, and how FoldLeft goes through one.                           *)
(***************************************************************************)
EXTENDS SequencesExt, Functions, Integers, FiniteSets, FiniteSetTheorems, SequenceTheorems, WellFoundedInduction, TLAPS

\* A set that has 0, and with each number the next, has all of them.
LEMMA AllNumbers ==
  ASSUME NEW A, 0 \in A, \A k \in Nat : k \in A => k + 1 \in A
  PROVE  \A k \in Nat : k \in A
<1>. DEFINE R == OpToRel(<, Nat)
            B == {k \in Nat : k \notin A}
<1>. SUFFICES ASSUME B # {} PROVE FALSE
  OBVIOUS
<1>1. \A a, b \in Nat : <<a, b>> \in R <=> a < b
  BY DEF OpToRel
<1>2. PICK d \in B : \A e \in B : ~(<<e, d>> \in R)
  <2>. HIDE DEF R
  <2>1. B \subseteq Nat /\ B # {}
    OBVIOUS
  <2>. HIDE DEF B
  <2>. QED
    BY <2>1, NatLessThanWellFounded, WFMin DEF R
<1>3. d \in Nat /\ d # 0 /\ d \notin A
  OBVIOUS
<1>4. d - 1 \in Nat /\ d - 1 < d /\ (d - 1) + 1 = d
  BY <1>3
<1>5. d - 1 \notin A
  BY <1>3, <1>4
<1>. QED
  BY <1>1, <1>2, <1>3, <1>4, <1>5

\* A set of naturals below a bound has a greatest element.
LEMMA GreatestElement ==
  ASSUME NEW n \in Nat, NEW T, T \subseteq 0..n, T # {}
  PROVE  \E x \in T : \A y \in T : x >= y
<1>. DEFINE R == OpToRel(<, Nat)
            D == {n - x : x \in T}
<1>1. \A a, b \in Nat : <<a, b>> \in R <=> a < b
  BY DEF OpToRel
<1>2. D \subseteq Nat /\ D # {}
  <2>1. \A x \in T : x \in 0..n
    OBVIOUS
  <2>2. \A x \in 0..n : x \in Nat /\ n - x \in Nat
    OBVIOUS
  <2>. QED
    BY <2>1, <2>2
<1>3. PICK d \in D : \A e \in D : ~(<<e, d>> \in R)
  <2>. HIDE DEF D
  <2>. QED
    BY <1>2, NatLessThanWellFounded, WFMin
<1>4. PICK x \in T : d = n - x
  OBVIOUS
<1>5. ASSUME NEW y \in T PROVE x >= y
  <2>1. n - y \in D /\ n - x \in D /\ x \in 0..n /\ y \in 0..n
    OBVIOUS
  <2>2. ~(n - y < n - x)
    BY <1>1, <1>2, <1>3, <1>4, <2>1
  <2>. QED
    BY <2>1, <2>2
<1>. QED
  BY <1>5

\* The recursive function FlattenSeq is defined by exists.
LEMMA Flattened ==
  ASSUME NEW T, NEW seqs \in Seq(Seq(T)), seqs # <<>>
  PROVE  \E g \in [1..Len(seqs) -> Seq(T)] :
           /\ FlattenSeq(seqs) = g[Len(seqs)]
           /\ \A i \in 1..Len(seqs) : g[i] = IF i = 1 THEN seqs[i] ELSE g[i - 1] \o seqs[i]
<1>. DEFINE n == Len(seqs)
            step(g, i) == IF i = 1 THEN seqs[i] ELSE g[i - 1] \o seqs[i]
            A == {k \in Nat : k <= n => \E g \in [1..k -> Seq(T)] : \A i \in 1..k : g[i] = step(g, i)}
<1>1. n \in Nat /\ n > 0 /\ \A i \in 1..n : seqs[i] \in Seq(T)
  OBVIOUS
<1>2. 0 \in A
  <2>1. \E g \in [1..0 -> Seq(T)] : \A i \in 1..0 : g[i] = step(g, i)
    <3>. DEFINE g == [i \in 1..0 |-> <<>>]
    <3>1. g \in [1..0 -> Seq(T)]
      OBVIOUS
    <3>2. \A i \in 1..0 : g[i] = step(g, i)
      OBVIOUS
    <3>. HIDE DEF g
    <3>. QED
      BY <3>1, <3>2
  <2>. HIDE DEF step, n
  <2>. QED
    BY <2>1
<1>3. ASSUME NEW k \in Nat, k \in A PROVE k + 1 \in A
  <2>. SUFFICES ASSUME k + 1 <= n
                PROVE  \E g \in [1..(k + 1) -> Seq(T)] : \A i \in 1..(k + 1) : g[i] = step(g, i)
    OBVIOUS
  <2>1. PICK g \in [1..k -> Seq(T)] : \A i \in 1..k : g[i] = step(g, i)
    BY <1>1, <1>3
  <2>. DEFINE h == [i \in 1..(k + 1) |-> IF i <= k THEN g[i] ELSE step(g, i)]
  <2>2. step(g, k + 1) \in Seq(T)
    <3>1. CASE k = 0
      BY <1>1, <3>1
    <3>2. CASE k # 0
      <4>1. k \in 1..k /\ k + 1 \in 1..n
        BY <1>1, <3>2
      <4>2. g[k] \in Seq(T) /\ seqs[k + 1] \in Seq(T)
        BY <1>1, <4>1
      <4>. QED
        BY <3>2, <4>2
    <3>. QED
      BY <3>1, <3>2
  <2>3. h \in [1..(k + 1) -> Seq(T)]
    <3>1. \A i \in 1..(k + 1) : (IF i <= k THEN g[i] ELSE step(g, i)) \in Seq(T)
      <4>. SUFFICES ASSUME NEW i \in 1..(k + 1) PROVE (IF i <= k THEN g[i] ELSE step(g, i)) \in Seq(T)
        OBVIOUS
      <4>1. CASE i <= k
        BY <2>1, <4>1
      <4>2. CASE i = k + 1
        BY <2>2, <4>2
      <4>. QED
        BY <4>1, <4>2
    <3>. QED
      BY <3>1
  <2>4. ASSUME NEW i \in 1..(k + 1) PROVE h[i] = step(h, i)
    <3>1. CASE i = 1 /\ k = 0
      BY <3>1
    <3>2. CASE i # 1 \/ k # 0
      <4>1. i # 1 => i - 1 \in 1..k /\ h[i - 1] = g[i - 1]
        BY <2>1
      <4>2. step(h, i) = step(g, i)
        BY <4>1
      <4>3. h[i] = IF i <= k THEN g[i] ELSE step(g, k + 1)
        OBVIOUS
      <4>4. h[i] = step(g, i)
        <5>. HIDE DEF h, step
        <5>. QED
          BY <2>1, <4>3
      <4>. QED
        BY <4>2, <4>4
    <3>. QED
      BY <3>1, <3>2
  <2>. QED
    BY <2>3, <2>4
<1>4. n \in A
  <2>. HIDE DEF A, n
  <2>. QED
    BY <1>1, <1>2, <1>3, AllNumbers
<1>5. PICK g \in [1..n -> Seq(T)] : \A i \in 1..n : g[i] = step(g, i)
  BY <1>1, <1>4
<1>. DEFINE flatten == CHOOSE f : f = [i \in 1..n |-> step(f, i)]
<1>6. flatten = [i \in 1..n |-> step(flatten, i)]
  <2>1. g = [i \in 1..n |-> step(g, i)]
    BY <1>5
  <2>. HIDE DEF step, n
  <2>. QED
    BY <2>1
<1>7. FlattenSeq(seqs) = flatten[n]
  BY <1>1 DEF FlattenSeq
<1>8. flatten \in [1..n -> Seq(T)]
  <2>. DEFINE C == {k \in Nat : k \in 1..n => flatten[k] \in Seq(T)}
  <2>1. 0 \in C
    OBVIOUS
  <2>2. ASSUME NEW k \in Nat, k \in C PROVE k + 1 \in C
    <3>. HIDE DEF flatten
    <3>. SUFFICES ASSUME k + 1 \in 1..n PROVE flatten[k + 1] \in Seq(T)
      OBVIOUS
    <3>1. flatten[k + 1] = step(flatten, k + 1)
      BY <1>6
    <3>2. CASE k = 0
      BY <1>1, <3>1, <3>2
    <3>3. CASE k # 0
      <4>1. k \in 1..n /\ flatten[k] \in Seq(T) /\ seqs[k + 1] \in Seq(T)
        BY <1>1, <2>2, <3>3
      <4>. QED
        BY <3>1, <3>3, <4>1
    <3>. QED
      BY <3>2, <3>3
  <2>3. \A k \in Nat : k \in C
    <3>. HIDE DEF C
    <3>. QED
      BY <2>1, <2>2, AllNumbers
  <2>4. \A k \in 1..n : flatten[k] \in Seq(T)
    <3>. HIDE DEF flatten
    <3>. QED
      BY <1>1, <2>3
  <2>. HIDE DEF flatten, step, n, C
  <2>. QED
    BY <1>6, <2>4
<1>. HIDE DEF flatten
<1>9. \A i \in 1..n : flatten[i] = step(flatten, i)
  BY <1>6
<1>. QED
  BY <1>7, <1>8, <1>9

\* What is in either of two sequences is in their concatenation, and no more.
LEMMA RangeOfConcat ==
  ASSUME NEW T, NEW s \in Seq(T), NEW t \in Seq(T)
  PROVE  Range(s \o t) = Range(s) \cup Range(t)
<1>1. \A i \in DOMAIN s : s[i] = (s \o t)[i] /\ i \in DOMAIN (s \o t)
  OBVIOUS
<1>2. \A i \in DOMAIN t : t[i] = (s \o t)[Len(s) + i] /\ Len(s) + i \in DOMAIN (s \o t)
  OBVIOUS
<1>3. \A i \in DOMAIN (s \o t) : \/ i \in DOMAIN s /\ (s \o t)[i] = s[i]
                                 \/ i - Len(s) \in DOMAIN t /\ (s \o t)[i] = t[i - Len(s)]
  OBVIOUS
<1>. DEFINE r == s \o t
<1>. HIDE DEF r
<1>4. (\A x \in Range(s) : x \in Range(r)) /\ (\A x \in Range(t) : x \in Range(r))
  BY <1>1, <1>2 DEF Range, r
<1>5. \A x \in Range(r) : x \in Range(s) \/ x \in Range(t)
  BY <1>3 DEF Range, r
<1>. QED
  BY <1>4, <1>5 DEF r


\* A concatenation has nothing twice if neither has, and nothing is in both.
LEMMA InjectiveConcat ==
  ASSUME NEW T, NEW s \in Seq(T), NEW t \in Seq(T), IsInjective(s), IsInjective(t),
         \A x \in Range(s) : x \notin Range(t)
  PROVE  IsInjective(s \o t)
<1>. DEFINE r == s \o t
<1>1. \A i \in DOMAIN r : \/ i \in DOMAIN s /\ r[i] = s[i]
                          \/ /\ i - Len(s) \in DOMAIN t /\ r[i] = t[i - Len(s)]
                             /\ i \notin DOMAIN s
  OBVIOUS
<1>2. Len(s) \in Nat /\ DOMAIN r \subseteq Nat
  OBVIOUS
<1>. HIDE DEF r
<1>3. ASSUME NEW i \in DOMAIN r, NEW j \in DOMAIN r, r[i] = r[j] PROVE i = j
  <2>1. CASE i \in DOMAIN s /\ j \in DOMAIN s
    BY <1>1, <1>3, <2>1 DEF IsInjective
  <2>2. CASE i \notin DOMAIN s /\ j \notin DOMAIN s
    <3>1. i - Len(s) \in DOMAIN t /\ j - Len(s) \in DOMAIN t /\ t[i - Len(s)] = t[j - Len(s)]
      BY <1>1, <1>3, <2>2
    <3>2. i - Len(s) = j - Len(s)
      BY <3>1 DEF IsInjective
    <3>. QED
      BY <1>2, <3>2
  <2>3. CASE i \in DOMAIN s /\ j \notin DOMAIN s
    BY <1>1, <1>3, <2>3 DEF Range
  <2>4. CASE i \notin DOMAIN s /\ j \in DOMAIN s
    BY <1>1, <1>3, <2>4 DEF Range
  <2>. QED
    BY <2>1, <2>2, <2>3, <2>4
<1>. QED
  BY <1>3 DEF IsInjective, r

\* The sequences g that FlattenSeq goes through, and what is in each.
Flattening(seqs, g) ==
  /\ FlattenSeq(seqs) = g[Len(seqs)]
  /\ g[1] = seqs[1]
  /\ \A k \in 1..Len(seqs) - 1 : g[k + 1] = g[k] \o seqs[k + 1]
  /\ \A k \in 1..Len(seqs) : Range(g[k]) = UNION {Range(seqs[i]) : i \in 1..k}

LEMMA FlattenedUpTo ==
  ASSUME NEW T, NEW seqs \in Seq(Seq(T)), seqs # <<>>
  PROVE  \E g \in [1..Len(seqs) -> Seq(T)] : Flattening(seqs, g)
<1>. DEFINE n == Len(seqs)
            upTo(k) == UNION {Range(seqs[i]) : i \in 1..k}
<1>1. n \in Nat \ {0} /\ DOMAIN seqs = 1..n /\ \A i \in 1..n : seqs[i] \in Seq(T)
  OBVIOUS
<1>2. PICK g \in [1..n -> Seq(T)] :
        /\ FlattenSeq(seqs) = g[n]
        /\ \A i \in 1..n : g[i] = IF i = 1 THEN seqs[i] ELSE g[i - 1] \o seqs[i]
  BY Flattened
<1>. HIDE DEF upTo, n
<1>3. g[1] = seqs[1]
  BY <1>1, <1>2
<1>4. ASSUME NEW k \in 1..n - 1 PROVE g[k + 1] = g[k] \o seqs[k + 1]
  <2>1. k + 1 \in 1..n /\ k + 1 # 1 /\ (k + 1) - 1 = k
    BY <1>1
  <2>. QED
    BY <1>2, <2>1
<1>. DEFINE A == {k \in Nat : k \in 1..n => Range(g[k]) = upTo(k)}
<1>5. 0 \in A
  OBVIOUS
<1>6. ASSUME NEW k \in Nat, k \in A PROVE k + 1 \in A
  <2>. SUFFICES ASSUME k + 1 \in 1..n PROVE Range(g[k + 1]) = upTo(k + 1)
    OBVIOUS
  <2>1. upTo(k + 1) = upTo(k) \cup Range(seqs[k + 1])
    <3>1. 1..(k + 1) = 1..k \cup {k + 1}
      OBVIOUS
    <3>. QED
      BY <3>1 DEF upTo
  <2>2. CASE k = 0
    <3>1. upTo(k) = {} /\ g[k + 1] = seqs[k + 1]
      BY <1>3, <2>2 DEF upTo
    <3>. QED
      BY <2>1, <3>1
  <2>3. CASE k # 0
    <3>1. k \in 1..n /\ k \in 1..n - 1 /\ k + 1 \in 1..n
      BY <1>1, <2>3
    <3>2. Range(g[k]) = upTo(k) /\ g[k + 1] = g[k] \o seqs[k + 1]
      BY <1>4, <1>6, <3>1
    <3>3. Range(g[k] \o seqs[k + 1]) = Range(g[k]) \cup Range(seqs[k + 1])
      <4>1. g[k] \in Seq(T) /\ seqs[k + 1] \in Seq(T)
        BY <1>1, <1>2, <3>1
      <4>. QED
        BY <4>1, RangeOfConcat
    <3>. QED
      BY <2>1, <3>2, <3>3
  <2>. QED
    BY <2>2, <2>3
<1>7. \A k \in Nat : k \in A
  <2>. HIDE DEF A
  <2>. QED
    BY <1>5, <1>6, AllNumbers
<1>8. \A k \in 1..n : Range(g[k]) = upTo(k)
  BY <1>1, <1>7
<1>. QED
  BY <1>2, <1>3, <1>4, <1>8 DEF upTo, n, Flattening

\* FlattenSeq has what its sequences have.
LEMMA FlattenRange ==
  ASSUME NEW T, NEW seqs \in Seq(Seq(T))
  PROVE  /\ FlattenSeq(seqs) \in Seq(T)
         /\ Range(FlattenSeq(seqs)) = UNION {Range(seqs[i]) : i \in DOMAIN seqs}
<1>1. CASE seqs = <<>>
  BY <1>1 DEF FlattenSeq, Range
<1>2. CASE seqs # <<>>
  <2>1. Len(seqs) \in 1..Len(seqs) /\ DOMAIN seqs = 1..Len(seqs)
    BY <1>2
  <2>2. PICK g \in [1..Len(seqs) -> Seq(T)] : Flattening(seqs, g)
    BY <1>2, FlattenedUpTo
  <2>. QED
    BY <2>1, <2>2 DEF Flattening
<1>. QED
  BY <1>1, <1>2

\* A sequence is one of the elements it has.
LEMMA OfItsElements == ASSUME NEW T, NEW s \in Seq(T) PROVE s \in Seq(Range(s))
<1>1. Len(s) \in Nat /\ s \in [1..Len(s) -> T] /\ DOMAIN s = 1..Len(s)
  BY LenProperties
<1>2. \A i \in 1..Len(s) : s[i] \in Range(s)
  BY <1>1 DEF Range
<1>3. s \in [1..Len(s) -> Range(s)]
  BY <1>1, <1>2
<1>. QED
  BY <1>1, <1>3

\* What several sequences have between them
LEMMA FlattenOf ==
  ASSUME NEW n \in Nat, NEW lists, lists = [i \in 1..n |-> lists[i]], \A i \in 1..n : lists[i] \in Seq(Range(lists[i]))
  PROVE  /\ FlattenSeq(lists) \in Seq(Range(FlattenSeq(lists)))
         /\ \A x \in Range(FlattenSeq(lists)) : \E i \in 1..n : x \in Range(lists[i])
         /\ \A i \in 1..n : Range(lists[i]) \subseteq Range(FlattenSeq(lists))
<1>. DEFINE T == UNION {Range(lists[i]) : i \in 1..n}
<1>1. \A i \in 1..n : lists[i] \in Seq(T)
  <2>. SUFFICES ASSUME NEW i \in 1..n PROVE lists[i] \in Seq(T)
    OBVIOUS
  <2>1. Range(lists[i]) \subseteq T
    OBVIOUS
  <2>2. lists[i] \in Seq(Range(lists[i]))
    OBVIOUS
  <2>. HIDE DEF T
  <2>. QED
    BY <2>1, <2>2
<1>2. lists \in [1..n -> Seq(T)]
  <2>. HIDE DEF T
  <2>. QED
    BY <1>1
<1>3. lists \in Seq(Seq(T)) /\ DOMAIN lists = 1..n
  <2>. HIDE DEF T
  <2>. QED
    BY <1>2
<1>4. FlattenSeq(lists) \in Seq(T) /\ Range(FlattenSeq(lists)) = UNION {Range(lists[i]) : i \in DOMAIN lists}
  <2>. HIDE DEF T
  <2>. QED
    BY <1>3, FlattenRange
<1>5. FlattenSeq(lists) \in Seq(Range(FlattenSeq(lists)))
  <2>. HIDE DEF T
  <2>. QED
    BY <1>4, OfItsElements
<1>6. \A i \in 1..n : Range(lists[i]) \subseteq Range(FlattenSeq(lists))
  <2>. HIDE DEF T
  <2>. QED
    BY <1>3, <1>4
<1>. QED
  BY <1>3, <1>4, <1>5, <1>6

\* A function of the first numbers is a sequence.
LEMMA IsSequence == ASSUME NEW T, NEW n \in Nat, NEW f \in [1..n -> T] PROVE f \in Seq(T)
OBVIOUS

\* It has nothing twice if no sequence has, and no two have the same.
LEMMA FlattenInjective ==
  ASSUME NEW T, NEW seqs \in Seq(Seq(T)),
         \A i \in DOMAIN seqs : IsInjective(seqs[i]),
         \A i, j \in DOMAIN seqs : Range(seqs[i]) \cap Range(seqs[j]) # {} => i = j
  PROVE  IsInjective(FlattenSeq(seqs))
<1>1. CASE seqs = <<>>
  BY <1>1 DEF FlattenSeq, IsInjective
<1>2. CASE seqs # <<>>
  <2>. DEFINE n == Len(seqs)
  <2>1. n \in Nat \ {0} /\ DOMAIN seqs = 1..n /\ \A i \in 1..n : seqs[i] \in Seq(T)
    BY <1>2
  <2>g. PICK g \in [1..Len(seqs) -> Seq(T)] : Flattening(seqs, g)
    BY <1>2, FlattenedUpTo
  <2>2. /\ g \in [1..n -> Seq(T)]
        /\ FlattenSeq(seqs) = g[n]
        /\ g[1] = seqs[1]
        /\ \A k \in 1..n - 1 : g[k + 1] = g[k] \o seqs[k + 1]
        /\ \A k \in 1..n : Range(g[k]) = UNION {Range(seqs[i]) : i \in 1..k}
    BY <2>g DEF Flattening
  <2>. DEFINE A == {k \in Nat : k \in 1..n => IsInjective(g[k])}
  <2>. HIDE DEF n
  <2>3. 0 \in A
    OBVIOUS
  <2>4. ASSUME NEW k \in Nat, k \in A PROVE k + 1 \in A
    <3>. SUFFICES ASSUME k + 1 \in 1..n PROVE IsInjective(g[k + 1])
      OBVIOUS
    <3>1. CASE k = 0
      <4>1. k + 1 = 1 /\ 1 \in DOMAIN seqs
        BY <2>1, <3>1
      <4>. QED
        BY <2>2, <4>1
    <3>2. CASE k # 0
      <4>1. k \in 1..n /\ k \in 1..n - 1
        BY <2>1, <3>2
      <4>. DEFINE s == g[k]
                  t == seqs[k + 1]
      <4>2. IsInjective(s) /\ IsInjective(t) /\ g[k + 1] = s \o t /\ s \in Seq(T) /\ t \in Seq(T)
        BY <2>1, <2>2, <2>4, <4>1
      <4>3. \A x \in Range(s) : x \notin Range(t)
        <5>1. k + 1 \in DOMAIN seqs /\ \A i \in 1..k : i \in DOMAIN seqs /\ i # k + 1
          BY <2>1, <4>1
        <5>2. Range(s) = UNION {Range(seqs[i]) : i \in 1..k}
          BY <2>2, <4>1
        <5>. QED
          BY <5>1, <5>2
      <4>. HIDE DEF s, t
      <4>. QED
        BY <4>2, <4>3, InjectiveConcat
    <3>. QED
      BY <3>1, <3>2
  <2>5. n \in A
    <3>. HIDE DEF A
    <3>. QED
      BY <2>1, <2>3, <2>4, AllNumbers
  <2>. QED
    BY <2>1, <2>2, <2>5
<1>. QED
  BY <1>1, <1>2

\* Every y that before[x] names stands in s in front of x.
Behind(s, before) ==
  \A p \in DOMAIN s : \A y \in before[s[p]] : \E q \in 1..p - 1 : s[q] = y

\* If what comes before[x] is in the sequences before that of x, it is listed
\* before x.
LEMMA FlattenOrder ==
  ASSUME NEW T, NEW seqs \in Seq(Seq(T)), NEW before,
         \A i \in DOMAIN seqs : \A x \in Range(seqs[i]) : before[x] \subseteq UNION {Range(seqs[j]) : j \in 1..i - 1}
  PROVE  Behind(FlattenSeq(seqs), before)
<1>1. CASE seqs = <<>>
  BY <1>1 DEF FlattenSeq, Behind
<1>2. CASE seqs # <<>>
  <2>. DEFINE n == Len(seqs)
              ordered(s) == \A p \in DOMAIN s : \A y \in before[s[p]] : \E q \in 1..p - 1 : s[q] = y
  <2>1. n \in Nat \ {0} /\ DOMAIN seqs = 1..n /\ \A i \in 1..n : seqs[i] \in Seq(T)
    BY <1>2
  <2>g. PICK g \in [1..Len(seqs) -> Seq(T)] : Flattening(seqs, g)
    BY <1>2, FlattenedUpTo
  <2>2. /\ g \in [1..n -> Seq(T)]
        /\ FlattenSeq(seqs) = g[n]
        /\ g[1] = seqs[1]
        /\ \A k \in 1..n - 1 : g[k + 1] = g[k] \o seqs[k + 1]
        /\ \A k \in 1..n : Range(g[k]) = UNION {Range(seqs[i]) : i \in 1..k}
    BY <2>g DEF Flattening
  <2>. DEFINE A == {k \in Nat : k \in 1..n => ordered(g[k])}
  <2>. HIDE DEF n
  <2>3. 0 \in A
    OBVIOUS
  <2>4. ASSUME NEW k \in Nat, k \in A PROVE k + 1 \in A
    <3>. SUFFICES ASSUME k + 1 \in 1..n PROVE ordered(g[k + 1])
      OBVIOUS
    <3>1. CASE k = 0
      <4>1. \A x \in Range(seqs[1]) : before[x] = {}
        <5>1. 1 \in DOMAIN seqs /\ 1..(1 - 1) = {}
          BY <2>1
        <5>2. UNION {Range(seqs[j]) : j \in 1..(1 - 1)} = {}
          BY <5>1
        <5>. QED
          BY <5>1, <5>2
      <4>2. \A p \in DOMAIN g[1] : before[g[1][p]] = {}
        BY <2>2, <4>1 DEF Range
      <4>. QED
        BY <3>1, <4>2
    <3>2. CASE k # 0
      <4>1. k \in 1..n /\ k \in 1..n - 1
        BY <2>1, <3>2
      <4>. DEFINE s == g[k]
                  t == seqs[k + 1]
      <4>2. ordered(s) /\ g[k + 1] = s \o t /\ s \in Seq(T) /\ t \in Seq(T)
        BY <2>1, <2>2, <2>4, <4>1
      <4>3. \A x \in Range(t) : before[x] \subseteq Range(s)
        <5>1. (k + 1) - 1 = k /\ k + 1 \in DOMAIN seqs
          BY <2>1
        <5>2. Range(s) = UNION {Range(seqs[j]) : j \in 1..(k + 1) - 1}
          BY <2>2, <4>1, <5>1
        <5>. HIDE DEF s
        <5>. QED
          BY <5>1, <5>2
      <4>. HIDE DEF s, t
      <4>4. \A i \in DOMAIN (s \o t) : \/ i \in DOMAIN s /\ (s \o t)[i] = s[i]
                                       \/ /\ i - Len(s) \in DOMAIN t /\ (s \o t)[i] = t[i - Len(s)]
                                          /\ i > Len(s)
        BY <4>2
      <4>5. Len(s) \in Nat /\ DOMAIN s = 1..Len(s) /\ DOMAIN (s \o t) \subseteq Nat
            /\ \A q \in 1..Len(s) : (s \o t)[q] = s[q]
        BY <4>2
      <4>. DEFINE r == s \o t
      <4>. HIDE DEF r
      <4>6. ASSUME NEW p \in DOMAIN r, NEW y \in before[r[p]] PROVE \E q \in 1..p - 1 : r[q] = y
        <5>1. CASE p \in DOMAIN s /\ r[p] = s[p]
          <6>1. PICK q \in 1..p - 1 : s[q] = y
            BY <4>2, <5>1
          <6>2. q \in 1..Len(s)
            BY <4>5, <5>1
          <6>. QED
            BY <4>5, <6>1, <6>2 DEF r
        <5>2. CASE p - Len(s) \in DOMAIN t /\ r[p] = t[p - Len(s)] /\ p > Len(s)
          <6>1. y \in Range(s)
            BY <4>3, <5>2 DEF Range
          <6>2. PICK q \in 1..Len(s) : s[q] = y
            BY <4>5, <6>1 DEF Range
          <6>3. p \in Nat /\ q \in 1..p - 1
            BY <4>5, <5>2 DEF r
          <6>. QED
            BY <4>5, <6>2, <6>3 DEF r
        <5>. QED
          BY <4>4, <5>1, <5>2 DEF r
      <4>7. ordered(r)
        BY <4>6
      <4>. HIDE DEF ordered
      <4>. QED
        BY <4>2, <4>7 DEF r
    <3>. QED
      BY <3>1, <3>2
  <2>5. n \in A
    <3>. HIDE DEF A
    <3>. QED
      BY <2>1, <2>3, <2>4, AllNumbers
  <2>6. ordered(FlattenSeq(seqs))
    <3>. HIDE DEF ordered
    <3>. QED
      BY <2>1, <2>2, <2>5
  <2>. QED
    BY <2>6 DEF Behind
<1>. QED
  BY <1>1, <1>2

\* A sequence without repetition is as long as the set of what is in it.
LEMMA LenOfInjective ==
  ASSUME NEW T, NEW s \in Seq(T), IsInjective(s)
  PROVE  Len(s) = Cardinality(Range(s)) /\ IsFiniteSet(Range(s))
<1>1. Len(s) \in Nat /\ DOMAIN s = 1..Len(s)
  OBVIOUS
<1>2. s \in Bijection(1..Len(s), Range(s))
  BY <1>1 DEF Bijection, Injection, Surjection, IsInjective, Range
<1>3. ExistsBijection(1..Len(s), Range(s))
  BY <1>2 DEF ExistsBijection
<1>4. Cardinality(Range(s)) = Len(s)
  BY <1>1, <1>3, FS_CountingElements
<1>5. IsFiniteSet(Range(s))
  <2>1. IsFiniteSet(1..Len(s))
    BY <1>1, FS_Interval
  <2>. QED
    BY <1>3, <2>1, FS_Bijection
<1>. QED
  BY <1>4, <1>5

\* Max is the greatest of some numbers.
LEMMA GreatestOf ==
  ASSUME NEW n \in Nat, NEW s \in SUBSET (1..n), s # {}
  PROVE  Max(s) \in s /\ \A y \in s : Max(s) >= y
<1>1. s \subseteq 0..n
  OBVIOUS
<1>2. \E x \in s : \A y \in s : x >= y
  BY <1>1, GreatestElement
<1>. QED
  BY <1>2 DEF Max

\* A function of sets of numbers that takes their elements in ascending order
FoldsBy(iter, n, base, f) ==
  \A s \in SUBSET (1..n) : iter[s] = IF s = {} THEN base ELSE f[iter[s \ {Max(s)}], Max(s)]

\* The recursive function by which FoldLeft is defined exists.
LEMMA FoldExists ==
  ASSUME NEW n \in Nat, NEW T, NEW base \in T, NEW f \in [T \X (1..n) -> T]
  PROVE  \E iter \in [SUBSET (1..n) -> T] : FoldsBy(iter, n, base, f)
<1>. DEFINE turn(iter, s) == IF s = {} THEN base ELSE f[iter[s \ {Max(s)}], Max(s)]
            Folds(k) == \E iter \in [SUBSET (1..k) -> T] : \A s \in SUBSET (1..k) : iter[s] = turn(iter, s)
            A == {k \in Nat : k <= n => Folds(k)}
<1>. HIDE DEF turn
<1>2. Folds(0)
  <2>. DEFINE it == [s \in SUBSET (1..0) |-> base]
  <2>1. it \in [SUBSET (1..0) -> T] /\ \A s \in SUBSET (1..0) : s = {} /\ it[s] = base
    OBVIOUS
  <2>2. \A s \in SUBSET (1..0) : it[s] = turn(it, s)
    BY <2>1 DEF turn
  <2>. HIDE DEF it
  <2>. QED
    BY <2>1, <2>2
<1>3. ASSUME NEW k \in Nat, k + 1 <= n, Folds(k) PROVE Folds(k + 1)
  <2>1. PICK g \in [SUBSET (1..k) -> T] : \A s \in SUBSET (1..k) : g[s] = turn(g, s)
    BY <1>3
  <2>. DEFINE h == [s \in SUBSET (1..(k + 1)) |-> IF k + 1 \in s THEN f[g[s \ {k + 1}], k + 1] ELSE g[s]]
  <2>2. ASSUME NEW s \in SUBSET (1..(k + 1))
        PROVE  /\ k + 1 \notin s => s \in SUBSET (1..k)
               /\ s \ {k + 1} \in SUBSET (1..k)
               /\ k + 1 \in s => s # {} /\ Max(s) = k + 1
    <3>1. k + 1 \in s => Max(s) = k + 1
      <4>. SUFFICES ASSUME k + 1 \in s PROVE Max(s) = k + 1
        OBVIOUS
      <4>1. k + 1 \in Nat /\ s \in SUBSET (1..(k + 1)) /\ s # {}
        OBVIOUS
      <4>2. Max(s) \in s /\ Max(s) >= k + 1
        BY <4>1, GreatestOf
      <4>3. \A x \in 1..(k + 1) : x >= k + 1 => x = k + 1
        OBVIOUS
      <4>4. Max(s) \in 1..(k + 1)
        BY <4>2
      <4>. QED
        BY <4>2, <4>3, <4>4
    <3>. QED
      BY <3>1
  <2>3. k + 1 \in 1..n
    BY <1>3
  <2>4. h \in [SUBSET (1..(k + 1)) -> T]
    <3>1. ASSUME NEW s \in SUBSET (1..(k + 1))
          PROVE  (IF k + 1 \in s THEN f[g[s \ {k + 1}], k + 1] ELSE g[s]) \in T
      <4>1. CASE k + 1 \in s
        <5>1. g[s \ {k + 1}] \in T
          BY <2>1, <2>2
        <5>. QED
          BY <2>3, <4>1, <5>1
      <4>2. CASE k + 1 \notin s
        BY <2>1, <2>2, <4>2
      <4>. QED
        BY <4>1, <4>2
    <3>. QED
      BY <3>1
  <2>5. ASSUME NEW s \in SUBSET (1..(k + 1)) PROVE h[s] = turn(h, s)
    <3>1. CASE k + 1 \in s
      <4>1. Max(s) = k + 1 /\ s # {} /\ s \ {k + 1} \in SUBSET (1..k) /\ s \ {k + 1} \in SUBSET (1..(k + 1))
        BY <2>2, <3>1
      <4>2. h[s \ {k + 1}] = g[s \ {k + 1}]
        BY <4>1
      <4>3. h[s] = f[g[s \ {k + 1}], k + 1]
        BY <3>1
      <4>. HIDE DEF h
      <4>. QED
        BY <4>1, <4>2, <4>3 DEF turn
    <3>2. CASE k + 1 \notin s
      <4>1. s \in SUBSET (1..k) /\ h[s] = g[s]
        BY <2>2, <3>2
      <4>2. s # {} => Max(s) \in s
        BY <4>1, GreatestOf
      <4>3. s \ {Max(s)} \in SUBSET (1..k) /\ k + 1 \notin s \ {Max(s)}
        BY <3>2, <4>1
      <4>4. h[s \ {Max(s)}] = g[s \ {Max(s)}]
        <5>1. s \ {Max(s)} \in SUBSET (1..(k + 1))
          BY <4>3
        <5>. QED
          BY <4>3, <5>1
      <4>. HIDE DEF h
      <4>. QED
        BY <2>1, <4>1, <4>4 DEF turn
    <3>. QED
      BY <3>1, <3>2
  <2>. HIDE DEF h
  <2>. QED
    BY <2>4, <2>5
<1>4. Folds(n)
  <2>. HIDE DEF Folds
  <2>1. 0 \in A /\ \A k \in Nat : k \in A => k + 1 \in A
    BY <1>2, <1>3
  <2>2. n \in A
    <3>. HIDE DEF A
    <3>. QED
      BY <2>1, AllNumbers
  <2>. QED
    BY <2>2
<1>. QED
  BY <1>4 DEF turn, FoldsBy

\* The greatest of the first numbers
LEMMA GreatestOfFirst ==
  ASSUME NEW k \in Nat \ {0}
  PROVE  Max(1..k) = k /\ 1..k # {} /\ (1..k) \ {Max(1..k)} = 1..(k - 1)
<1>1. k \in 1..k /\ \A y \in 1..k : k >= y
  OBVIOUS
<1>2. Max(1..k) \in 1..k /\ \A y \in 1..k : Max(1..k) >= y
  BY <1>1 DEF Max
<1>3. Max(1..k) = k
  <2>. DEFINE m == Max(1..k)
  <2>1. m \in 1..k /\ m >= k
    BY <1>1, <1>2
  <2>2. m = k
    <3>. HIDE DEF m
    <3>. QED
      BY <2>1
  <2>. QED
    BY <2>2
<1>4. (1..k) \ {k} = 1..(k - 1)
  OBVIOUS
<1>. QED
  BY <1>1, <1>3, <1>4
=============================================================================
