----------------------------- MODULE FilterProofs -----------------------------
(***************************************************************************)
(* What Filter keeps, for every sequence.  Induction over a sequence is    *)
(* done by looking at the shortest one for which a statement fails.        *)
(***************************************************************************)
EXTENDS Filter, SequenceTheorems, WellFoundedInduction, TLAPS

(* A set of naturals that is not empty has a least element.                *)
LEMMA Least ==
  ASSUME NEW U \in SUBSET Nat, U # {}
  PROVE  \E x \in U : \A y \in U : ~ (y < x)
<1> DEFINE R == {ss \in Nat \X Nat : ss[1] < ss[2]}
<1>1. IsWellFoundedOn(R, Nat)
  BY NatLessThanWellFounded DEF OpToRel
<1> HIDE DEF R
<1>2. PICK x \in U : \A y \in U : ~ (<< y, x >> \in R)
  BY <1>1, WFMin
<1>3. \A y \in U : y < x => << y, x >> \in R
  BY DEF R
<1> QED BY <1>2, <1>3

(* Induction up to n, for a set of naturals in the place of a predicate.   *)
LEMMA UpTo ==
  ASSUME NEW n \in Nat, NEW G, 0 \in G, \A i \in 1 .. n : i - 1 \in G => i \in G
  PROVE  \A i \in 0 .. n : i \in G
<1> DEFINE U == {i \in 0 .. n : i \notin G}
<1> SUFFICES ASSUME U # {} PROVE FALSE
  OBVIOUS
<1>1. U \in SUBSET Nat
  OBVIOUS
<1>2. PICK x \in U : \A y \in U : ~ (y < x)
  BY <1>1, Least
<1>3. x \in 1 .. n /\ x \notin G
  OBVIOUS
<1>4. x - 1 \in 0 .. n /\ x - 1 < x
  BY <1>3
<1>5. x - 1 \in G
  BY <1>2, <1>4
<1> QED BY <1>3, <1>5

FilterStep(g, s, T, i) ==
  IF i = 0 THEN << >>
  ELSE IF s[i] \in T THEN Append(g[i - 1], s[i]) ELSE g[i - 1]

Solves(g, s, T, n) == g = [i \in 0 .. n |-> FilterStep(g, s, T, i)]

(* The recursion has a solution.                                           *)
LEMMA Solvable ==
  ASSUME NEW s, NEW T, NEW n \in Nat
  PROVE  \E g : Solves(g, s, T, n)
<1> DEFINE G == {i \in 0 .. n : \E g : Solves(g, s, T, i)}
<1>1. 0 \in G
  <2> DEFINE g == [i \in 0 .. 0 |-> << >>]
  <2>1. g = [i \in 0 .. 0 |-> FilterStep(g, s, T, i)]
    BY DEF FilterStep
  <2> QED BY <2>1 DEF Solves
<1>2. ASSUME NEW i \in 1 .. n, i - 1 \in G
      PROVE  i \in G
  <2>1. PICK g : Solves(g, s, T, i - 1)
    BY <1>2
  <2> DEFINE h == [j \in 0 .. i |-> IF j < i THEN g[j] ELSE FilterStep(g, s, T, i)]
  <2>2. \A j \in 0 .. i - 1 : g[j] = FilterStep(g, s, T, j)
    BY <2>1 DEF Solves
  <2>3. \A j \in 0 .. i : FilterStep(h, s, T, j) = FilterStep(g, s, T, j)
    BY DEF FilterStep
  <2>4. \A j \in 0 .. i : h[j] = FilterStep(h, s, T, j)
    BY <2>2, <2>3
  <2>5. h = [j \in 0 .. i |-> FilterStep(h, s, T, j)]
    BY <2>4
  <2>6. \E f : Solves(f, s, T, i)
    BY <2>5 DEF Solves
  <2> QED BY <2>6
<1> HIDE DEF G
<1>3. \A i \in 0 .. n : i \in G
  BY <1>1, <1>2, UpTo
<1> QED BY <1>3 DEF G

LEMMA FilterRecursion ==
  ASSUME NEW s, Len(s) \in Nat, NEW T
  PROVE  /\ FilterPrefixes(s, T)[0] = << >>
         /\ \A i \in 1 .. Len(s) :
              FilterPrefixes(s, T)[i] =
                IF s[i] \in T THEN Append(FilterPrefixes(s, T)[i - 1], s[i])
                ELSE FilterPrefixes(s, T)[i - 1]
<1> DEFINE g == FilterPrefixes(s, T)
<1>1. g = CHOOSE h : Solves(h, s, T, Len(s))
  BY DEF FilterPrefixes, Solves, FilterStep
<1>2. Solves(g, s, T, Len(s))
  BY <1>1, Solvable
<1> HIDE DEF g
<1>3. \A i \in 0 .. Len(s) : g[i] = FilterStep(g, s, T, i)
  BY <1>2 DEF Solves
<1>4. g[0] = << >> /\ \A i \in 1 .. Len(s) :
        g[i] = IF s[i] \in T THEN Append(g[i - 1], s[i]) ELSE g[i - 1]
  BY <1>3 DEF FilterStep
<1> QED BY <1>4 DEF g

(* Filter keeps elements of the sequence that are in the set.              *)
LEMMA FilterType ==
  ASSUME NEW S, NEW s \in Seq(S), NEW T
  PROVE  Filter(s, T) \in Seq(S \cap T)
<1> DEFINE G == {i \in 0 .. Len(s) : FilterPrefixes(s, T)[i] \in Seq(S \cap T)}
<1>1. Len(s) \in Nat /\ \A i \in 1 .. Len(s) : s[i] \in S
  OBVIOUS
<1>2. 0 \in G
  <2>1. FilterPrefixes(s, T)[0] = << >> /\ 0 \in 0 .. Len(s)
    BY <1>1, FilterRecursion
  <2>2. << >> \in Seq(S \cap T)
    OBVIOUS
  <2> QED BY <2>1, <2>2
<1>3. ASSUME NEW i \in 1 .. Len(s), i - 1 \in G
      PROVE  i \in G
  <2>1. FilterPrefixes(s, T)[i - 1] \in Seq(S \cap T)
    BY <1>3
  <2>2. s[i] \in T => s[i] \in S \cap T
    BY <1>1
  <2>3. FilterPrefixes(s, T)[i] =
          IF s[i] \in T THEN Append(FilterPrefixes(s, T)[i - 1], s[i])
          ELSE FilterPrefixes(s, T)[i - 1]
    BY <1>1, FilterRecursion
  <2>4. FilterPrefixes(s, T)[i] \in Seq(S \cap T)
    BY <2>1, <2>2, <2>3
  <2> QED BY <1>1, <2>4
<1> HIDE DEF G
<1>4. \A i \in 0 .. Len(s) : i \in G
  BY <1>1, <1>2, <1>3, UpTo
<1> QED BY <1>1, <1>4 DEF G, Filter

(* Filter leaves a sequence alone whose elements are all in the set.       *)
LEMMA FilterAll ==
  ASSUME NEW T, NEW s \in Seq(T)
  PROVE  Filter(s, T) = s
<1> DEFINE G == {i \in 0 .. Len(s) : FilterPrefixes(s, T)[i] = SubSeq(s, 1, i)}
<1>1. Len(s) \in Nat /\ \A i \in 1 .. Len(s) : s[i] \in T
  OBVIOUS
<1>2. 0 \in G
  <2>1. FilterPrefixes(s, T)[0] = << >> /\ 0 \in 0 .. Len(s)
    BY <1>1, FilterRecursion
  <2>2. SubSeq(s, 1, 0) = << >>
    OBVIOUS
  <2>3. FilterPrefixes(s, T)[0] = SubSeq(s, 1, 0)
    BY <2>1, <2>2
  <2> QED BY <2>1, <2>3
<1>3. ASSUME NEW i \in 1 .. Len(s), i - 1 \in G
      PROVE  i \in G
  <2>1. FilterPrefixes(s, T)[i - 1] = SubSeq(s, 1, i - 1)
    BY <1>3
  <2>2. FilterPrefixes(s, T)[i] = Append(FilterPrefixes(s, T)[i - 1], s[i])
    BY <1>1, FilterRecursion
  <2>3. Append(SubSeq(s, 1, i - 1), s[i]) = SubSeq(s, 1, i)
    BY <1>1, SubSeqRecursiveSecond
  <2> QED BY <1>1, <2>1, <2>2, <2>3
<1> HIDE DEF G
<1>4. \A i \in 0 .. Len(s) : i \in G
  BY <1>1, <1>2, <1>3, UpTo
<1>5. SubSeq(s, 1, Len(s)) = s
  BY SubSeqFull
<1> QED BY <1>1, <1>4, <1>5 DEF G, Filter

(* Filter keeps every element that is in the set.                          *)
LEMMA FilterKeeps ==
  ASSUME NEW S, NEW s \in Seq(S), NEW T, NEW k \in 1 .. Len(s), s[k] \in T
  PROVE  \E j \in 1 .. Len(Filter(s, T)) : Filter(s, T)[j] = s[k]
<1> DEFINE P == FilterPrefixes(s, T)
           Has(q) == \E j \in 1 .. Len(q) : q[j] = s[k]
           G == {i \in 0 .. Len(s) : P[i] \in Seq(S) /\ (k <= i => Has(P[i]))}
<1>1. Len(s) \in Nat /\ \A i \in 1 .. Len(s) : s[i] \in S
  OBVIOUS
<1>2. /\ P[0] = << >>
      /\ \A i \in 1 .. Len(s) : P[i] = IF s[i] \in T THEN Append(P[i - 1], s[i]) ELSE P[i - 1]
  BY <1>1, FilterRecursion
<1> HIDE DEF P
<1>3. 0 \in G
  <2>1. << >> \in Seq(S) /\ ~ (k <= 0) /\ 0 \in 0 .. Len(s)
    BY <1>1
  <2>2. P[0] \in Seq(S) /\ (k <= 0 => Has(P[0]))
    BY <1>2, <2>1
  <2> QED BY <2>1, <2>2
<1>4. ASSUME NEW i \in 1 .. Len(s), i - 1 \in G
      PROVE  i \in G
  <2>1. P[i - 1] \in Seq(S) /\ (k <= i - 1 => Has(P[i - 1])) /\ s[i] \in S
    BY <1>1, <1>4
  <2>2. /\ Append(P[i - 1], s[i]) \in Seq(S)
        /\ Has(P[i - 1]) => Has(Append(P[i - 1], s[i]))
        /\ i = k => Has(Append(P[i - 1], s[i]))
    <3>1. /\ Append(P[i - 1], s[i]) \in Seq(S)
          /\ Len(Append(P[i - 1], s[i])) = Len(P[i - 1]) + 1 /\ Len(P[i - 1]) \in Nat
          /\ Append(P[i - 1], s[i])[Len(P[i - 1]) + 1] = s[i]
          /\ \A j \in 1 .. Len(P[i - 1]) : Append(P[i - 1], s[i])[j] = P[i - 1][j]
      BY <2>1
    <3> QED BY <3>1
  <2>3. k <= i => k <= i - 1 \/ i = k
    OBVIOUS
  <2>4. P[i] \in Seq(S) /\ (k <= i => Has(P[i]))
    <3>1. CASE s[i] \in T
      <4>1. P[i] = Append(P[i - 1], s[i])
        BY <1>2, <3>1
      <4> HIDE DEF Has
      <4> QED BY <2>1, <2>2, <2>3, <4>1
    <3>2. CASE s[i] \notin T
      <4>1. P[i] = P[i - 1] /\ i # k
        BY <1>2, <3>2
      <4> HIDE DEF Has
      <4> QED BY <2>1, <2>3, <4>1
    <3> QED BY <3>1, <3>2
  <2> QED BY <1>1, <2>4
<1>5. \A i \in 0 .. Len(s) : i \in G
  <2> HIDE DEF G
  <2> QED BY <1>1, <1>3, <1>4, UpTo
<1>6. Has(P[Len(s)])
  BY <1>1, <1>5
<1> QED BY <1>6 DEF P, Filter

(* Filter does not repeat what the sequence does not.                      *)
LEMMA FilterInjective ==
  ASSUME NEW S, NEW s \in Seq(S), NEW T,
         \A i, j \in 1 .. Len(s) : s[i] = s[j] => i = j
  PROVE  \A i, j \in 1 .. Len(Filter(s, T)) : Filter(s, T)[i] = Filter(s, T)[j] => i = j
<1> DEFINE P == FilterPrefixes(s, T)
           Once(q) == \A i, j \in 1 .. Len(q) : q[i] = q[j] => i = j
           Old(q, n) == \A i \in 1 .. Len(q) : \E j \in 1 .. n : q[i] = s[j]
           G == {i \in 0 .. Len(s) : P[i] \in Seq(S) /\ Once(P[i]) /\ Old(P[i], i)}
<1>1. Len(s) \in Nat /\ \A i \in 1 .. Len(s) : s[i] \in S
  OBVIOUS
<1>2. /\ P[0] = << >>
      /\ \A i \in 1 .. Len(s) : P[i] = IF s[i] \in T THEN Append(P[i - 1], s[i]) ELSE P[i - 1]
  BY <1>1, FilterRecursion
<1> HIDE DEF P
<1>3. 0 \in G
  <2>1. << >> \in Seq(S) /\ Once(<< >>) /\ Old(<< >>, 0) /\ 0 \in 0 .. Len(s)
    BY <1>1
  <2> HIDE DEF Once, Old
  <2>2. P[0] \in Seq(S) /\ Once(P[0]) /\ Old(P[0], 0)
    BY <1>2, <2>1
  <2> QED BY <2>1, <2>2
<1>4. ASSUME NEW i \in 1 .. Len(s), i - 1 \in G
      PROVE  i \in G
  <2>1. P[i - 1] \in Seq(S) /\ Once(P[i - 1]) /\ Old(P[i - 1], i - 1) /\ s[i] \in S
    BY <1>1, <1>4
  <2> DEFINE q == Append(P[i - 1], s[i])
             n == Len(P[i - 1])
  <2>2. /\ q \in Seq(S) /\ Len(q) = n + 1 /\ n \in Nat /\ q[n + 1] = s[i]
        /\ \A j \in 1 .. n : q[j] = P[i - 1][j]
    BY <2>1
  <2> HIDE DEF q
  <2>3. \A j \in 1 .. n : q[j] # s[i]
    <3>1. TAKE j \in 1 .. n
    <3>2. PICK k \in 1 .. i - 1 : P[i - 1][j] = s[k]
      BY <2>1
    <3>3. k \in 1 .. Len(s) /\ k # i
      BY <1>1, <3>2
    <3>4. s[k] # s[i]
      BY <3>3
    <3> QED BY <2>2, <3>2, <3>4
  <2>4. Once(q)
    <3> SUFFICES ASSUME NEW j \in 1 .. n + 1, NEW k \in 1 .. n + 1, q[j] = q[k]
                 PROVE  j = k
      BY <2>2
    <3>1. CASE j \in 1 .. n /\ k \in 1 .. n
      BY <2>1, <2>2, <3>1
    <3>2. CASE j = n + 1 \/ k = n + 1
      <4>1. ~ (j \in 1 .. n) \/ q[j] # s[i]
        BY <2>3
      <4>2. ~ (k \in 1 .. n) \/ q[k] # s[i]
        BY <2>3
      <4>3. (j \in 1 .. n \/ j = n + 1) /\ (k \in 1 .. n \/ k = n + 1)
        BY <2>2
      <4> QED BY <2>2, <3>2, <4>1, <4>2, <4>3
    <3>3. (j \in 1 .. n \/ j = n + 1) /\ (k \in 1 .. n \/ k = n + 1)
      BY <2>2
    <3> QED BY <3>1, <3>2, <3>3
  <2>5. Old(q, i)
    <3> SUFFICES ASSUME NEW j \in 1 .. n + 1
                 PROVE  \E k \in 1 .. i : q[j] = s[k]
      BY <2>2
    <3>1. CASE j = n + 1
      BY <2>2, <3>1
    <3>2. CASE j \in 1 .. n
      <4>1. PICK k \in 1 .. i - 1 : P[i - 1][j] = s[k]
        BY <2>1, <3>2
      <4>2. k \in 1 .. i
        BY <4>1
      <4> QED BY <2>2, <3>2, <4>1, <4>2
    <3> QED BY <2>2, <3>1, <3>2
  <2>6. Old(P[i - 1], i)
    <3> SUFFICES ASSUME NEW j \in 1 .. n
                 PROVE  \E k \in 1 .. i : P[i - 1][j] = s[k]
      OBVIOUS
    <3>1. PICK k \in 1 .. i - 1 : P[i - 1][j] = s[k]
      BY <2>1
    <3>2. k \in 1 .. i
      BY <3>1
    <3> QED BY <3>1, <3>2
  <2>7. P[i] = q \/ P[i] = P[i - 1]
    BY <1>2 DEF q
  <2> HIDE DEF Once, Old
  <2>8. P[i] \in Seq(S) /\ Once(P[i]) /\ Old(P[i], i)
    BY <2>1, <2>2, <2>4, <2>5, <2>6, <2>7
  <2> QED BY <1>1, <2>8
<1>5. \A i \in 0 .. Len(s) : i \in G
  <2> HIDE DEF G
  <2> QED BY <1>1, <1>3, <1>4, UpTo
<1>6. Once(P[Len(s)])
  BY <1>1, <1>5
<1> QED BY <1>6 DEF P, Filter

(* Filter and the end of a sequence.                                       *)
LEMMA FilterEmpty ==
  ASSUME NEW T
  PROVE  Filter(<< >>, T) = << >>
BY FilterRecursion DEF Filter

LEMMA FilterAppend ==
  ASSUME NEW S, NEW s \in Seq(S), NEW x \in S, NEW T
  PROVE  Filter(Append(s, x), T) = IF x \in T THEN Append(Filter(s, T), x) ELSE Filter(s, T)
<1> DEFINE G == {i \in 0 .. Len(s) : FilterPrefixes(Append(s, x), T)[i] = FilterPrefixes(s, T)[i]}
<1>1. PICK n \in Nat : n = Len(s)
  OBVIOUS
<1>2. PICK t \in Seq(S) : t = Append(s, x)
  <2>1. Append(s, x) \in Seq(S)
    OBVIOUS
  <2> QED BY <2>1
<1>3. Len(t) = n + 1 /\ t[n + 1] = x /\ \A i \in 1 .. n : t[i] = s[i]
  BY <1>1, <1>2
<1>4. /\ FilterPrefixes(t, T)[0] = << >> /\ FilterPrefixes(s, T)[0] = << >>
      /\ \A i \in 1 .. n + 1 :
           FilterPrefixes(t, T)[i] = IF t[i] \in T THEN Append(FilterPrefixes(t, T)[i - 1], t[i])
                                     ELSE FilterPrefixes(t, T)[i - 1]
      /\ \A i \in 1 .. n :
           FilterPrefixes(s, T)[i] = IF s[i] \in T THEN Append(FilterPrefixes(s, T)[i - 1], s[i])
                                     ELSE FilterPrefixes(s, T)[i - 1]
  BY <1>1, <1>3, FilterRecursion
<1>5. 0 \in G
  BY <1>1, <1>2, <1>4
<1>6. ASSUME NEW i \in 1 .. n, i - 1 \in G PROVE i \in G
  BY <1>1, <1>2, <1>3, <1>4, <1>6
<1> HIDE DEF G
<1>7. \A i \in 0 .. n : i \in G
  BY <1>5, <1>6, UpTo
<1>8. FilterPrefixes(t, T)[n] = FilterPrefixes(s, T)[n]
  <2>1. n \in 0 .. n
    OBVIOUS
  <2>2. n \in G
    BY <1>7, <2>1
  <2> QED BY <1>2, <2>2 DEF G
<1>9. FilterPrefixes(t, T)[n + 1] = IF x \in T THEN Append(FilterPrefixes(t, T)[n], x)
                                    ELSE FilterPrefixes(t, T)[n]
  <2>1. n + 1 \in 1 .. n + 1 /\ (n + 1) - 1 = n
    OBVIOUS
  <2> QED BY <1>3, <1>4, <2>1
<1> QED BY <1>1, <1>2, <1>3, <1>8, <1>9 DEF Filter

(* Filtering twice.                                                        *)
LEMMA FilterFilter ==
  ASSUME NEW S, NEW s \in Seq(S), NEW T, NEW U
  PROVE  Filter(Filter(s, T), U) = Filter(s, T \cap U)
<1> DEFINE P == FilterPrefixes(s, T)
           Q == FilterPrefixes(s, T \cap U)
           G == {i \in 0 .. Len(s) : P[i] \in Seq(S) /\ Filter(P[i], U) = Q[i]}
<1>1. Len(s) \in Nat /\ (\A i \in 1 .. Len(s) : s[i] \in S) /\ 0 \in 0 .. Len(s)
  OBVIOUS
<1>2. /\ P[0] = << >>
      /\ \A i \in 1 .. Len(s) : P[i] = IF s[i] \in T THEN Append(P[i - 1], s[i]) ELSE P[i - 1]
  BY <1>1, FilterRecursion
<1>3. /\ Q[0] = << >>
      /\ \A i \in 1 .. Len(s) :
           Q[i] = IF s[i] \in T \cap U THEN Append(Q[i - 1], s[i]) ELSE Q[i - 1]
  BY <1>1, FilterRecursion
<1> HIDE DEF P, Q
<1>4. 0 \in G
  <2>1. << >> \in Seq(S)
    OBVIOUS
  <2>2. P[0] \in Seq(S) /\ Filter(P[0], U) = Q[0]
    BY <1>2, <1>3, <2>1, FilterEmpty
  <2> QED BY <1>1, <2>2
<1>5. ASSUME NEW i \in 1 .. Len(s), i - 1 \in G PROVE i \in G
  <2>1. P[i - 1] \in Seq(S) /\ Filter(P[i - 1], U) = Q[i - 1] /\ s[i] \in S
    BY <1>1, <1>5
  <2>2. PICK p \in Seq(S) : p = P[i - 1]
    BY <2>1
  <2>3. PICK x \in S : x = s[i]
    BY <2>1
  <2>4. Filter(Append(p, x), U) = IF x \in U THEN Append(Q[i - 1], x) ELSE Q[i - 1]
    <3>1. Filter(Append(p, x), U) = IF x \in U THEN Append(Filter(p, U), x) ELSE Filter(p, U)
      BY FilterAppend
    <3>2. Filter(p, U) = Q[i - 1]
      BY <2>1, <2>2
    <3> QED BY <3>1, <3>2
  <2>5. Append(p, x) \in Seq(S)
    OBVIOUS
  <2>6. /\ P[i] = IF x \in T THEN Append(p, x) ELSE p
        /\ Q[i] = IF x \in T /\ x \in U THEN Append(Q[i - 1], x) ELSE Q[i - 1]
    BY <1>2, <1>3, <2>2, <2>3
  <2>7. P[i] \in Seq(S) /\ Filter(P[i], U) = Q[i]
    <3>1. CASE x \in T
      BY <2>4, <2>5, <2>6, <3>1
    <3>2. CASE x \notin T
      BY <2>1, <2>2, <2>6, <3>2
    <3> QED BY <3>1, <3>2
  <2>8. i \in 0 .. Len(s)
    BY <1>1
  <2> QED BY <2>7, <2>8
<1>6. \A i \in 0 .. Len(s) : i \in G
  <2> HIDE DEF G
  <2> QED BY <1>1, <1>4, <1>5, UpTo
<1>7. Len(s) \in 0 .. Len(s)
  BY <1>1
<1>8. Filter(P[Len(s)], U) = Q[Len(s)]
  BY <1>6, <1>7
<1> QED BY <1>8 DEF P, Q, Filter

(* What Filter keeps depends on the elements of the sequence alone.        *)
LEMMA FilterSame ==
  ASSUME NEW S, NEW s \in Seq(S), NEW T, NEW U, S \cap T = S \cap U
  PROVE  Filter(s, T) = Filter(s, U)
<1>1. Filter(s, S) = s
  BY FilterAll
<1>2. Filter(s, T) = Filter(s, S \cap T) /\ Filter(s, U) = Filter(s, S \cap U)
  <2>1. Filter(Filter(s, S), T) = Filter(s, S \cap T)
    BY FilterFilter
  <2>2. Filter(Filter(s, S), U) = Filter(s, S \cap U)
    BY FilterFilter
  <2> QED BY <1>1, <2>1, <2>2
<1> QED BY <1>2

(* Filter leaves nothing when no element is in the set.                    *)
LEMMA FilterNone ==
  ASSUME NEW S, NEW s \in Seq(S), NEW T, \A i \in 1 .. Len(s) : s[i] \notin T
  PROVE  Filter(s, T) = << >>
<1> DEFINE G == {i \in 0 .. Len(s) : FilterPrefixes(s, T)[i] = << >>}
<1>1. Len(s) \in Nat
  OBVIOUS
<1>2. 0 \in G
  BY <1>1, FilterRecursion
<1>3. ASSUME NEW i \in 1 .. Len(s), i - 1 \in G PROVE i \in G
  BY <1>1, <1>3, FilterRecursion
<1> HIDE DEF G
<1>4. \A i \in 0 .. Len(s) : i \in G
  BY <1>1, <1>2, <1>3, UpTo
<1>5. Len(s) \in 0 .. Len(s)
  BY <1>1
<1>6. Len(s) \in G
  BY <1>4, <1>5
<1> QED BY <1>6 DEF G, Filter
=============================================================================
