--------------------------- MODULE SequenceLemmas ---------------------------
(* Facts about the operators on sequences that the proofs about libwebsock *)
(* use: the community modules' and Filter.                                 *)
EXTENDS Integers, Sequences, SequencesExt, Filter,
        SequenceTheorems, WellFoundedInduction, TLAPS

\* A non-empty set of natural numbers has a least element.
LEMMA LeastNat ==
  ASSUME NEW S \in SUBSET Nat, S # {}
  PROVE  \E m \in S : \A n \in S : m <= n
<1>1. \E m \in S : \A n \in S : ~ (<<n, m>> \in OpToRel(<, Nat))
  BY NatLessThanWellFounded, WFMin
<1>2. ASSUME NEW m \in Nat, NEW n \in Nat, ~ (<<n, m>> \in OpToRel(<, Nat))
      PROVE  m <= n
  BY <1>2 DEF OpToRel
<1> QED BY <1>1, <1>2

\* Induction up to n: a set with every k of 0..n that it has all the smaller
\* ones of has all of 0..n.
LEMMA StrongInductionUpTo ==
  ASSUME NEW n \in Nat, NEW S,
         \A k \in 0..n : (\A j \in 0..n : j < k => j \in S) => k \in S
  PROVE  \A k \in 0..n : k \in S
<1> DEFINE Bad == {k \in 0..n : k \notin S}
<1>1. SUFFICES Bad = {}
  OBVIOUS
<1>2. SUFFICES ASSUME NEW m \in Bad, \A k \in Bad : m <= k PROVE FALSE
  <2>1. Bad \in SUBSET Nat
    OBVIOUS
  <2> HIDE DEF Bad
  <2> QED BY <2>1, LeastNat
<1>3. \A j \in 0..n : j < m => j \in S
  BY <1>2
<1> QED BY <1>3

\* The same with 0 in it, and with k when k - 1 is in it.
LEMMA InductionUpTo ==
  ASSUME NEW n \in Nat, NEW S, 0 \in S,
         \A k \in 1..n : k - 1 \in S => k \in S
  PROVE  \A k \in 0..n : k \in S
<1>1. ASSUME NEW k \in 0..n, \A j \in 0..n : j < k => j \in S PROVE k \in S
  <2>1. CASE k = 0
    BY <2>1
  <2>2. CASE k # 0
    <3>1. k \in 1..n /\ k - 1 \in 0..n /\ k - 1 < k
      BY <2>2
    <3> QED BY <1>1, <3>1
  <2> QED BY <2>1, <2>2
<1> QED BY <1>1, StrongInductionUpTo

\* f holds the values of a loop over 1..n, in V, before its first step and
\* after each: the k-th step takes a value x to F[k][x].
Trace(f, n, V, base, F) ==
  f \in [0..n -> V] /\ f[0] = base /\ \A k \in 1..n : f[k] = F[k][f[k - 1]]

\* Every loop has a trace.  (The least n without one would be 0 or follow one
\* that has.)
LEMMA TraceExists ==
  ASSUME NEW n \in Nat, NEW V, NEW base \in V, NEW F,
         \A k \in 1..n : \A x \in V : F[k][x] \in V
  PROVE  \E f : Trace(f, n, V, base, F)
<1> DEFINE Bad == {m \in 0..n : ~ \E f : Trace(f, m, V, base, F)}
<1>1. SUFFICES Bad = {}
  <2>1. n \in 0..n
    OBVIOUS
  <2> QED BY <2>1
<1>2. SUFFICES ASSUME NEW m \in Bad, \A k \in Bad : m <= k PROVE FALSE
  <2>1. Bad \in SUBSET Nat
    OBVIOUS
  <2> HIDE DEF Bad
  <2> QED BY <2>1, LeastNat
<1>3. m # 0
  <2>1. Trace([k \in 0..0 |-> base], 0, V, base, F)
    BY DEF Trace
  <2> QED BY <2>1
<1>4. m - 1 \in 0..n /\ ~ (m <= m - 1) /\ m \in 1..n
  BY <1>3
<1>5. PICK f : Trace(f, m - 1, V, base, F)
  BY <1>2, <1>4
<1> DEFINE g == [k \in 0..m |-> IF k = m THEN F[m][f[m - 1]] ELSE f[k]]
<1>6. g \in [0..m -> V]
  <2>1. F[m][f[m - 1]] \in V
    BY <1>4, <1>5 DEF Trace
  <2>2. \A k \in 0..m : k # m => k \in 0..m - 1
    BY <1>4
  <2> QED BY <1>5, <2>1, <2>2 DEF Trace
<1>7. g[0] = base
  BY <1>4, <1>5 DEF Trace
<1>8. ASSUME NEW k \in 1..m PROVE g[k] = F[k][g[k - 1]]
  <2>1. CASE k = m
    BY <1>4, <2>1
  <2>2. CASE k # m
    BY <1>4, <1>5, <2>2 DEF Trace
  <2> QED BY <2>1, <2>2
<1> HIDE DEF g
<1> QED BY <1>4, <1>6, <1>7, <1>8 DEF Trace

\* Min is the least element of a non-empty set of natural numbers.
LEMMA MinOfNats ==
  ASSUME NEW S \in SUBSET Nat, S # {}
  PROVE  Min(S) \in S /\ \A n \in S : Min(S) <= n
BY LeastNat DEF Min

\* The equation of the recursive function inside FlattenSeq, on 1..n.
Flattens(f, ss, n) ==
  f = [i \in 1..n |-> IF i = 1 THEN ss[i] ELSE f[i - 1] \o ss[i]]

\* What the recursive function inside FlattenSeq computes: there is a
\* function on 1..n that satisfies its equation, and its values are
\* sequences.  (The least n without one would be 0 or follow one that has.)
LEMMA FlattenExists ==
  ASSUME NEW S, NEW ss \in Seq(Seq(S))
  PROVE  \A len \in Nat : len <= Len(ss) =>
           \E f \in [1..len -> Seq(S)] : Flattens(f, ss, len)
<1> SUFFICES ASSUME NEW len \in Nat, len <= Len(ss)
             PROVE  \E f \in [1..len -> Seq(S)] : Flattens(f, ss, len)
  OBVIOUS
<1> DEFINE Good(n) == \E f \in [1..n -> Seq(S)] : Flattens(f, ss, n)
           Bad == {n \in 0..len : ~ Good(n)}
<1> HIDE DEF Good
<1>0. Bad \in SUBSET Nat
  OBVIOUS
<1>1. SUFFICES Bad = {}
  <2>1. len \in 0..len /\ (Bad = {} => Good(len))
    OBVIOUS
  <2> QED BY <2>1 DEF Good
<1>2. SUFFICES ASSUME NEW n \in Bad, \A m \in Bad : n <= m
               PROVE  FALSE
  <2> HIDE DEF Bad
  <2> QED BY <1>0, LeastNat
<1> n \in 0..len
  OBVIOUS
<1>3. n # 0
  <2>1. Good(0)
    <3> DEFINE f == [i \in 1..0 |-> <<>>]
    <3>1. f \in [1..0 -> Seq(S)]
      OBVIOUS
    <3>2. f = [i \in 1..0 |-> IF i = 1 THEN ss[i] ELSE f[i - 1] \o ss[i]]
      OBVIOUS
    <3> QED BY <3>1, <3>2 DEF Good, Flattens
  <2> QED BY <2>1
<1>4. PICK g \in [1..(n - 1) -> Seq(S)] :
        g = [i \in 1..(n - 1) |-> IF i = 1 THEN ss[i] ELSE g[i - 1] \o ss[i]]
  <2>1. n - 1 \in 0..len /\ ~ (n <= n - 1)
    BY <1>3
  <2>2. n - 1 \notin Bad
    <3> HIDE DEF Bad
    <3> QED BY <1>2, <2>1
  <2>3. Good(n - 1)
    BY <2>1, <2>2
  <2> QED BY <2>3 DEF Good, Flattens
<1> DEFINE last == IF n = 1 THEN ss[n] ELSE g[n - 1] \o ss[n]
           f == [i \in 1..n |-> IF i = n THEN last ELSE g[i]]
<1>5. ss[n] \in Seq(S)
  <2>1. n \in 1..Len(ss)
    BY <1>3, LenProperties
  <2> QED BY <2>1, ElementOfSeq
<1>6. last \in Seq(S)
  <2>1. CASE n = 1
    BY <2>1, <1>5
  <2>2. CASE n # 1
    <3>1. g[n - 1] \in Seq(S)
      BY <2>2, <1>3, <1>4
    <3> QED BY <2>2, <3>1, <1>5, ConcatProperties
  <2> QED BY <2>1, <2>2
<1>7. f \in [1..n -> Seq(S)]
  <2> HIDE DEF last
  <2>1. \A i \in 1..n : i # n => i \in 1..(n - 1)
    OBVIOUS
  <2> QED BY <2>1, <1>4, <1>6
<1>8. \A i \in 1..n : f[i] = IF i = 1 THEN ss[i] ELSE f[i - 1] \o ss[i]
  <2> SUFFICES ASSUME NEW i \in 1..n
               PROVE  f[i] = IF i = 1 THEN ss[i] ELSE f[i - 1] \o ss[i]
    OBVIOUS
  <2>1. CASE i = n
    BY <2>1, <1>3
  <2>2. CASE i # n
    <3>1. f[i] = g[i] /\ i \in 1..(n - 1)
      BY <2>2
    <3>2. g[i] = IF i = 1 THEN ss[i] ELSE g[i - 1] \o ss[i]
      BY <3>1, <1>4
    <3>3. i # 1 => f[i - 1] = g[i - 1]
      BY <3>1
    <3> QED BY <3>1, <3>2, <3>3
  <2> QED BY <2>1, <2>2
<1>9. f = [i \in 1..n |-> IF i = 1 THEN ss[i] ELSE f[i - 1] \o ss[i]]
  <2> HIDE DEF f
  <2> QED BY <1>7, <1>8
<1>10. Good(n)
  <2> HIDE DEF f
  <2> QED BY <1>7, <1>9 DEF Good, Flattens
<1> QED BY <1>10

\* The concatenation of sequences over S is a sequence over S.
LEMMA FlattenSeqType ==
  ASSUME NEW S, NEW ss \in Seq(Seq(S))
  PROVE  FlattenSeq(ss) \in Seq(S)
<1> DEFINE f == CHOOSE h : h = [i \in 1..Len(ss) |-> IF i = 1 THEN ss[i] ELSE h[i - 1] \o ss[i]]
<1>1. CASE Len(ss) = 0
  BY <1>1 DEF FlattenSeq
<1>2. CASE Len(ss) # 0
  <2>1. PICK g \in [1..Len(ss) -> Seq(S)] :
          g = [i \in 1..Len(ss) |-> IF i = 1 THEN ss[i] ELSE g[i - 1] \o ss[i]]
    <3>1. Len(ss) \in Nat /\ Len(ss) <= Len(ss)
      BY LenProperties
    <3>2. \E g \in [1..Len(ss) -> Seq(S)] : Flattens(g, ss, Len(ss))
      BY <3>1, FlattenExists
    <3> QED BY <3>2 DEF Flattens
  <2>2. f = [i \in 1..Len(ss) |-> IF i = 1 THEN ss[i] ELSE f[i - 1] \o ss[i]]
    BY <2>1
  <2>3. FlattenSeq(ss) = f[Len(ss)]
    BY <1>2 DEF FlattenSeq
  <2> DEFINE Bad == {i \in 1..Len(ss) : f[i] \notin Seq(S)}
  <2>4. Bad = {}
    <3> HIDE DEF f
    <3>0. Bad \in SUBSET Nat
      BY LenProperties
    <3>1. SUFFICES ASSUME NEW n \in Bad, \A m \in Bad : n <= m
                   PROVE  FALSE
      <4> HIDE DEF Bad
      <4> QED BY <3>0, LeastNat
    <3> n \in 1..Len(ss) /\ Len(ss) \in Nat
      BY LenProperties
    <3>2. ss[n] \in Seq(S)
      BY ElementOfSeq
    <3>3. f[n] = IF n = 1 THEN ss[n] ELSE f[n - 1] \o ss[n]
      BY <2>2
    <3>4. n # 1
      BY <3>2, <3>3
    <3>5. f[n - 1] \in Seq(S)
      <4>1. n - 1 \in 1..Len(ss) /\ ~ (n <= n - 1)
        BY <3>4
      <4>2. n - 1 \notin Bad
        <5> HIDE DEF Bad
        <5> QED BY <3>1, <4>1
      <4> QED BY <4>1, <4>2
    <3> QED BY <3>2, <3>3, <3>4, <3>5, ConcatProperties
  <2> HIDE DEF f
  <2>5. Len(ss) \in 1..Len(ss)
    BY <1>2, LenProperties
  <2> QED BY <2>3, <2>4, <2>5
<1> QED BY <1>1, <1>2

-----------------------------------------------------------------------------
(* Filter.                                                                 *)

\* The equation of the recursive function inside Filter, on 0..n.
Filters(f, s, T, n) ==
  f = [k \in 0..n |-> IF k = 0 THEN <<>>
                      ELSE IF s[k] \in T THEN Append(f[k - 1], s[k])
                      ELSE f[k - 1]]

\* There is a function that satisfies it, and its values are sequences of
\* elements of T.
LEMMA FilterExists ==
  ASSUME NEW S, NEW T, NEW s \in Seq(S)
  PROVE  \A len \in Nat : len <= Len(s) =>
           \E f \in [0..len -> Seq(S \cap T)] : Filters(f, s, T, len)
<1> SUFFICES ASSUME NEW len \in Nat, len <= Len(s)
             PROVE  \E f \in [0..len -> Seq(S \cap T)] : Filters(f, s, T, len)
  OBVIOUS
<1> DEFINE Good(n) == \E f \in [0..n -> Seq(S \cap T)] : Filters(f, s, T, n)
           Bad == {n \in 0..len : ~ Good(n)}
<1> HIDE DEF Good
<1>0. Bad \in SUBSET Nat
  OBVIOUS
<1>1. SUFFICES Bad = {}
  <2>1. len \in 0..len /\ (Bad = {} => Good(len))
    OBVIOUS
  <2> QED BY <2>1 DEF Good
<1>2. SUFFICES ASSUME NEW n \in Bad, \A m \in Bad : n <= m
               PROVE  FALSE
  <2> HIDE DEF Bad
  <2> QED BY <1>0, LeastNat
<1> n \in 0..len
  OBVIOUS
<1>3. n # 0
  <2>1. Good(0)
    <3> DEFINE f == [k \in 0..0 |-> <<>>]
    <3>1. f \in [0..0 -> Seq(S \cap T)]
      OBVIOUS
    <3>2. f = [k \in 0..0 |-> IF k = 0 THEN <<>>
                              ELSE IF s[k] \in T THEN Append(f[k - 1], s[k])
                              ELSE f[k - 1]]
      OBVIOUS
    <3> QED BY <3>1, <3>2 DEF Good, Filters
  <2> QED BY <2>1
<1>4. PICK g \in [0..(n - 1) -> Seq(S \cap T)] :
        g = [k \in 0..(n - 1) |-> IF k = 0 THEN <<>>
                                  ELSE IF s[k] \in T THEN Append(g[k - 1], s[k])
                                  ELSE g[k - 1]]
  <2>1. n - 1 \in 0..len /\ ~ (n <= n - 1)
    BY <1>3
  <2>2. n - 1 \notin Bad
    <3> HIDE DEF Bad
    <3> QED BY <1>2, <2>1
  <2>3. Good(n - 1)
    BY <2>1, <2>2
  <2> QED BY <2>3 DEF Good, Filters
<1> DEFINE last == IF s[n] \in T THEN Append(g[n - 1], s[n]) ELSE g[n - 1]
           f == [k \in 0..n |-> IF k = n THEN last ELSE g[k]]
<1>5. last \in Seq(S \cap T)
  <2>1. s[n] \in S
    BY <1>3, LenProperties, ElementOfSeq
  <2>2. g[n - 1] \in Seq(S \cap T)
    BY <1>3, <1>4
  <2> QED BY <2>1, <2>2, AppendProperties
<1>6. f \in [0..n -> Seq(S \cap T)]
  <2> HIDE DEF last
  <2>1. \A k \in 0..n : k # n => k \in 0..(n - 1)
    OBVIOUS
  <2> QED BY <2>1, <1>4, <1>5
<1>7. \A k \in 0..n : f[k] = IF k = 0 THEN <<>>
                             ELSE IF s[k] \in T THEN Append(f[k - 1], s[k])
                             ELSE f[k - 1]
  <2> SUFFICES ASSUME NEW k \in 0..n
               PROVE  f[k] = IF k = 0 THEN <<>>
                             ELSE IF s[k] \in T THEN Append(f[k - 1], s[k])
                             ELSE f[k - 1]
    OBVIOUS
  <2>1. CASE k = n
    <3>1. f[k] = last /\ f[k - 1] = g[n - 1]
      BY <2>1, <1>3
    <3> QED BY <2>1, <1>3, <3>1
  <2>2. CASE k # n
    <3>1. f[k] = g[k] /\ k \in 0..(n - 1)
      BY <2>2
    <3>2. g[k] = IF k = 0 THEN <<>>
                 ELSE IF s[k] \in T THEN Append(g[k - 1], s[k])
                 ELSE g[k - 1]
      BY <3>1, <1>4
    <3>3. k # 0 => f[k - 1] = g[k - 1]
      BY <3>1
    <3> QED BY <3>1, <3>2, <3>3
  <2> QED BY <2>1, <2>2
<1>8. Good(n)
  <2> HIDE DEF f
  <2> QED BY <1>6, <1>7 DEF Good, Filters
<1> QED BY <1>8

\* Its equation at the last element, and the agreement of two such functions
\* there: opaque where the lemmas are cited, so that the provers do not unfold
\* them down to the first.
Follows(f, s, T, n) ==
  f[n] = IF s[n] \in T THEN Append(f[n - 1], s[n]) ELSE f[n - 1]
Agree(f, g, n) == f[n] = g[n]

\* A function that satisfies the equation follows it at its last element.
LEMMA FilterLast ==
  ASSUME NEW s, NEW T, NEW n \in Nat, n # 0, NEW f, Filters(f, s, T, n)
  PROVE  Follows(f, s, T, n)
<1> DEFINE e(k) == IF k = 0 THEN <<>>
                   ELSE IF s[k] \in T THEN Append(f[k - 1], s[k])
                   ELSE f[k - 1]
<1>1. f = [k \in 0..n |-> e(k)]
  BY DEF Filters
<1>2. n \in 0..n
  OBVIOUS
<1> HIDE DEF e
<1>3. f[n] = e(n)
  BY <1>1, <1>2
<1> QED BY <1>3 DEF e, Follows

\* Two such functions agree as far as their sequences do.
LEMMA FilterUnique ==
  ASSUME NEW s, NEW t, NEW T, NEW m \in Nat, NEW n \in Nat, NEW f, NEW g,
         Filters(f, s, T, m), Filters(g, t, T, n), m <= n,
         \A k \in 1..m : s[k] = t[k]
  PROVE  Agree(f, g, m)
<1> DEFINE Bad == {k \in 0..m : f[k] # g[k]}
<1>0. Bad \in SUBSET Nat
  OBVIOUS
<1>1. SUFFICES ASSUME NEW k \in Bad, \A j \in Bad : k <= j
               PROVE  FALSE
  <2>1. m \notin Bad => Agree(f, g, m)
    BY DEF Agree
  <2> HIDE DEF Bad
  <2> QED BY <1>0, <2>1, LeastNat
<1> k \in 0..m /\ k \in 0..n
  OBVIOUS
<1>2. f[k] = IF k = 0 THEN <<>> ELSE IF s[k] \in T THEN Append(f[k - 1], s[k]) ELSE f[k - 1]
  BY DEF Filters
<1>3. g[k] = IF k = 0 THEN <<>> ELSE IF t[k] \in T THEN Append(g[k - 1], t[k]) ELSE g[k - 1]
  BY DEF Filters
<1>4. k # 0
  BY <1>2, <1>3
<1>5. f[k - 1] = g[k - 1]
  <2>1. k - 1 \in 0..m /\ ~ (k <= k - 1)
    BY <1>4
  <2>2. k - 1 \notin Bad
    <3> HIDE DEF Bad
    <3> QED BY <1>1, <2>1
  <2> QED BY <2>1, <2>2
<1> QED BY <1>2, <1>3, <1>4, <1>5

\* What Filter returns: the last value of such a function.
LEMMA FilterValue ==
  ASSUME NEW S, NEW T, NEW s \in Seq(S)
  PROVE  \E f \in [0..Len(s) -> Seq(S \cap T)] :
           Filters(f, s, T, Len(s)) /\ Filter(s, T) = f[Len(s)]
<1> DEFINE f == CHOOSE h : h = [k \in 0..Len(s) |->
                                  IF k = 0 THEN <<>>
                                  ELSE IF s[k] \in T THEN Append(h[k - 1], s[k])
                                  ELSE h[k - 1]]
<1>1. Len(s) \in Nat
  BY LenProperties
<1>2. PICK g \in [0..Len(s) -> Seq(S \cap T)] : Filters(g, s, T, Len(s))
  <2> HIDE DEF f
  <2>1. Len(s) <= Len(s)
    BY <1>1
  <2> QED BY <1>1, <2>1, FilterExists
<1>3. f = [k \in 0..Len(s) |-> IF k = 0 THEN <<>>
                               ELSE IF s[k] \in T THEN Append(f[k - 1], s[k])
                               ELSE f[k - 1]]
  BY <1>2 DEF Filters
<1>4. Filter(s, T) = f[Len(s)]
  BY DEF Filter
<1> HIDE DEF f
<1>5. Filters(f, s, T, Len(s))
  BY <1>3 DEF Filters
<1>6. f[Len(s)] = g[Len(s)]
  BY <1>1, <1>2, <1>5, FilterUnique DEF Agree
<1> QED BY <1>2, <1>4, <1>6

\* Filter returns elements of the sequence that are in the set.
LEMMA FilterType ==
  ASSUME NEW S, NEW T, NEW s \in Seq(S)
  PROVE  Filter(s, T) \in Seq(S \cap T) /\ Filter(s, T) \in Seq(S)
<1>1. Filter(s, T) \in Seq(S \cap T)
  BY FilterValue, LenProperties
<1> QED BY <1>1, SeqMonotonic

\* Nothing is left of nothing.
LEMMA FilterEmpty == \A T : Filter(<<>>, T) = <<>>
<1> SUFFICES ASSUME NEW T PROVE Filter(<<>>, T) = <<>>
  OBVIOUS
<1> DEFINE s == <<>>
<1>1. s \in Seq({}) /\ Len(s) = 0
  OBVIOUS
<1> HIDE DEF s
<1>2. PICK f \in [0..Len(s) -> Seq({} \cap T)] :
        Filters(f, s, T, Len(s)) /\ Filter(s, T) = f[Len(s)]
  BY <1>1, FilterValue
<1>3. f[0] = <<>>
  BY <1>1, <1>2 DEF Filters
<1> QED BY <1>1, <1>2, <1>3 DEF s

\* One element more.
LEMMA FilterAppend ==
  ASSUME NEW S, NEW T, NEW s \in Seq(S), NEW e \in S
  PROVE  Filter(Append(s, e), T) = IF e \in T THEN Append(Filter(s, T), e) ELSE Filter(s, T)
<1> DEFINE t == Append(s, e)
           n == Len(s)
<1>1. /\ t \in Seq(S) /\ Len(t) = n + 1 /\ n \in Nat
      /\ \A k \in 1..n : t[k] = s[k]
      /\ t[n + 1] = e
  BY AppendProperties, LenProperties
<1> HIDE DEF t
<1>2. PICK f \in [0..n -> Seq(S \cap T)] : Filters(f, s, T, n) /\ Filter(s, T) = f[n]
  BY FilterValue
<1>3. PICK g \in [0..Len(t) -> Seq(S \cap T)] :
        Filters(g, t, T, Len(t)) /\ Filter(t, T) = g[Len(t)]
  BY <1>1, FilterValue
<1> HIDE DEF n
<1> DEFINE m == Len(t)
<1>4. m \in Nat /\ n \in Nat /\ n <= m /\ m # 0 /\ m - 1 = n /\ \A k \in 1..n : s[k] = t[k]
  BY <1>1
<1>5. Filters(f, s, T, n) /\ Filters(g, t, T, m)
  BY <1>2, <1>3
<1>6. Filter(t, T) = g[m] /\ t[m] = e
  BY <1>1, <1>3
<1> HIDE DEF m
<1>7. Agree(f, g, n)
  BY <1>4, <1>5, FilterUnique
<1>8. Follows(g, t, T, m)
  BY <1>4, <1>5, FilterLast
<1> QED BY <1>2, <1>4, <1>6, <1>7, <1>8 DEF t, Agree, Follows

-----------------------------------------------------------------------------
(* Prefixes.                                                               *)

\* A sequence is a prefix of itself.
LEMMA PrefixSelf ==
  ASSUME NEW S, NEW s \in Seq(S)
  PROVE  IsPrefix(s, s)
<1>1. Len(s) <= Len(s)
  BY LenProperties
<1> QED BY <1>1 DEF IsPrefix

\* The first elements of a sequence that gets one more are what they were.
LEMMA SubSeqAppend ==
  ASSUME NEW S, NEW t \in Seq(S), NEW e \in S,
         NEW m \in Nat, 1 <= m, NEW n \in 0..Len(t)
  PROVE  SubSeq(Append(t, e), m, n) = SubSeq(t, m, n)
<1> DEFINE u == Append(t, e)
           a == SubSeq(u, m, n)
           b == SubSeq(t, m, n)
<1>1. /\ u \in Seq(S) /\ Len(u) = Len(t) + 1 /\ Len(t) \in Nat
      /\ \A i \in 1..Len(t) : u[i] = t[i]
  BY AppendProperties, LenProperties
<1> HIDE DEF u
<1>2. m \in Int /\ n \in Int /\ \A i \in m..n : i \in 1..Len(t) /\ i \in 1..Len(u)
  BY <1>1
<1>3. \A i \in m..n : u[i] \in S /\ t[i] \in S
  BY <1>1, <1>2, ElementOfSeq
<1>4. /\ a \in Seq(S) /\ Len(a) = IF m <= n THEN n - m + 1 ELSE 0
      /\ \A i \in 1..(n - m + 1) : a[i] = u[m + i - 1]
  BY <1>2, <1>3, SubSeqProperties
<1>5. /\ b \in Seq(S) /\ Len(b) = IF m <= n THEN n - m + 1 ELSE 0
      /\ \A i \in 1..(n - m + 1) : b[i] = t[m + i - 1]
  BY <1>2, <1>3, SubSeqProperties
<1> HIDE DEF a, b
<1>6. Len(a) = Len(b) /\ \A i \in 1..Len(a) : a[i] = b[i]
  <2>1. ASSUME NEW i \in 1..Len(a) PROVE a[i] = b[i]
    <3>1. i \in 1..(n - m + 1) /\ m + i - 1 \in m..n
      BY <1>2, <1>4
    <3> QED BY <1>1, <1>2, <1>4, <1>5, <3>1
  <2> QED BY <1>4, <1>5, <2>1
<1>7. a = b
  BY <1>4, <1>5, <1>6, SeqEqual
<1> QED BY <1>7 DEF a, b, u

\* A prefix stays one when the other sequence gets longer.
LEMMA PrefixLonger ==
  ASSUME NEW R, NEW s \in Seq(R), NEW S, NEW t \in Seq(S), NEW e \in S, IsPrefix(s, t)
  PROVE  IsPrefix(s, Append(t, e))
<1>1. /\ Len(s) <= Len(t) /\ SubSeq(s, 1, Len(s)) = SubSeq(t, 1, Len(s))
      /\ Len(s) \in Nat /\ Len(t) \in Nat /\ Len(Append(t, e)) = Len(t) + 1
  BY AppendProperties, LenProperties DEF IsPrefix
<1>2. SubSeq(Append(t, e), 1, Len(s)) = SubSeq(t, 1, Len(s))
  <2>1. Len(s) \in 0..Len(t) /\ 1 \in Nat /\ 1 <= 1
    BY <1>1
  <2> QED BY <2>1, SubSeqAppend
<1>3. Len(s) <= Len(Append(t, e))
  BY <1>1
<1> QED BY <1>1, <1>2, <1>3 DEF IsPrefix

-----------------------------------------------------------------------------
(* More about Filter.                                                      *)

\* Sets that have the same elements of a sequence leave the same of it.
LEMMA FilterSame ==
  ASSUME NEW S, NEW s \in Seq(S), NEW T, NEW U,
         \A k \in 1..Len(s) : s[k] \in T <=> s[k] \in U
  PROVE  Filter(s, T) = Filter(s, U)
<1> DEFINE n == Len(s)
<1>1. n \in Nat
  BY LenProperties
<1>2. PICK f \in [0..n -> Seq(S \cap T)] : Filters(f, s, T, n) /\ Filter(s, T) = f[n]
  BY FilterValue
<1>3. PICK g \in [0..n -> Seq(S \cap U)] : Filters(g, s, U, n) /\ Filter(s, U) = g[n]
  BY FilterValue
<1>4. \A k \in 1..n : s[k] \in T <=> s[k] \in U
  OBVIOUS
<1> HIDE DEF n
<1> DEFINE Bad == {k \in 0..n : f[k] # g[k]}
<1>0. Bad \in SUBSET Nat
  BY <1>1
<1>5. SUFFICES ASSUME NEW k \in Bad, \A j \in Bad : k <= j
               PROVE  FALSE
  <2>1. n \notin Bad => f[n] = g[n]
    BY <1>1
  <2> HIDE DEF Bad
  <2> QED BY <1>0, <1>2, <1>3, <2>1, LeastNat
<1> k \in 0..n
  OBVIOUS
<1>6. f[k] = IF k = 0 THEN <<>> ELSE IF s[k] \in T THEN Append(f[k - 1], s[k]) ELSE f[k - 1]
  BY <1>2 DEF Filters
<1>7. g[k] = IF k = 0 THEN <<>> ELSE IF s[k] \in U THEN Append(g[k - 1], s[k]) ELSE g[k - 1]
  BY <1>3 DEF Filters
<1>8. k # 0
  BY <1>6, <1>7
<1>9. f[k - 1] = g[k - 1]
  <2>1. k - 1 \in 0..n /\ ~ (k <= k - 1)
    BY <1>1, <1>8
  <2>2. k - 1 \notin Bad
    <3> HIDE DEF Bad
    <3> QED BY <1>5, <2>1
  <2> QED BY <2>1, <2>2
<1>10. s[k] \in T <=> s[k] \in U
  BY <1>1, <1>4, <1>8
<1> QED BY <1>6, <1>7, <1>8, <1>9, <1>10
=============================================================================
