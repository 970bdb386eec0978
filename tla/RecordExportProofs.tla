------------------------- MODULE RecordExportProofs -------------------------
(***************************************************************************)
(* Theorems about RecordExport, for any records of JSON values and any     *)
(* bounds: the way of a value from a record to its series.                 *)
(*                                                                         *)
(* The normalizer, the state and the recorder are folds over sequences.    *)
(* Each of them has a lemma (named ...Steps) that gives the results of its *)
(* first steps as a function, of which a property is proved step by step.  *)
(***************************************************************************)
EXTENDS RecordExport, SequenceTheorems, FiniteSetTheorems, WellFoundedInduction, TLAPS

-----------------------------------------------------------------------------
\* Folds, step by step.

\* Every set of natural numbers that is not empty has a least element.
LEMMA LeastElement ==
    ASSUME NEW S, S \subseteq Nat, S # {}
    PROVE \E m \in S : \A n \in S : m <= n
  <1> DEFINE R == {pair \in Nat \X Nat : pair[1] < pair[2]}
  <1>1. IsWellFoundedOn(R, Nat)
    BY NatLessThanWellFounded, Zenon DEF OpToRel
  <1>2. \E m \in S : \A n \in S : ~ (<<n, m>> \in R)
    <2> HIDE DEF R
    <2> QED
      BY <1>1, WFMin, Zenon
  <1> QED
    <2>1. PICK m \in S : \A n \in S : ~ (<<n, m>> \in R)
      BY <1>2
    <2>2. ASSUME NEW n \in S PROVE m <= n
      <3>1. ~ (n < m)
        BY <2>1
      <3> QED
        BY <3>1
    <2> QED
      BY <2>2

\* A set that has 0, and n + 1 with every n, has every natural number.
LEMMA SetInduction ==
    ASSUME NEW S, 0 \in S, \A n \in Nat : n \in S => n + 1 \in S
    PROVE Nat \subseteq S
  <1> SUFFICES ASSUME Nat \ S # {} PROVE FALSE
    OBVIOUS
  <1>1. PICK m \in Nat \ S : \A n \in Nat \ S : m <= n
    BY LeastElement
  <1>2. m # 0 /\ m - 1 \in Nat \ S
    OBVIOUS
  <1> QED
    BY <1>1, <1>2

\* The last position of a set of positions.
LEMMA MaxOfPositions ==
    ASSUME NEW n \in Nat, NEW s \in SUBSET (1..n), s # {}
    PROVE Max(s) \in s /\ \A k \in s : k <= Max(s)
  <1> DEFINE S == {m \in Nat : \A t \in SUBSET (1..m) : t # {} =>
                        \E x \in t : \A y \in t : x >= y}
  <1>1. 0 \in S
    <2>1. \A t \in SUBSET (1..0) : t = {}
      OBVIOUS
    <2> QED
      BY <2>1
  <1>2. ASSUME NEW m \in Nat, m \in S PROVE m + 1 \in S
    <2> SUFFICES ASSUME NEW t \in SUBSET (1..(m + 1)), t # {}
                 PROVE \E x \in t : \A y \in t : x >= y
      OBVIOUS
    <2>1. CASE m + 1 \in t
      BY <2>1
    <2>2. CASE m + 1 \notin t
      <3>1. t \in SUBSET (1..m)
        BY <2>2
      <3> QED
        BY <1>2, <3>1
    <2> QED
      BY <2>1, <2>2
  <1>3. n \in S
    <2> HIDE DEF S
    <2> QED
      BY <1>1, <1>2, SetInduction
  <1>4. \E x \in s : \A y \in s : x >= y
    BY <1>3
  <1> DEFINE Last1(x) == x \in s /\ \A y \in s : x >= y
  <1>5. Max(s) = CHOOSE x : Last1(x)
    BY Zenon DEF Max
  <1>6. Last1(Max(s))
    <2> HIDE DEF Last1
    <2>1. \E x : Last1(x)
      BY <1>4 DEF Last1
    <2> QED
      BY <1>5, <2>1, Zenon
  <1> QED
    BY <1>6

\* The step of each position stays in V.
StaysIn(V, n, F) == \A i \in 1..n, x \in V : F[<<i, x>>] \in V

\* f goes through the sets of the first m positions, taking off the last one.
Iterates(f, m, V, base, F) ==
    /\ f \in [SUBSET (1..m) -> V]
    /\ f[{}] = base
    /\ \A s \in SUBSET (1..m) : s # {} => f[s] = F[<<Max(s), f[s \ {Max(s)}]>>]

\* Such a recursion has a value, if each step stays in V.
LEMMA FoldIterates ==
    ASSUME NEW n \in Nat, NEW V, NEW base \in V,
           NEW F, StaysIn(V, n, F)
    PROVE \E f : Iterates(f, n, V, base, F)
  <1> DEFINE S == {m \in Nat : m <= n => \E f : Iterates(f, m, V, base, F)}
  <1>1. 0 \in S
    <2> DEFINE f == [s \in SUBSET (1..0) |-> base]
    <2>1. \A t \in SUBSET (1..0) : t = {}
      OBVIOUS
    <2>2. Iterates(f, 0, V, base, F)
      BY <2>1 DEF Iterates
    <2> QED
      BY <2>2
  <1>2. ASSUME NEW m \in Nat, m \in S PROVE m + 1 \in S
    <2> SUFFICES ASSUME m + 1 <= n PROVE \E f : Iterates(f, m + 1, V, base, F)
      OBVIOUS
    <2>1. PICK f : Iterates(f, m, V, base, F)
      BY <1>2
    <2> DEFINE p == m + 1
               g == [s \in SUBSET (1..p) |-> IF p \in s THEN F[<<p, f[s \ {p}]>>]
                                             ELSE f[s]]
    <2>2. ASSUME NEW s \in SUBSET (1..p)
          PROVE /\ p \in s => s \ {p} \in SUBSET (1..m)
                /\ p \notin s => s \in SUBSET (1..m)
      OBVIOUS
    <2>3. p \in 1..n
      OBVIOUS
    <2>4. g \in [SUBSET (1..p) -> V]
      <3> SUFFICES ASSUME NEW s \in SUBSET (1..p) PROVE g[s] \in V
        BY Zenon
      <3> HIDE DEF p
      <3>1. CASE p \in s
        BY <2>1, <2>2, <2>3, <3>1 DEF Iterates, StaysIn
      <3>2. CASE p \notin s
        BY <2>1, <2>2, <3>2 DEF Iterates
      <3> QED
        BY <3>1, <3>2
    <2>5. g[{}] = base
      BY <2>1 DEF Iterates
    <2>6. ASSUME NEW s \in SUBSET (1..p), s # {}
          PROVE g[s] = F[<<Max(s), g[s \ {Max(s)}]>>]
      <3>1. Max(s) \in s /\ \A k \in s : k <= Max(s)
        <4>1. p \in Nat /\ s \in SUBSET (1..p)
          OBVIOUS
        <4> HIDE DEF p
        <4> QED
          BY <2>6, <4>1, MaxOfPositions
      <3>2. CASE p \in s
        <4>1. Max(s) = p
          <5>1. \A k \in s : k \in Int /\ k <= p
            OBVIOUS
          <5> HIDE DEF p
          <5>2. Max(s) <= p /\ p <= Max(s) /\ Max(s) \in Int
            BY <3>1, <3>2, <5>1
          <5> QED
            BY <5>2, <5>1, <3>2
        <4>2. g[s \ {p}] = f[s \ {p}]
          BY <2>2, <3>2
        <4> QED
          BY <3>2, <4>1, <4>2
      <3>3. CASE p \notin s
        <4>1. s \in SUBSET (1..m) /\ s \ {Max(s)} \in SUBSET (1..p)
          BY <2>2, <3>3
        <4>2. g[s] = f[s] /\ g[s \ {Max(s)}] = f[s \ {Max(s)}]
          BY <3>3, <4>1
        <4> QED
          BY <2>1, <2>6, <4>1, <4>2 DEF Iterates
      <3> QED
        BY <3>2, <3>3
    <2>7. Iterates(g, m + 1, V, base, F)
      BY <2>4, <2>5, <2>6 DEF Iterates
    <2> QED
      BY <2>7
  <1>3. n \in S
    <2> HIDE DEF S
    <2> QED
      BY <1>1, <1>2, SetInduction
  <1> QED
    BY <1>3

\* The first k positions, without the last of them.
LEMMA PositionsBefore ==
    ASSUME NEW n \in Nat, NEW k \in 1..n
    PROVE /\ 1..k \in SUBSET (1..n) /\ 1..k # {} /\ Max(1..k) = k
          /\ (1..k) \ {k} = 1..(k - 1) /\ 1..(k - 1) \in SUBSET (1..n)
  <1>1. 1..k \in SUBSET (1..n) /\ k \in 1..k /\ 1..k \in SUBSET (1..k) /\ k \in Nat
    OBVIOUS
  <1>2. Max(1..k) \in 1..k /\ \A j \in 1..k : j <= Max(1..k)
    BY <1>1, MaxOfPositions
  <1>3. Max(1..k) = k
    BY <1>1, <1>2
  <1>4. (1..k) \ {k} = 1..(k - 1) /\ 1..(k - 1) \in SUBSET (1..n)
    OBVIOUS
  <1> QED
    BY <1>1, <1>3, <1>4

\* h goes through the first n positions one by one.
StepsThrough(h, n, V, base, F) ==
    /\ h \in [0..n -> V]
    /\ h[0] = base
    /\ \A k \in 1..n : h[k] = F[<<k, h[k - 1]>>]

\* f takes the step of the last position, for the first ones up to any.
Accumulates(f, n, V, base, F) ==
    /\ f[{}] = base
    /\ \A k \in 1..n : f[1..(k - 1)] \in V => f[1..k] = F[<<k, f[1..(k - 1)]>>]

\* Such a recursion goes through the positions one by one.
LEMMA FoldSteps ==
    ASSUME NEW n \in Nat, NEW V, NEW base \in V,
           NEW F, StaysIn(V, n, F),
           NEW f, Accumulates(f, n, V, base, F)
    PROVE \E h : StepsThrough(h, n, V, base, F) /\ f[1..n] = h[n]
  <1> DEFINE S == {k \in Nat : k <= n => f[1..k] \in V}
             h == [k \in 0..n |-> f[1..k]]
  <1>0. 1..0 = {}
    OBVIOUS
  <1>1. 0 \in S
    BY <1>0 DEF Accumulates
  <1>2. ASSUME NEW k \in Nat, k \in S PROVE k + 1 \in S
    <2> SUFFICES ASSUME k + 1 <= n PROVE f[1..(k + 1)] \in V
      OBVIOUS
    <2>1. k + 1 \in 1..n /\ (k + 1) - 1 = k /\ f[1..k] \in V
      BY <1>2
    <2> DEFINE j == k + 1
    <2>2. j \in 1..n /\ f[1..(j - 1)] \in V
      BY <2>1
    <2> HIDE DEF j
    <2>3. f[1..j] = F[<<j, f[1..(j - 1)]>>]
      BY <2>2 DEF Accumulates
    <2>4. f[1..j] \in V
      BY <2>2, <2>3 DEF StaysIn
    <2> QED
      BY <2>4 DEF j
  <1>3. Nat \subseteq S
    <2> HIDE DEF S
    <2> QED
      BY <1>1, <1>2, SetInduction
  <1>4. \A k \in 0..n : h[k] \in V
    BY <1>3
  <1>5. ASSUME NEW k \in 1..n PROVE h[k] = F[<<k, h[k - 1]>>]
    <2>1. k \in 0..n /\ k - 1 \in 0..n
      OBVIOUS
    <2>2. h[k] = f[1..k] /\ h[k - 1] = f[1..(k - 1)]
      BY <2>1
    <2>3. h[k - 1] \in V
      BY <1>4, <2>1
    <2> HIDE DEF h
    <2> QED
      BY <2>2, <2>3 DEF Accumulates
  <1>6. h[0] = base /\ h[n] = f[1..n] /\ h \in [0..n -> V]
    BY <1>0, <1>4 DEF Accumulates
  <1>7. StepsThrough(h, n, V, base, F)
    <2> HIDE DEF h
    <2> QED
      BY <1>5, <1>6 DEF StepsThrough
  <1> QED
    BY <1>6, <1>7

-----------------------------------------------------------------------------
\* What the normalizer makes of a record.

CounterUpdate == [series : CounterSeries, value : 0..MaxExact]
GaugeUpdate == [series : GaugeSeries, value : Int \X Int]
Normalized == [counters : Seq(CounterUpdate), gauges : Seq(GaugeUpdate),
               ignored : Nat, invalid : Nat]

\* The empty result is one (NormalizedRecord{}).
LEMMA NothingIsNormalized == Nothing \in Normalized
  BY DEF Nothing, Normalized

\* Putting two results together keeps their types.
LEMMA BothIsNormalized ==
    ASSUME NEW a \in Normalized, NEW b \in Normalized
    PROVE Both(a, b) \in Normalized
  <1>1. /\ a.counters \o b.counters \in Seq(CounterUpdate)
        /\ a.gauges \o b.gauges \in Seq(GaugeUpdate)
        /\ a.ignored + b.ignored \in Nat /\ a.invalid + b.invalid \in Nat
    <2>1. /\ a.counters \in Seq(CounterUpdate) /\ b.counters \in Seq(CounterUpdate)
          /\ a.gauges \in Seq(GaugeUpdate) /\ b.gauges \in Seq(GaugeUpdate)
          /\ a.ignored \in Nat /\ b.ignored \in Nat /\ a.invalid \in Nat /\ b.invalid \in Nat
      BY DEF Normalized
    <2> QED
      BY <2>1, ConcatProperties
  <1> QED
    BY <1>1, Zenon DEF Both, Normalized

\* All adds up its parts one by one.
LEMMA AllSteps ==
    ASSUME NEW parts \in Seq(Normalized)
    PROVE \E h \in [0..Len(parts) -> Normalized] :
              /\ h[0] = Nothing
              /\ \A k \in 1..Len(parts) : h[k] = Both(h[k - 1], parts[k])
              /\ All(parts) = h[Len(parts)]
  <1> DEFINE n == Len(parts)
             F == [step \in (1..n) \X Normalized |-> Both(step[2], parts[step[1]])]
             Body(f, s) == IF s = {} THEN Nothing ELSE Both(f[s \ {Max(s)}], parts[Max(s)])
             it == CHOOSE f : f = [s \in SUBSET (1..n) |-> Body(f, s)]
  <1>1. n \in Nat /\ DOMAIN parts = 1..n /\ \A i \in 1..n : parts[i] \in Normalized
    OBVIOUS
  <1>2. All(parts) = it[1..n]
    <2>1. All(parts) = (CHOOSE f : f = [s \in SUBSET (DOMAIN parts) |-> Body(f, s)])[DOMAIN parts]
      BY Zenon DEF All, FoldLeft, MapThenFoldSet
    <2> QED
      BY <1>1, <2>1, Zenon
  <1>3. \A i \in 1..n, x \in Normalized :
            /\ F[<<i, x>>] = Both(x, parts[i])
            /\ F[<<i, x>>] \in Normalized
    BY <1>1, BothIsNormalized
  <1> HIDE DEF n
  <1>31. StaysIn(Normalized, n, F)
    <2> HIDE DEF F
    <2> QED
      BY <1>3 DEF StaysIn
  <1>4. PICK f : Iterates(f, n, Normalized, Nothing, F)
    <2> HIDE DEF F
    <2> QED
      BY <1>1, <1>31, NothingIsNormalized, FoldIterates
  <1>5. ASSUME NEW s \in SUBSET (1..n) PROVE f[s] = Body(f, s)
    <2>1. CASE s # {}
      <3>1. Max(s) \in 1..n /\ s \ {Max(s)} \in SUBSET (1..n)
        BY <1>1, <2>1, MaxOfPositions
      <3>2. f[s \ {Max(s)}] \in Normalized
        BY <1>4, <3>1 DEF Iterates
      <3>3. f[s] = F[<<Max(s), f[s \ {Max(s)}]>>]
        BY <1>4, <2>1 DEF Iterates
      <3> HIDE DEF F
      <3> QED
        BY <1>3, <2>1, <3>1, <3>2, <3>3
    <2>2. CASE s = {}
      BY <1>4, <2>2 DEF Iterates
    <2> QED
      BY <2>1, <2>2
  <1>6. f = [s \in SUBSET (1..n) |-> Body(f, s)]
    <2>1. f \in [SUBSET (1..n) -> Normalized]
      BY <1>4 DEF Iterates
    <2> QED
      BY <1>5, <2>1
  <1>7. it = [s \in SUBSET (1..n) |-> Body(it, s)]
    BY <1>6, Zenon
  <1>8. it[{}] = Nothing
    BY <1>7
  <1>9. ASSUME NEW k \in 1..n, it[1..(k - 1)] \in Normalized
        PROVE it[1..k] = F[<<k, it[1..(k - 1)]>>]
    <2>1. /\ 1..k \in SUBSET (1..n) /\ 1..k # {} /\ Max(1..k) = k
          /\ (1..k) \ {k} = 1..(k - 1)
      BY <1>1, PositionsBefore
    <2>2. it[1..k] = Both(it[1..(k - 1)], parts[k])
      BY <1>7, <2>1, Zenon
    <2> QED
      BY <1>3, <1>9, <2>2, Zenon
  <1>10. PICK h : StepsThrough(h, n, Normalized, Nothing, F) /\ it[1..n] = h[n]
    <2> HIDE DEF F, it
    <2>1. Accumulates(it, n, Normalized, Nothing, F)
      BY <1>8, <1>9 DEF Accumulates
    <2>2. n \in Nat /\ Nothing \in Normalized
      BY <1>1, NothingIsNormalized
    <2> QED
      BY <2>1, <2>2, <1>31, FoldSteps
  <1>11. ASSUME NEW k \in 1..n PROVE h[k] = Both(h[k - 1], parts[k])
    <2>1. k - 1 \in 0..n
      BY <1>1
    <2>2. h[k - 1] \in Normalized
      BY <1>10, <2>1 DEF StepsThrough
    <2>3. h[k] = F[<<k, h[k - 1]>>]
      BY <1>10 DEF StepsThrough
    <2> HIDE DEF F
    <2> QED
      BY <1>1, <1>3, <2>2, <2>3
  <1> HIDE DEF it
  <1> QED
    BY <1>2, <1>10, <1>11 DEF n, StepsThrough

Part(c, g, m, n) == [counters |-> c, gauges |-> g, ignored |-> m, invalid |-> n]

\* Results are made of counters, gauges and two counts.
LEMMA PartIsNormalized ==
    ASSUME NEW c \in Seq(CounterUpdate), NEW g \in Seq(GaugeUpdate), NEW m \in Nat, NEW n \in Nat
    PROVE Part(c, g, m, n) \in Normalized
  BY DEF Normalized, Part

\* What a result counts, by its parts.
LEMMA PartCounts ==
    ASSUME NEW c, NEW g, NEW m, NEW n
    PROVE Counted(Part(c, g, m, n)) = Len(c) + Len(g) + m + n
  <1> DEFINE v == Part(c, g, m, n)
  <1>1. v.counters = c /\ v.gauges = g /\ v.ignored = m /\ v.invalid = n
    BY DEF Part
  <1> HIDE DEF v
  <1>2. Counted(v) = Len(c) + Len(g) + m + n
    BY <1>1 DEF Counted
  <1> QED
    BY <1>2 DEF v

\* Every normalized record has such parts.
LEMMA NormalizedParts ==
    ASSUME NEW a \in Normalized
    PROVE \E c \in Seq(CounterUpdate), g \in Seq(GaugeUpdate), m \in Nat, n \in Nat :
              a = Part(c, g, m, n)
  BY DEF Normalized, Part

\* Two results put together count what they do, so that no update is lost when
\* results are appended.
LEMMA BothCounts ==
    ASSUME NEW a \in Normalized, NEW b \in Normalized
    PROVE Counted(a) \in Nat /\ Counted(Both(a, b)) = Counted(a) + Counted(b)
  <1>1. PICK c1 \in Seq(CounterUpdate), g1 \in Seq(GaugeUpdate), m1 \in Nat, n1 \in Nat :
            a = Part(c1, g1, m1, n1)
    BY NormalizedParts
  <1>2. PICK c2 \in Seq(CounterUpdate), g2 \in Seq(GaugeUpdate), m2 \in Nat, n2 \in Nat :
            b = Part(c2, g2, m2, n2)
    BY NormalizedParts
  <1> DEFINE c == c1 \o c2
             g == g1 \o g2
  <1>3. Both(a, b) = Part(c, g, m1 + m2, n1 + n2)
    BY <1>1, <1>2 DEF Both, Part
  <1>4. /\ c \in Seq(CounterUpdate) /\ Len(c) = Len(c1) + Len(c2)
        /\ g \in Seq(GaugeUpdate) /\ Len(g) = Len(g1) + Len(g2)
    BY ConcatProperties
  <1> HIDE DEF c, g
  <1>5. /\ Counted(a) = Len(c1) + Len(g1) + m1 + n1
        /\ Counted(b) = Len(c2) + Len(g2) + m2 + n2
        /\ Counted(Both(a, b)) = Len(c) + Len(g) + (m1 + m2) + (n1 + n2)
    BY <1>1, <1>2, <1>3, PartCounts
  <1>6. /\ Len(c1) \in Nat /\ Len(c2) \in Nat /\ Len(g1) \in Nat /\ Len(g2) \in Nat
    OBVIOUS
  <1> QED
    BY <1>4, <1>5, <1>6

\* All keeps the types of its parts and counts what they do.
LEMMA AllCounts ==
    ASSUME NEW parts \in Seq(Normalized)
    PROVE /\ All(parts) \in Normalized
          /\ \E c \in [0..Len(parts) -> Nat] :
                /\ c[0] = 0
                /\ \A k \in 1..Len(parts) : c[k] = c[k - 1] + Counted(parts[k])
                /\ Counted(All(parts)) = c[Len(parts)]
  <1> DEFINE n == Len(parts)
  <1>1. n \in Nat /\ \A k \in 1..n : parts[k] \in Normalized
    OBVIOUS
  <1>2. PICK h \in [0..n -> Normalized] :
              /\ h[0] = Nothing
              /\ \A k \in 1..n : h[k] = Both(h[k - 1], parts[k])
              /\ All(parts) = h[n]
    BY AllSteps
  <1> HIDE DEF n
  <1> DEFINE c == [k \in 0..n |-> Counted(h[k])]
  <1>3. \A k \in 0..n : h[k] \in Normalized /\ c[k] = Counted(h[k])
    OBVIOUS
  <1>4. n \in 0..n /\ 0 \in 0..n
    BY <1>1
  <1>5. c \in [0..n -> Nat]
    BY <1>3, BothCounts
  <1>6. c[0] = 0
    BY <1>2, <1>3, <1>4 DEF Nothing, Counted
  <1>7. ASSUME NEW k \in 1..n
        PROVE c[k] = c[k - 1] + Counted(parts[k])
    <2>1. k \in 0..n /\ k - 1 \in 0..n
      BY <1>1
    <2>2. c[k] = Counted(h[k]) /\ c[k - 1] = Counted(h[k - 1])
      BY <2>1
    <2>3. Counted(h[k]) = Counted(h[k - 1]) + Counted(parts[k])
      BY <1>1, <1>2, <1>3, <2>1, BothCounts
    <2> HIDE DEF c
    <2> QED
      BY <2>2, <2>3
  <1>8. c[n] = Counted(All(parts)) /\ All(parts) \in Normalized
    BY <1>2, <1>3, <1>4
  <1> HIDE DEF c
  <1> QED
    BY <1>5, <1>6, <1>7, <1>8 DEF n

\* An ignored result counts its fields.
LEMMA IgnoredCounts ==
    ASSUME NEW n \in Nat
    PROVE Ignored(n) \in Normalized /\ Counted(Ignored(n)) = n
  <1>1. Ignored(n) = Part(<<>>, <<>>, n, 0)
    BY DEF Ignored, Nothing, Part
  <1>2. <<>> \in Seq(CounterUpdate) /\ <<>> \in Seq(GaugeUpdate) /\ Len(<<>>) = 0
    OBVIOUS
  <1>3. Counted(Ignored(n)) = Len(<<>>) + Len(<<>>) + n + 0
    BY <1>1, PartCounts
  <1>4. Ignored(n) \in Normalized
    BY <1>1, <1>2, PartIsNormalized, Zenon
  <1> QED
    BY <1>2, <1>3, <1>4

\* An invalid field is counted once.
LEMMA InvalidCounts == Invalid \in Normalized /\ Counted(Invalid) = 1
  <1>1. Invalid = Part(<<>>, <<>>, 0, 1)
    BY DEF Invalid, Nothing, Part
  <1>2. <<>> \in Seq(CounterUpdate) /\ <<>> \in Seq(GaugeUpdate) /\ Len(<<>>) = 0
    OBVIOUS
  <1>3. Counted(Invalid) = Len(<<>>) + Len(<<>>) + 0 + 1
    BY <1>1, PartCounts
  <1>4. Invalid \in Normalized
    BY <1>1, <1>2, PartIsNormalized
  <1> QED
    BY <1>2, <1>3, <1>4

\* The empty result counts nothing.
LEMMA NothingCounts == Nothing \in Normalized /\ Counted(Nothing) = 0
  BY DEF Nothing, Normalized, Counted

\* A gauge update counts once.
LEMMA GaugeCounts ==
    ASSUME NEW series \in GaugeSeries, NEW halves \in Int, NEW power \in Int
    PROVE Gauge(series, halves, power) \in Normalized
          /\ Counted(Gauge(series, halves, power)) = 1
  <1> DEFINE update == [series |-> series, value |-> <<halves, power>>]
             updates == <<update>>
  <1>1. update \in GaugeUpdate
    BY DEF GaugeUpdate
  <1>2. Gauge(series, halves, power) = Part(<<>>, updates, 0, 0)
    BY DEF Gauge, Nothing, Part
  <1> HIDE DEF update
  <1>3. <<>> \in Seq(CounterUpdate) /\ updates \in Seq(GaugeUpdate)
        /\ Len(<<>>) = 0 /\ Len(updates) = 1
    BY <1>1
  <1> HIDE DEF updates
  <1>4. Counted(Gauge(series, halves, power)) = Len(<<>>) + Len(updates) + 0 + 0
    BY <1>2, PartCounts
  <1>5. Gauge(series, halves, power) \in Normalized
    BY <1>2, <1>3, PartIsNormalized
  <1> QED
    BY <1>3, <1>4, <1>5

\* So does a counter update.
LEMMA CounterCounts ==
    ASSUME NEW update \in CounterUpdate
    PROVE LET v == [Nothing EXCEPT !.counters = <<update>>]
          IN  v \in Normalized /\ Counted(v) = 1
  <1> DEFINE updates == <<update>>
             v == [Nothing EXCEPT !.counters = updates]
  <1>1. v = Part(updates, <<>>, 0, 0)
    BY DEF Nothing, Part
  <1>2. updates \in Seq(CounterUpdate) /\ <<>> \in Seq(GaugeUpdate)
        /\ Len(<<>>) = 0 /\ Len(updates) = 1
    OBVIOUS
  <1> HIDE DEF v, updates
  <1>3. Counted(v) = Len(updates) + Len(<<>>) + 0 + 0
    BY <1>1, PartCounts
  <1>4. v \in Normalized
    BY <1>1, <1>2, PartIsNormalized
  <1>5. v \in Normalized /\ Counted(v) = 1
    BY <1>2, <1>3, <1>4
  <1> QED
    BY <1>5 DEF v, updates

\* A number that is a source integer is parsed exactly.
LEMMA SourceIntegersAreExact ==
    ASSUME NEW raw, IsFieldValue(raw), IsSourceInteger(raw)
    PROVE /\ parseSourceInteger(raw) \in 0..MaxExact
          /\ 2 * parseSourceInteger(raw) = raw.halves
  <1>1. raw.halves \in Int /\ raw.halves % 2 = 0 /\ raw.halves >= 0
        /\ raw.halves <= 2 * MaxExact
    BY DEF IsFieldValue, IsValue, IsSourceInteger, Decodes
  <1>2. raw.halves \div 2 \in 0..MaxExact /\ 2 * (raw.halves \div 2) = raw.halves
    BY <1>1, MaxExactAssumption
  <1>3. (raw.halves \div 2) % (2 * Int64Limit) = raw.halves \div 2
    <2> DEFINE n == raw.halves \div 2
               m == 2 * Int64Limit
    <2>1. n \in Nat /\ m \in Nat /\ n < m
      BY <1>2, MaxExactAssumption
    <2> HIDE DEF n, m
    <2>2. n % m = n
      BY <2>1
    <2> QED
      BY <2>2 DEF n, m
  <1> QED
    BY <1>2, <1>3 DEF parseSourceInteger, Uint64

-----------------------------------------------------------------------------
\* The fields of statistics.

\* the fields of a statistics object
IsFields(values) ==
    /\ IsFiniteSet(DOMAIN values)
    /\ \A name \in DOMAIN values : IsFieldValue(values[name])

\* The series the tables of the normalizer hold are those of the metrics.
LEMMA SeriesOfTables ==
    /\ \A n \in {"Bytes Downloaded", "Bytes Uploaded"} :
            AzStorageCounters[n] \in CounterSeries
    /\ \A n \in {"Files Downloaded", "Files served from cache"} :
            FileCacheCounters[n] \in CounterSeries
    /\ \A i \in 1..Len(operationFields) : LibfuseCounters[operationFields[i]] \in CounterSeries
    /\ \A n \in {"Cache Usage", "Usage Percent"} : FileCacheGauges[n] \in GaugeSeries
    /\ OpenFiles("azstorage") \in GaugeSeries /\ OpenFiles("libfuse") \in GaugeSeries
    /\ MemoryVirtual \in GaugeSeries
  <1>1. DOMAIN AzStorageCounters = {"Bytes Downloaded", "Bytes Uploaded"}
    BY DEF AzStorageCounters
  <1>2. DOMAIN FileCacheCounters = {"Files Downloaded", "Files served from cache"}
    BY DEF FileCacheCounters
  <1>3. DOMAIN FileCacheGauges = {"Cache Usage", "Usage Percent"}
    BY DEF FileCacheGauges
  <1>4. \A i \in 1..Len(operationFields) : operationFields[i] \in Operation
    BY DEF Operation, operationFields
  <1> QED
    BY <1>1, <1>2, <1>3, <1>4 DEF CounterSeries, GaugeSeries, Component

\* addCounter counts a field that is there, taken or invalid.
LEMMA addCounterCounts ==
    ASSUME NEW values, IsFields(values), NEW name, NEW series \in CounterSeries
    PROVE /\ addCounter(values, name, series) \in Normalized
          /\ name \in DOMAIN values => Counted(addCounter(values, name, series)) = 1
  <1> DEFINE raw == values[name]
             update == [series |-> series, value |-> parseSourceInteger(raw)]
             v == [Nothing EXCEPT !.counters = <<update>>]
  <1>1. CASE name \notin DOMAIN values
    <2>1. addCounter(values, name, series) = Nothing
      BY <1>1 DEF addCounter, Field
    <2> QED
      BY <1>1, <2>1, NothingCounts
  <1>2. CASE name \in DOMAIN values /\ IsSourceInteger(raw)
    <2>1. addCounter(values, name, series) = v
      BY <1>2 DEF addCounter, Field
    <2>2. parseSourceInteger(raw) \in 0..MaxExact
      BY <1>2, SourceIntegersAreExact DEF IsFields
    <2>3. update \in CounterUpdate
      BY <2>2 DEF CounterUpdate
    <2>4. v \in Normalized /\ Counted(v) = 1
      <3> HIDE DEF update
      <3> QED
        BY <2>3, CounterCounts
    <2> HIDE DEF v
    <2> QED
      BY <1>2, <2>1, <2>4
  <1>3. CASE name \in DOMAIN values /\ ~IsSourceInteger(raw)
    <2>1. addCounter(values, name, series) = Invalid
      BY <1>3 DEF addCounter, Field
    <2> QED
      BY <1>3, <2>1, InvalidCounts
  <1> QED
    BY <1>1, <1>2, <1>3

\* So does addIntegerGauge.
LEMMA addIntegerGaugeCounts ==
    ASSUME NEW values, IsFields(values), NEW name, NEW series \in GaugeSeries
    PROVE /\ addIntegerGauge(values, name, series) \in Normalized
          /\ name \in DOMAIN values => Counted(addIntegerGauge(values, name, series)) = 1
  <1> DEFINE raw == values[name]
  <1>1. CASE name \notin DOMAIN values
    <2>1. addIntegerGauge(values, name, series) = Nothing
      BY <1>1 DEF addIntegerGauge, Field
    <2> QED
      BY <1>1, <2>1, NothingCounts
  <1>2. CASE name \in DOMAIN values /\ IsSourceInteger(raw)
    <2>1. addIntegerGauge(values, name, series) = Gauge(series, 2 * parseSourceInteger(raw), 0)
      BY <1>2 DEF addIntegerGauge, Field
    <2>2. 2 * parseSourceInteger(raw) \in Int
      BY <1>2, SourceIntegersAreExact DEF IsFields
    <2> QED
      BY <1>2, <2>1, <2>2, GaugeCounts
  <1>3. CASE name \in DOMAIN values /\ ~IsSourceInteger(raw)
    <2>1. addIntegerGauge(values, name, series) = Invalid
      BY <1>3 DEF addIntegerGauge, Field
    <2> QED
      BY <1>3, <2>1, InvalidCounts
  <1> QED
    BY <1>1, <1>2, <1>3

\* A formatted value is taken or invalid (parseFormatted).
LEMMA FormattedCounts ==
    ASSUME NEW raw, IsFieldValue(raw), NEW series \in GaugeSeries,
           NEW units, \A u \in DOMAIN units : units[u] \in Int
    PROVE /\ Formatted(raw, units, series) \in Normalized
          /\ Counted(Formatted(raw, units, series)) = 1
  <1> DEFINE isMeasure == /\ Decodes(raw, "string")
                          /\ raw.unit \in DOMAIN units
                          /\ parseScaledNonNegative(raw, units[raw.unit])
  <1>1. CASE isMeasure
    <2>1. Formatted(raw, units, series) = Gauge(series, raw.amount, units[raw.unit])
      BY <1>1 DEF Formatted
    <2>2. raw.amount \in Int /\ units[raw.unit] \in Int
      BY <1>1 DEF IsFieldValue, IsValue, Decodes
    <2> QED
      BY <2>1, <2>2, GaugeCounts
  <1>2. CASE ~isMeasure
    <2>1. Formatted(raw, units, series) = Invalid
      BY <1>2 DEF Formatted
    <2> QED
      BY <2>1, InvalidCounts
  <1> QED
    BY <1>1, <1>2

\* The units of formatted values scale them by whole powers.
LEMMA UnitPowers ==
    /\ \A u \in DOMAIN CacheUsageUnit : CacheUsageUnit[u] \in Int
    /\ \A u \in DOMAIN PercentageUnit : PercentageUnit[u] \in Int
    /\ \A u \in DOMAIN MemoryUnit : MemoryUnit[u] \in Int
  BY DEF CacheUsageUnit, PercentageUnit, MemoryUnit, Percent

\* So does addFormattedGauge.
LEMMA addFormattedGaugeCounts ==
    ASSUME NEW values, IsFields(values), NEW name, NEW series \in GaugeSeries,
           NEW units, \A u \in DOMAIN units : units[u] \in Int
    PROVE /\ addFormattedGauge(values, name, series, units) \in Normalized
          /\ name \in DOMAIN values => Counted(addFormattedGauge(values, name, series, units)) = 1
  <1>1. CASE name \notin DOMAIN values
    <2>1. addFormattedGauge(values, name, series, units) = Nothing
      BY <1>1 DEF addFormattedGauge, Field
    <2> QED
      BY <1>1, <2>1, NothingCounts
  <1>2. CASE name \in DOMAIN values
    <2>1. addFormattedGauge(values, name, series, units) = Formatted(values[name], units, series)
      BY <1>2 DEF addFormattedGauge, Field
    <2>2. IsFieldValue(values[name])
      BY <1>2 DEF IsFields
    <2> QED
      BY <1>2, <2>1, <2>2, FormattedCounts
  <1> QED
    BY <1>1, <1>2

\* A finite set and one more element of another.
LEMMA OneMore ==
    ASSUME NEW E, IsFiniteSet(E), NEW D, NEW x
    PROVE /\ IsFiniteSet(E \cup ({x} \cap D))
          /\ Cardinality(E) \in Nat /\ Cardinality(E \cup ({x} \cap D)) \in Nat
          /\ Cardinality(E \cup ({x} \cap D)) <= Cardinality(E) + 1
          /\ x \notin D => E \cup ({x} \cap D) = E
  <1>0. Cardinality(E) \in Nat
    BY FS_CardinalityType
  <1>1. CASE x \in D /\ x \notin E
    <2>1. E \cup ({x} \cap D) = E \cup {x}
      BY <1>1
    <2>2. IsFiniteSet(E \cup {x}) /\ Cardinality(E \cup {x}) = Cardinality(E) + 1
      BY <1>1, FS_AddElement
    <2> QED
      BY <1>0, <1>1, <2>1, <2>2
  <1>2. CASE ~(x \in D /\ x \notin E)
    <2> DEFINE more == E \cup ({x} \cap D)
    <2>1. more = E
      BY <1>2
    <2> HIDE DEF more
    <2>2. IsFiniteSet(more) /\ Cardinality(more) = Cardinality(E)
      BY <2>1
    <2>3. Cardinality(more) <= Cardinality(E) + 1
      BY <1>0, <2>2
    <2> QED
      BY <1>0, <2>1, <2>2, <2>3 DEF more
  <1> QED
    BY <1>1, <1>2

\* Parts that count the unknown fields, and then each known one that is there, count
\* every field.
LEMMA AllCountFields ==
    ASSUME NEW D, IsFiniteSet(D), NEW known,
           NEW n \in Nat, NEW names, known \subseteq {names[i] : i \in 1..n},
           NEW parts \in Seq(Normalized), Len(parts) = n + 1,
           Counted(parts[1]) = Cardinality(D \ known),
           \A i \in 1..n : names[i] \in D => Counted(parts[i + 1]) = 1
    PROVE All(parts) \in Normalized /\ Counted(All(parts)) >= Cardinality(D)
  <1>1. PICK c \in [0..Len(parts) -> Nat] :
            /\ c[0] = 0
            /\ \A k \in 1..Len(parts) : c[k] = c[k - 1] + Counted(parts[k])
            /\ Counted(All(parts)) = c[Len(parts)]
    BY AllCounts
  <1>2. n \in Nat /\ Len(parts) = n + 1 /\ \A k \in 1..(n + 1) : Counted(parts[k]) \in Nat
    <2>1. \A k \in 1..Len(parts) : parts[k] \in Normalized
      OBVIOUS
    <2> QED
      BY <2>1, BothCounts, NothingIsNormalized
  <1> DEFINE E(k) == (D \ known) \cup (D \cap {names[j] : j \in 1..k})
             S == {k \in Nat : k <= n => /\ IsFiniteSet(E(k))
                                        /\ Cardinality(E(k)) <= c[k + 1]}
  <1>3. \A k \in 0..n : c[k] \in Nat /\ c[k + 1] = c[k] + Counted(parts[k + 1])
                        /\ c[k + 1] \in Nat
    <2> SUFFICES ASSUME NEW k \in 0..n
                 PROVE c[k] \in Nat /\ c[k + 1] = c[k] + Counted(parts[k + 1]) /\ c[k + 1] \in Nat
      OBVIOUS
    <2>1. k + 1 \in 1..Len(parts) /\ (k + 1) - 1 = k /\ k \in 0..Len(parts)
          /\ k + 1 \in 0..Len(parts)
      BY <1>2
    <2> QED
      BY <1>1, <2>1
  <1>4. 0 \in S
    <2>1. E(0) = D \ known
      OBVIOUS
    <2>2. IsFiniteSet(D \ known)
      BY FS_Subset
    <2>3. c[1] = Cardinality(D \ known) /\ c[1] \in Nat
      BY <1>1, <1>2, <1>3
    <2>4. c[0 + 1] = c[1] /\ Cardinality(D \ known) <= c[1]
      BY <2>3
    <2> HIDE DEF E
    <2> QED
      BY <2>1, <2>2, <2>4
  <1>5. ASSUME NEW k \in Nat, k \in S PROVE k + 1 \in S
    <2> SUFFICES ASSUME k + 1 <= n
                 PROVE IsFiniteSet(E(k + 1)) /\ Cardinality(E(k + 1)) <= c[(k + 1) + 1]
      OBVIOUS
    <2> DEFINE m == k + 1
               x == names[m]
    <2>1. m \in 1..n /\ m \in 0..n /\ k \in 0..n
      BY <1>2
    <2>2. IsFiniteSet(E(k)) /\ Cardinality(E(k)) <= c[m]
      BY <1>5, <2>1
    <2>3. E(m) = E(k) \cup ({x} \cap D)
      <3>1. \A j \in 1..m : j \in 1..k \/ j = m
        BY <2>1
      <3>2. 1..k \subseteq 1..m /\ m \in 1..m
        BY <2>1
      <3> HIDE DEF m
      <3> QED
        BY <3>1, <3>2
    <2>4. c[m + 1] = c[m] + Counted(parts[m + 1]) /\ c[m] \in Nat /\ Counted(parts[m + 1]) \in Nat
      <3>1. m + 1 \in 1..(n + 1)
        BY <1>2, <2>1
      <3> HIDE DEF m
      <3> QED
        BY <1>2, <1>3, <2>1, <3>1
    <2>5. x \in D => Counted(parts[m + 1]) = 1
      BY <2>1
    <2> HIDE DEF E, m, x
    <2>6. /\ IsFiniteSet(E(k) \cup ({x} \cap D))
          /\ Cardinality(E(k)) \in Nat /\ Cardinality(E(k) \cup ({x} \cap D)) \in Nat
          /\ Cardinality(E(k) \cup ({x} \cap D)) <= Cardinality(E(k)) + 1
          /\ x \notin D => E(k) \cup ({x} \cap D) = E(k)
      BY <2>2, OneMore
    <2>7. IsFiniteSet(E(m)) /\ Cardinality(E(m)) <= c[m + 1]
      <3>1. CASE x \in D
        BY <2>2, <2>3, <2>4, <2>5, <2>6, <3>1
      <3>2. CASE x \notin D
        <4>1. E(m) = E(k)
          BY <2>3, <2>6, <3>2
        <4>2. c[m] <= c[m + 1] /\ c[m + 1] \in Nat
          BY <2>4
        <4> QED
          BY <2>2, <2>4, <2>6, <4>1, <4>2
      <3> QED
        BY <3>1, <3>2
    <2> QED
      BY <2>7 DEF m
  <1>6. Nat \subseteq S
    <2> HIDE DEF S
    <2> QED
      BY <1>4, <1>5, SetInduction
  <1>7. E(n) = D
    OBVIOUS
  <1>8. Cardinality(E(n)) <= c[n + 1]
    <2> HIDE DEF E
    <2> QED
      BY <1>2, <1>6
  <1>9. Cardinality(D) <= c[n + 1]
    <2> HIDE DEF E
    <2> QED
      BY <1>7, <1>8
  <1>10. Cardinality(D) \in Nat /\ c[n + 1] \in Nat /\ n \in 0..n
    BY <1>2, <1>3, FS_CardinalityType
  <1> QED
    BY <1>1, <1>2, <1>9, <1>10, AllCounts

-----------------------------------------------------------------------------
\* The statistics of the components.

\* The unknown fields of an object are all counted (countUnknown).
LEMMA UnknownCounts ==
    ASSUME NEW fields, IsFiniteSet(DOMAIN fields), NEW known
    PROVE /\ UnknownFields(fields, known) \in Normalized
          /\ Counted(UnknownFields(fields, known)) = Cardinality(DOMAIN fields \ known)
  <1>1. Cardinality(DOMAIN fields \ known) \in Nat
    BY FS_Subset, FS_CardinalityType
  <1> QED
    BY <1>1, IgnoredCounts DEF UnknownFields

\* normalizeAzStorage counts every field of its statistics.
LEMMA AzStorageCounts ==
    ASSUME NEW values, IsFields(values)
    PROVE /\ normalizeAzStorage(values) \in Normalized
          /\ Counted(normalizeAzStorage(values)) >= Cardinality(DOMAIN values)
  <1> DEFINE D == DOMAIN values
             known == DOMAIN AzStorageCounters \cup {"OpenFileHandles"}
             names == <<"Bytes Downloaded", "Bytes Uploaded", "OpenFileHandles">>
             p1 == UnknownFields(values, known)
             p2 == addCounter(values, "Bytes Downloaded", AzStorageCounters["Bytes Downloaded"])
             p3 == addCounter(values, "Bytes Uploaded", AzStorageCounters["Bytes Uploaded"])
             p4 == addIntegerGauge(values, "OpenFileHandles", OpenFiles("azstorage"))
  <1>1. IsFiniteSet(D)
    BY DEF IsFields
  <1>2. p1 \in Normalized /\ Counted(p1) = Cardinality(D \ known)
    BY <1>1, UnknownCounts
  <1>3. p2 \in Normalized /\ ("Bytes Downloaded" \in D => Counted(p2) = 1)
    BY SeriesOfTables, addCounterCounts
  <1>4. p3 \in Normalized /\ ("Bytes Uploaded" \in D => Counted(p3) = 1)
    BY SeriesOfTables, addCounterCounts
  <1>5. p4 \in Normalized /\ ("OpenFileHandles" \in D => Counted(p4) = 1)
    BY SeriesOfTables, addIntegerGaugeCounts
  <1>6. known \subseteq {names[i] : i \in 1..3}
    <2>1. known = {"Bytes Downloaded", "Bytes Uploaded", "OpenFileHandles"}
      BY DEF AzStorageCounters
    <2>2. 1 \in 1..3 /\ 2 \in 1..3 /\ 3 \in 1..3
      OBVIOUS
    <2>3. /\ names[1] = "Bytes Downloaded" /\ names[2] = "Bytes Uploaded"
          /\ names[3] = "OpenFileHandles"
      OBVIOUS
    <2> HIDE DEF known, names
    <2> QED
      BY <2>1, <2>2, <2>3
  <1>60. /\ names[1] = "Bytes Downloaded" /\ names[2] = "Bytes Uploaded"
         /\ names[3] = "OpenFileHandles"
    OBVIOUS
  <1>7. normalizeAzStorage(values) = All(<<p1, p2, p3, p4>>)
    BY DEF normalizeAzStorage
  <1> HIDE DEF p1, p2, p3, p4, known, D
  <1> DEFINE parts == <<p1, p2, p3, p4>>
  <1>8. /\ parts \in Seq(Normalized) /\ Len(parts) = 3 + 1
        /\ parts[1] = p1 /\ parts[2] = p2 /\ parts[3] = p3 /\ parts[4] = p4
    <2>1. p1 \in Normalized /\ p2 \in Normalized /\ p3 \in Normalized /\ p4 \in Normalized
      BY <1>2, <1>3, <1>4, <1>5
    <2> QED
      BY <2>1
  <1>9. ASSUME NEW i \in 1..3, names[i] \in D PROVE Counted(parts[i + 1]) = 1
    <2> HIDE DEF parts, names
    <2>1. CASE i = 1
      <3>1. i + 1 = 2
        BY <2>1
      <3>2. parts[i + 1] = p2 /\ names[i] = names[1]
        BY <1>8, <2>1, <3>1
      <3> QED
        BY <1>3, <1>9, <1>60, <3>2
    <2>2. CASE i = 2
      <3>1. i + 1 = 3
        BY <2>2
      <3>2. parts[i + 1] = p3 /\ names[i] = names[2]
        BY <1>8, <2>2, <3>1
      <3> QED
        BY <1>4, <1>9, <1>60, <3>2
    <2>3. CASE i = 3
      <3>1. i + 1 = 4
        BY <2>3
      <3>2. parts[i + 1] = p4 /\ names[i] = names[3]
        BY <1>8, <2>3, <3>1
      <3> QED
        BY <1>5, <1>9, <1>60, <3>2
    <2> QED
      BY <2>1, <2>2, <2>3
  <1> HIDE DEF parts, names
  <1>10. Counted(parts[1]) = Cardinality(D \ known)
    BY <1>2, <1>8
  <1>11. All(parts) \in Normalized /\ Counted(All(parts)) >= Cardinality(D)
    BY <1>1, <1>6, <1>8, <1>9, <1>10, AllCountFields
  <1> QED
    BY <1>7, <1>11 DEF parts, D

\* normalizeFileCache counts every field of its statistics.
LEMMA FileCacheCounts ==
    ASSUME NEW values, IsFields(values)
    PROVE /\ normalizeFileCache(values) \in Normalized
          /\ Counted(normalizeFileCache(values)) >= Cardinality(DOMAIN values)
  <1> DEFINE D == DOMAIN values
             known == DOMAIN FileCacheCounters \cup DOMAIN FileCacheGauges
             names == <<"Files Downloaded", "Files served from cache", "Cache Usage",
                        "Usage Percent">>
             p1 == UnknownFields(values, known)
             p2 == addCounter(values, "Files Downloaded", FileCacheCounters["Files Downloaded"])
             p3 == addCounter(values, "Files served from cache",
                              FileCacheCounters["Files served from cache"])
             p4 == addFormattedGauge(values, "Cache Usage", FileCacheGauges["Cache Usage"],
                                     CacheUsageUnit)
             p5 == addFormattedGauge(values, "Usage Percent", FileCacheGauges["Usage Percent"],
                                     PercentageUnit)
  <1>1. IsFiniteSet(D)
    BY DEF IsFields
  <1>2. p1 \in Normalized /\ Counted(p1) = Cardinality(D \ known)
    BY <1>1, UnknownCounts
  <1>3. p2 \in Normalized /\ ("Files Downloaded" \in D => Counted(p2) = 1)
    BY SeriesOfTables, addCounterCounts
  <1>4. p3 \in Normalized /\ ("Files served from cache" \in D => Counted(p3) = 1)
    BY SeriesOfTables, addCounterCounts
  <1>5. p4 \in Normalized /\ ("Cache Usage" \in D => Counted(p4) = 1)
    BY SeriesOfTables, UnitPowers, addFormattedGaugeCounts
  <1>6. p5 \in Normalized /\ ("Usage Percent" \in D => Counted(p5) = 1)
    BY SeriesOfTables, UnitPowers, addFormattedGaugeCounts
  <1>7. known \subseteq {names[i] : i \in 1..4}
    <2>1. known = {"Files Downloaded", "Files served from cache", "Cache Usage",
                   "Usage Percent"}
      BY DEF FileCacheCounters, FileCacheGauges
    <2>2. 1 \in 1..4 /\ 2 \in 1..4 /\ 3 \in 1..4 /\ 4 \in 1..4
      OBVIOUS
    <2>3. /\ names[1] = "Files Downloaded" /\ names[2] = "Files served from cache"
          /\ names[3] = "Cache Usage" /\ names[4] = "Usage Percent"
      OBVIOUS
    <2> HIDE DEF known, names
    <2> QED
      BY <2>1, <2>2, <2>3
  <1>70. /\ names[1] = "Files Downloaded" /\ names[2] = "Files served from cache"
         /\ names[3] = "Cache Usage" /\ names[4] = "Usage Percent"
    OBVIOUS
  <1>8. normalizeFileCache(values) = All(<<p1, p2, p3, p4, p5>>)
    BY DEF normalizeFileCache
  <1> HIDE DEF p1, p2, p3, p4, p5, known, D
  <1> DEFINE parts == <<p1, p2, p3, p4, p5>>
  <1>9. /\ parts \in Seq(Normalized) /\ Len(parts) = 4 + 1
        /\ parts[1] = p1 /\ parts[2] = p2 /\ parts[3] = p3 /\ parts[4] = p4 /\ parts[5] = p5
    <2>1. /\ p1 \in Normalized /\ p2 \in Normalized /\ p3 \in Normalized
          /\ p4 \in Normalized /\ p5 \in Normalized
      BY <1>2, <1>3, <1>4, <1>5, <1>6
    <2> QED
      BY <2>1
  <1>10. ASSUME NEW i \in 1..4, names[i] \in D PROVE Counted(parts[i + 1]) = 1
    <2> HIDE DEF parts, names
    <2>1. CASE i = 1
      <3>1. i + 1 = 2
        BY <2>1
      <3>2. parts[i + 1] = p2 /\ names[i] = names[1]
        BY <1>9, <2>1, <3>1
      <3> QED
        BY <1>3, <1>10, <1>70, <3>2
    <2>2. CASE i = 2
      <3>1. i + 1 = 3
        BY <2>2
      <3>2. parts[i + 1] = p3 /\ names[i] = names[2]
        BY <1>9, <2>2, <3>1
      <3> QED
        BY <1>4, <1>10, <1>70, <3>2
    <2>3. CASE i = 3
      <3>1. i + 1 = 4
        BY <2>3
      <3>2. parts[i + 1] = p4 /\ names[i] = names[3]
        BY <1>9, <2>3, <3>1
      <3> QED
        BY <1>5, <1>10, <1>70, <3>2
    <2>4. CASE i = 4
      <3>1. i + 1 = 5
        BY <2>4
      <3>2. parts[i + 1] = p5 /\ names[i] = names[4]
        BY <1>9, <2>4, <3>1
      <3> QED
        BY <1>6, <1>10, <1>70, <3>2
    <2> QED
      BY <2>1, <2>2, <2>3, <2>4
  <1> HIDE DEF parts, names
  <1>11. Counted(parts[1]) = Cardinality(D \ known)
    BY <1>2, <1>9
  <1>12. All(parts) \in Normalized /\ Counted(All(parts)) >= Cardinality(D)
    BY <1>1, <1>7, <1>9, <1>10, <1>11, AllCountFields
  <1> QED
    BY <1>8, <1>12 DEF parts, D

\* The parts of the statistics of libfuse: what is unknown, its open files, an operation each.
LEMMA LibfuseParts ==
    ASSUME NEW values, IsFields(values)
    PROVE \E parts \in Seq(Normalized) :
              /\ normalizeLibfuse(values) = All(parts)
              /\ Len(parts) = Len(operationFields) + 2
              /\ parts[1] = UnknownFields(values, Operation \cup {"OpenFileHandles"})
              /\ parts[2] = addIntegerGauge(values, "OpenFileHandles", OpenFiles("libfuse"))
              /\ \A i \in 1..Len(operationFields) : parts[i + 2] =
                    addCounter(values, operationFields[i], LibfuseCounters[operationFields[i]])
  <1> DEFINE known == Operation \cup {"OpenFileHandles"}
             n == Len(operationFields)
             p1 == UnknownFields(values, known)
             p2 == addIntegerGauge(values, "OpenFileHandles", OpenFiles("libfuse"))
             p(i) == addCounter(values, operationFields[i], LibfuseCounters[operationFields[i]])
  <1>1. n \in Nat /\ DOMAIN operationFields = 1..n
    BY DEF operationFields
  <1>2. p1 \in Normalized
    BY UnknownCounts DEF IsFields
  <1>3. p2 \in Normalized
    BY SeriesOfTables, addIntegerGaugeCounts
  <1>4. ASSUME NEW i \in 1..n PROVE p(i) \in Normalized
    <2>1. LibfuseCounters[operationFields[i]] \in CounterSeries
      BY SeriesOfTables
    <2> QED
      BY <2>1, addCounterCounts
  <1>5. normalizeLibfuse(values) = All(<<p1, p2>> \o [i \in 1..n |-> p(i)])
    BY <1>1 DEF normalizeLibfuse
  <1> HIDE DEF p1, p2, p, known, n
  <1> DEFINE s == [i \in 1..n |-> p(i)]
             h == <<p1, p2>>
             parts == h \o s
  <1>6. s \in Seq(Normalized) /\ Len(s) = n /\ \A i \in 1..n : s[i] = p(i)
    BY <1>1, <1>4
  <1>7. h[1] = p1 /\ h[2] = p2 /\ h \in Seq(Normalized) /\ Len(h) = 2
    BY <1>2, <1>3
  <1> HIDE DEF s, h
  <1>8. /\ parts \in Seq(Normalized) /\ Len(parts) = 2 + n
        /\ \A i \in 1..(2 + n) : parts[i] = IF i <= 2 THEN h[i] ELSE s[i - 2]
    <2>1. /\ h \o s \in Seq(Normalized) /\ Len(h \o s) = Len(h) + Len(s)
          /\ \A i \in 1..(Len(h) + Len(s)) :
                (h \o s)[i] = IF i <= Len(h) THEN h[i] ELSE s[i - Len(h)]
      BY <1>6, <1>7, ConcatProperties
    <2> QED
      BY <1>6, <1>7, <2>1
  <1>9. normalizeLibfuse(values) = All(parts)
    BY <1>5 DEF s, h
  <1> HIDE DEF parts
  <1>10. ASSUME NEW i \in 1..n PROVE parts[i + 2] = p(i)
    <2>1. i + 2 \in 1..(2 + n) /\ ~(i + 2 <= 2) /\ (i + 2) - 2 = i
      BY <1>1
    <2> QED
      BY <1>6, <1>8, <2>1
  <1>11. parts[1] = p1 /\ parts[2] = p2 /\ Len(parts) = n + 2
    BY <1>1, <1>7, <1>8
  <1> QED
    BY <1>8, <1>9, <1>10, <1>11 DEF p1, p2, p, known, n

\* normalizeLibfuse counts every field of its statistics, those of its table included.
LEMMA LibfuseCounts ==
    ASSUME NEW values, IsFields(values)
    PROVE /\ normalizeLibfuse(values) \in Normalized
          /\ Counted(normalizeLibfuse(values)) >= Cardinality(DOMAIN values)
  <1> DEFINE D == DOMAIN values
             known == Operation \cup {"OpenFileHandles"}
             n == Len(operationFields)
             name(i) == IF i = 1 THEN "OpenFileHandles" ELSE operationFields[i - 1]
             names == [i \in 1..(n + 1) |-> name(i)]
             p1 == UnknownFields(values, known)
             p2 == addIntegerGauge(values, "OpenFileHandles", OpenFiles("libfuse"))
             p(i) == addCounter(values, operationFields[i], LibfuseCounters[operationFields[i]])
  <1>0. n \in Nat /\ DOMAIN operationFields = 1..n
    BY DEF operationFields
  <1>1. IsFiniteSet(D)
    BY DEF IsFields
  <1>2. p1 \in Normalized /\ Counted(p1) = Cardinality(D \ known)
    BY <1>1, UnknownCounts
  <1>3. p2 \in Normalized /\ ("OpenFileHandles" \in D => Counted(p2) = 1)
    BY SeriesOfTables, addIntegerGaugeCounts
  <1>4. ASSUME NEW i \in 1..n
        PROVE p(i) \in Normalized /\ (operationFields[i] \in D => Counted(p(i)) = 1)
    <2>1. LibfuseCounters[operationFields[i]] \in CounterSeries
      BY SeriesOfTables
    <2> QED
      BY <2>1, addCounterCounts
  <1>6. known \subseteq {names[i] : i \in 1..(n + 1)}
    <2> SUFFICES ASSUME NEW x \in known PROVE \E i \in 1..(n + 1) : names[i] = x
      OBVIOUS
    <2>1. CASE x = "OpenFileHandles"
      <3>1. 1 \in 1..(n + 1)
        BY <1>0
      <3> HIDE DEF n
      <3> QED
        BY <2>1, <3>1
    <2>2. CASE x \in Operation
      <3>1. PICK i \in 1..n : operationFields[i] = x
        BY <1>0, <2>2 DEF Operation
      <3>2. i + 1 \in 1..(n + 1) /\ i + 1 # 1 /\ (i + 1) - 1 = i
        BY <1>0
      <3> HIDE DEF n
      <3>3. names[i + 1] = operationFields[i]
        BY <3>2
      <3> QED
        BY <3>1, <3>2, <3>3
    <2> QED
      BY <2>1, <2>2
  <1> HIDE DEF p1, p2, p, known, D, n
  <1>10. PICK parts \in Seq(Normalized) :
            /\ normalizeLibfuse(values) = All(parts) /\ Len(parts) = n + 2
            /\ parts[1] = p1 /\ parts[2] = p2 /\ \A i \in 1..n : parts[i + 2] = p(i)
    BY LibfuseParts DEF p1, p2, p, known, n
  <1>11. ASSUME NEW i \in 1..(n + 1), names[i] \in D PROVE Counted(parts[i + 1]) = 1
    <2>1. CASE i = 1
      <3>1. names[i] = "OpenFileHandles" /\ parts[i + 1] = p2
        BY <1>10, <2>1
      <3> QED
        BY <1>3, <1>11, <3>1
    <2>2. CASE i # 1
      <3> DEFINE j == i - 1
      <3>1. j \in 1..n /\ i + 1 = j + 2
        BY <1>0, <2>2
      <3>2. names[i] = operationFields[j]
        BY <2>2
      <3> HIDE DEF j, names
      <3>3. parts[i + 1] = p(j)
        BY <1>10, <3>1
      <3> QED
        BY <1>4, <1>11, <3>1, <3>2, <3>3
    <2> QED
      BY <2>1, <2>2
  <1> HIDE DEF names
  <1>12. n + 1 \in Nat /\ Len(parts) = (n + 1) + 1 /\ Counted(parts[1]) = Cardinality(D \ known)
    BY <1>0, <1>2, <1>10
  <1>13. All(parts) \in Normalized /\ Counted(All(parts)) >= Cardinality(D)
    BY <1>1, <1>6, <1>10, <1>11, <1>12, AllCountFields
  <1> QED
    BY <1>10, <1>13 DEF D

-----------------------------------------------------------------------------
\* Messages.

\* What three results count together.
LEMMA ThreeCount ==
    ASSUME NEW a \in Normalized, NEW b \in Normalized, NEW c \in Normalized
    PROVE /\ All(<<a, b, c>>) \in Normalized
          /\ Counted(All(<<a, b, c>>)) = Counted(a) + Counted(b) + Counted(c)
  <1> DEFINE parts == <<a, b, c>>
  <1>1. parts \in Seq(Normalized) /\ Len(parts) = 3
        /\ parts[1] = a /\ parts[2] = b /\ parts[3] = c
    OBVIOUS
  <1> HIDE DEF parts
  <1>2. PICK s \in [0..Len(parts) -> Nat] :
            /\ s[0] = 0
            /\ \A k \in 1..Len(parts) : s[k] = s[k - 1] + Counted(parts[k])
            /\ Counted(All(parts)) = s[Len(parts)]
    BY <1>1, AllCounts
  <1>3. /\ s[0] = 0 /\ s[1] = s[0] + Counted(a) /\ s[2] = s[1] + Counted(b)
        /\ s[3] = s[2] + Counted(c) /\ Counted(All(parts)) = s[3]
    BY <1>1, <1>2
  <1>4. Counted(a) \in Nat /\ Counted(b) \in Nat /\ Counted(c) \in Nat
    BY BothCounts
  <1>5. Counted(All(parts)) = Counted(a) + Counted(b) + Counted(c)
    BY <1>3, <1>4
  <1>6. All(parts) \in Normalized
    BY <1>1, AllCounts
  <1> QED
    BY <1>5, <1>6 DEF parts

IsMessageFields(fields) ==
    /\ IsFiniteSet(DOMAIN fields)
    /\ \A name \in DOMAIN fields : IsMessageField(fields[name])

AreStatistics(fields, components) ==
    /\ {"componentName", "value"} \subseteq DOMAIN fields
    /\ fields["componentName"].type = "string"
    /\ fields["componentName"].unit \in components
    /\ fields["value"].type = "object"

\* normalizeStatistics counts each field of the statistics of a component, and one
\* value for a message that has none.
LEMMA StatisticsCounts ==
    ASSUME NEW fields, IsMessageFields(fields)
    PROVE /\ normalizeStatistics(fields) \in Normalized
          /\ AreStatistics(fields, ComponentNames) =>
                Counted(normalizeStatistics(fields)) >= Cardinality(DOMAIN fields["value"].fields)
          /\ ~AreStatistics(fields, ComponentNames) => Counted(normalizeStatistics(fields)) = 1
  <1> DEFINE v == normalizeStatistics(fields)
             values == fields["value"].fields
             component == fields["componentName"].unit
  <1>1. CASE ~AreStatistics(fields, ComponentNames)
    <2>1. v = Ignored(1) \/ v = Invalid
      BY <1>1 DEF normalizeStatistics, AreStatistics, ComponentNames, Decodes
    <2>2. v \in Normalized /\ Counted(v) = 1
      <3> HIDE DEF v
      <3> QED
        BY <2>1, IgnoredCounts, InvalidCounts
    <2> QED
      BY <1>1, <2>2
  <1>2. CASE AreStatistics(fields, ComponentNames)
    <2>1. IsFields(values)
      BY <1>2 DEF AreStatistics, IsMessageFields, IsMessageField, IsValue, IsFields
    <2>2. /\ "componentName" \in DOMAIN fields /\ Decodes(fields["componentName"], "string")
          /\ "value" \in DOMAIN fields /\ Decodes(fields["value"], "object")
          /\ component \in {"azstorage", "libfuse", "file_cache"}
      BY <1>2 DEF AreStatistics, ComponentNames, Decodes
    <2>3. CASE component = "azstorage"
      <3>1. v = normalizeAzStorage(values)
        BY <2>2, <2>3 DEF normalizeStatistics
      <3> HIDE DEF v, values
      <3>2. v \in Normalized /\ Counted(v) >= Cardinality(DOMAIN values)
        BY <2>1, <3>1, AzStorageCounts
      <3> QED
        BY <1>2, <3>2 DEF v, values
    <2>4. CASE component = "libfuse"
      <3>1. v = normalizeLibfuse(values)
        BY <2>2, <2>4 DEF normalizeStatistics
      <3> HIDE DEF v, values
      <3>2. v \in Normalized /\ Counted(v) >= Cardinality(DOMAIN values)
        BY <2>1, <3>1, LibfuseCounts
      <3> QED
        BY <1>2, <3>2 DEF v, values
    <2>5. CASE component = "file_cache"
      <3>1. v = normalizeFileCache(values)
        BY <2>2, <2>5 DEF normalizeStatistics
      <3> HIDE DEF v, values
      <3>2. v \in Normalized /\ Counted(v) >= Cardinality(DOMAIN values)
        BY <2>1, <3>1, FileCacheCounts
      <3> QED
        BY <1>2, <3>2 DEF v, values
    <2> QED
      BY <2>2, <2>3, <2>4, <2>5
  <1> QED
    BY <1>1, <1>2

\* A time stamp is checked, never an update.
LEMMA TimestampCounts ==
    ASSUME NEW raw
    PROVE normalizeTimestamp(raw) \in Normalized /\ Counted(normalizeTimestamp(raw)) \in Nat
  BY NothingCounts, InvalidCounts DEF normalizeTimestamp

\* A field that may be missing has a result.
LEMMA FieldIsNormalized ==
    ASSUME NEW fields, NEW name
    PROVE Field(fields, name, normalizeTimestamp) \in Normalized
  BY TimestampCounts, NothingCounts DEF Field

\* And so has an event.
LEMMA EventIsNormalized ==
    ASSUME NEW fields
    PROVE validateEventFields(fields) \in Normalized
  <1> DEFINE Check(name, type) ==
                IF name \in DOMAIN fields
                THEN IF Decodes(fields[name], type) THEN Nothing ELSE Invalid
                ELSE Nothing
             parts == <<Check("timestamp", "string"), Check("componentName", "string"),
                        Check("operation", "string"), Check("path", "string"),
                        Check("value", "object")>>
  <1>1. ASSUME NEW name, NEW type PROVE Check(name, type) \in Normalized
    BY NothingCounts, InvalidCounts
  <1>2. validateEventFields(fields) = All(parts)
    BY DEF validateEventFields, Field
  <1>3. parts \in Seq(Normalized)
    <2> HIDE DEF Check
    <2> QED
      BY <1>1
  <1> HIDE DEF parts
  <1> QED
    BY <1>2, <1>3, AllCounts

\* Each value of a message is counted.
LEMMA MessageCounts ==
    ASSUME NEW m, IsMessage(m)
    PROVE /\ normalizeBlobfuseMessage(m) \in Normalized
          /\ ValuesOf(m) \in Nat
          /\ Counted(normalizeBlobfuseMessage(m)) >= ValuesOf(m)
  <1> DEFINE fields == m.fields
             u == UnknownFields(fields, MessageFields)
             isEvent == DOMAIN fields \cap {"operation", "path"} # {}
             v == normalizeBlobfuseMessage(m)
             c == Cardinality(DOMAIN fields \ MessageFields)
             k == Cardinality(DOMAIN fields["value"].fields)
  <1>1. CASE ~Decodes(m, "object")
    <2>1. v = Invalid /\ ValuesOf(m) = 1
      <3>1. m.type # "object" /\ ~IsStatisticsOf(m, ComponentNames)
        BY <1>1 DEF Decodes, IsStatisticsOf
      <3>2. ValuesOf(m) = 1 + 0
        BY <3>1 DEF ValuesOf
      <3> QED
        BY <1>1, <3>2 DEF normalizeBlobfuseMessage
    <2> HIDE DEF v
    <2>2. v \in Normalized /\ ValuesOf(m) \in Nat /\ Counted(v) >= ValuesOf(m)
      BY <2>1, InvalidCounts
    <2> QED
      BY <2>2 DEF v
  <1>2. CASE Decodes(m, "object")
    <2>1. m.type = "object"
      BY <1>2 DEF Decodes
    <2>2. IsMessageFields(fields)
      BY <2>1 DEF IsMessage, IsValue, IsMessageFields
    <2>3. u \in Normalized /\ Counted(u) = c /\ c \in Nat
      <3>1. IsFiniteSet(DOMAIN fields)
        BY <2>2 DEF IsMessageFields
      <3>2. c \in Nat
        BY <3>1, FS_Subset, FS_CardinalityType
      <3> QED
        BY <3>1, <3>2, UnknownCounts
    <2>4. CASE isEvent
      <3> DEFINE e == validateEventFields(fields)
      <3>1. v = All(<<u, e, Ignored(1)>>)
        BY <1>2, <2>4 DEF normalizeBlobfuseMessage
      <3>2. ValuesOf(m) = 1 + c
        <4>1. ~IsStatisticsOf(m, ComponentNames)
          BY <2>4 DEF IsStatisticsOf
        <4> QED
          BY <2>1, <4>1 DEF ValuesOf
      <3>3. e \in Normalized /\ Counted(e) \in Nat
        BY EventIsNormalized, BothCounts
      <3> HIDE DEF u, e, v, c
      <3>4. v \in Normalized /\ Counted(v) = c + Counted(e) + 1
        BY <2>3, <3>1, <3>3, IgnoredCounts, ThreeCount
      <3>5. v \in Normalized /\ ValuesOf(m) \in Nat /\ Counted(v) >= ValuesOf(m)
        BY <2>3, <3>2, <3>3, <3>4
      <3> QED
        BY <3>5 DEF v
    <2>5. CASE ~isEvent
      <3> DEFINE t == Field(fields, "timestamp", normalizeTimestamp)
                 s == normalizeStatistics(fields)
      <3>1. v = All(<<u, t, s>>)
        BY <1>2, <2>5 DEF normalizeBlobfuseMessage
      <3>2. IsStatisticsOf(m, ComponentNames) <=> AreStatistics(fields, ComponentNames)
        BY <2>1, <2>5 DEF IsStatisticsOf, AreStatistics
      <3>3. t \in Normalized /\ Counted(t) \in Nat
        BY FieldIsNormalized, BothCounts
      <3>4. s \in Normalized /\ Counted(s) \in Nat
        BY <2>2, StatisticsCounts, BothCounts
      <3>5. Counted(v) = c + Counted(t) + Counted(s) /\ v \in Normalized
        <4> HIDE DEF u, t, s, v, c
        <4> QED
          BY <2>3, <3>1, <3>3, <3>4, ThreeCount
      <3>6. CASE AreStatistics(fields, ComponentNames)
        <4>1. ValuesOf(m) = k + c
          BY <2>1, <3>2, <3>6 DEF ValuesOf
        <4>2. Counted(s) >= k
          BY <2>2, <3>6, StatisticsCounts
        <4>3. k \in Nat
          <5>1. IsFiniteSet(DOMAIN fields["value"].fields)
            BY <2>2, <3>6 DEF AreStatistics, IsMessageFields, IsMessageField, IsValue
          <5> QED
            BY <5>1, FS_CardinalityType
        <4> HIDE DEF v, c, k, s, t
        <4>4. v \in Normalized /\ ValuesOf(m) \in Nat /\ Counted(v) >= ValuesOf(m)
          BY <2>3, <3>3, <3>4, <3>5, <4>1, <4>2, <4>3
        <4> QED
          BY <4>4 DEF v
      <3>7. CASE ~AreStatistics(fields, ComponentNames)
        <4>1. ValuesOf(m) = 1 + c
          BY <2>1, <3>2, <3>7 DEF ValuesOf
        <4>2. Counted(s) = 1
          BY <2>2, <3>7, StatisticsCounts
        <4> HIDE DEF v, c, s, t
        <4>4. v \in Normalized /\ ValuesOf(m) \in Nat /\ Counted(v) >= ValuesOf(m)
          BY <2>3, <3>3, <3>4, <3>5, <4>1, <4>2
        <4> QED
          BY <4>4 DEF v
      <3> QED
        BY <3>6, <3>7
    <2> QED
      BY <2>4, <2>5
  <1> QED
    BY <1>1, <1>2

-----------------------------------------------------------------------------
\* Records.

\* SumOf adds up numbers one by one.
LEMMA SumSteps ==
    ASSUME NEW numbers \in Seq(Nat)
    PROVE \E h \in [0..Len(numbers) -> Nat] :
              /\ h[0] = 0
              /\ \A k \in 1..Len(numbers) : h[k] = h[k - 1] + numbers[k]
              /\ SumOf(numbers) = h[Len(numbers)]
  <1> DEFINE n == Len(numbers)
             start == 0
             F == [step \in (1..n) \X Nat |-> step[2] + numbers[step[1]]]
             Body(f, s) == IF s = {} THEN start ELSE f[s \ {Max(s)}] + numbers[Max(s)]
             it == CHOOSE f : f = [s \in SUBSET (1..n) |-> Body(f, s)]
  <1>1. n \in Nat /\ DOMAIN numbers = 1..n /\ \A i \in 1..n : numbers[i] \in Nat
    OBVIOUS
  <1>2. SumOf(numbers) = it[1..n]
    <2>1. SumOf(numbers) = (CHOOSE f : f = [s \in SUBSET (DOMAIN numbers) |-> Body(f, s)])[DOMAIN numbers]
      BY Zenon DEF SumOf, FoldLeft, MapThenFoldSet
    <2> QED
      BY <1>1, <2>1, Zenon
  <1>3. \A i \in 1..n, x \in Nat :
            /\ F[<<i, x>>] = x + numbers[i]
            /\ F[<<i, x>>] \in Nat
    BY <1>1
  <1>4. start \in Nat
    OBVIOUS
  <1> HIDE DEF n, start
  <1>5. StaysIn(Nat, n, F)
    <2> HIDE DEF F
    <2> QED
      BY <1>3 DEF StaysIn
  <1>6. PICK f : Iterates(f, n, Nat, start, F)
    <2> HIDE DEF F
    <2> QED
      BY <1>1, <1>4, <1>5, FoldIterates
  <1>7. ASSUME NEW s \in SUBSET (1..n) PROVE f[s] = Body(f, s)
    <2>1. CASE s # {}
      <3>1. Max(s) \in 1..n /\ s \ {Max(s)} \in SUBSET (1..n)
        BY <1>1, <2>1, MaxOfPositions
      <3>2. f[s \ {Max(s)}] \in Nat
        BY <1>6, <3>1 DEF Iterates
      <3>3. f[s] = F[<<Max(s), f[s \ {Max(s)}]>>]
        BY <1>6, <2>1 DEF Iterates
      <3> HIDE DEF F
      <3> QED
        BY <1>3, <2>1, <3>1, <3>2, <3>3
    <2>2. CASE s = {}
      BY <1>6, <2>2 DEF Iterates
    <2> QED
      BY <2>1, <2>2
  <1>8. f = [s \in SUBSET (1..n) |-> Body(f, s)]
    <2>1. f \in [SUBSET (1..n) -> Nat]
      BY <1>6 DEF Iterates
    <2> QED
      BY <1>7, <2>1
  <1>9. it = [s \in SUBSET (1..n) |-> Body(it, s)]
    BY <1>8, Zenon
  <1>10. it[{}] = start
    BY <1>9
  <1>11. ASSUME NEW k \in 1..n, it[1..(k - 1)] \in Nat
         PROVE it[1..k] = F[<<k, it[1..(k - 1)]>>]
    <2>1. /\ 1..k \in SUBSET (1..n) /\ 1..k # {} /\ Max(1..k) = k
          /\ (1..k) \ {k} = 1..(k - 1)
      BY <1>1, PositionsBefore
    <2>2. it[1..k] = it[1..(k - 1)] + numbers[k]
      BY <1>9, <2>1, Zenon
    <2> QED
      BY <1>3, <1>11, <2>2, Zenon
  <1>12. PICK h : StepsThrough(h, n, Nat, start, F) /\ it[1..n] = h[n]
    <2> HIDE DEF F, it
    <2>1. Accumulates(it, n, Nat, start, F)
      BY <1>10, <1>11 DEF Accumulates
    <2> QED
      BY <2>1, <1>1, <1>4, <1>5, FoldSteps
  <1>13. ASSUME NEW k \in 1..n PROVE h[k] = h[k - 1] + numbers[k]
    <2>1. k - 1 \in 0..n
      BY <1>1
    <2>2. h[k - 1] \in Nat
      BY <1>12, <2>1 DEF StepsThrough
    <2>3. h[k] = F[<<k, h[k - 1]>>]
      BY <1>12 DEF StepsThrough
    <2> HIDE DEF F
    <2> QED
      BY <1>1, <1>3, <2>2, <2>3
  <1> HIDE DEF it
  <1> QED
    BY <1>2, <1>12, <1>13 DEF n, start, StepsThrough

\* Each value of the messages of a record is counted.
LEMMA StatsCount ==
    ASSUME NEW raw, IsValue(raw, IsMessage)
    PROVE /\ normalizeBlobfuseStats(raw) \in Normalized
          /\ raw.type = "array" =>
                LET sum == SumOf([i \in DOMAIN raw.elements |-> ValuesOf(raw.elements[i])])
                IN  sum \in Nat /\ Counted(normalizeBlobfuseStats(raw)) >= sum
  <1> DEFINE v == normalizeBlobfuseStats(raw)
             messages == raw.elements
             n == Len(messages)
             parts == [i \in 1..n |-> normalizeBlobfuseMessage(messages[i])]
             values == [i \in 1..n |-> ValuesOf(messages[i])]
  <1>1. CASE raw.type # "array"
    <2>1. v = Invalid
      BY <1>1 DEF normalizeBlobfuseStats, Decodes
    <2> QED
      BY <1>1, <2>1, InvalidCounts
  <1>2. CASE raw.type = "array"
    <2>1. n \in Nat /\ DOMAIN messages = 1..n /\ \A i \in 1..n : IsMessage(messages[i])
      <3>1. messages \in Seq({messages[i] : i \in DOMAIN messages})
            /\ \A i \in DOMAIN messages : IsMessage(messages[i])
        BY <1>2 DEF IsValue
      <3>2. n \in Nat /\ DOMAIN messages = 1..n
        BY <3>1
      <3> HIDE DEF messages, n
      <3> QED
        BY <3>1, <3>2
    <2>2. v = All(parts)
      BY <1>2, <2>1 DEF normalizeBlobfuseStats, Decodes
    <2>3. SumOf([i \in DOMAIN messages |-> ValuesOf(messages[i])]) = SumOf(values)
      BY <2>1
    <2> HIDE DEF messages, n, v
    <2>4. \A i \in 1..n : /\ parts[i] \in Normalized /\ values[i] \in Nat
                          /\ Counted(parts[i]) >= values[i]
      BY <2>1, MessageCounts
    <2>5. parts \in Seq(Normalized) /\ Len(parts) = n /\ values \in Seq(Nat) /\ Len(values) = n
      BY <2>1, <2>4
    <2> HIDE DEF parts, values
    <2>6. PICK c \in [0..n -> Nat] :
              /\ c[0] = 0
              /\ \A k \in 1..n : c[k] = c[k - 1] + Counted(parts[k])
              /\ Counted(All(parts)) = c[n]
      BY <2>5, AllCounts
    <2>7. PICK h \in [0..n -> Nat] :
              /\ h[0] = 0
              /\ \A k \in 1..n : h[k] = h[k - 1] + values[k]
              /\ SumOf(values) = h[n]
      BY <2>5, SumSteps
    <2> DEFINE S == {k \in Nat : k <= n => c[k] >= h[k]}
    <2>8. 0 \in S
      BY <2>6, <2>7
    <2>9. ASSUME NEW k \in Nat, k \in S PROVE k + 1 \in S
      <3> SUFFICES ASSUME k + 1 <= n PROVE c[k + 1] >= h[k + 1]
        OBVIOUS
      <3>1. k + 1 \in 1..n /\ (k + 1) - 1 = k /\ k \in 0..n /\ c[k] >= h[k]
        BY <2>1, <2>9
      <3>2. c[k + 1] = c[k] + Counted(parts[k + 1]) /\ h[k + 1] = h[k] + values[k + 1]
        BY <2>6, <2>7, <3>1
      <3>3. /\ c[k] \in Nat /\ h[k] \in Nat /\ values[k + 1] \in Nat
            /\ Counted(parts[k + 1]) \in Nat /\ Counted(parts[k + 1]) >= values[k + 1]
        BY <2>4, <3>1, BothCounts
      <3> QED
        BY <3>1, <3>2, <3>3
    <2>10. n \in S
      <3>1. Nat \subseteq S
        <4> HIDE DEF S
        <4> QED
          BY <2>8, <2>9, SetInduction
      <3> HIDE DEF S
      <3> QED
        BY <2>1, <3>1
    <2>11. All(parts) \in Normalized
      BY <2>5, AllCounts
    <2>12. n \in 0..n
      BY <2>1
    <2> QED
      BY <1>2, <2>2, <2>3, <2>6, <2>7, <2>10, <2>11, <2>12 DEF v, messages
  <1> QED
    BY <1>1, <1>2

\* A series of a monitor the exporter does not support is ignored.
LEMMA ArrayCounts ==
    ASSUME NEW raw, IsValue(raw, IsMessage)
    PROVE /\ normalizeUnsupportedArray(raw) \in Normalized
          /\ Counted(normalizeUnsupportedArray(raw)) \in Nat
  <1> DEFINE v == normalizeUnsupportedArray(raw)
  <1>1. CASE Decodes(raw, "array")
    <2>1. v = Ignored(Len(raw.elements))
      BY <1>1 DEF normalizeUnsupportedArray
    <2>2. raw.elements \in Seq({raw.elements[i] : i \in DOMAIN raw.elements})
      BY <1>1 DEF Decodes, IsValue
    <2>3. Len(raw.elements) \in Nat
      BY <2>2
    <2> QED
      BY <2>1, <2>3, IgnoredCounts
  <1>2. CASE ~Decodes(raw, "array")
    <2>1. v = Invalid
      BY <1>2 DEF normalizeUnsupportedArray
    <2> QED
      BY <2>1, InvalidCounts
  <1> QED
    BY <1>1, <1>2

\* And so is a string.
LEMMA StringCounts ==
    ASSUME NEW raw
    PROVE /\ normalizeUnsupportedString(raw) \in Normalized
          /\ Counted(normalizeUnsupportedString(raw)) = 1
  BY IgnoredCounts, InvalidCounts DEF normalizeUnsupportedString

\* normalizeMemory takes the memory of the process or counts it invalid.
LEMMA MemoryCounts ==
    ASSUME NEW raw, IsValue(raw, IsMessage)
    PROVE normalizeMemory(raw) \in Normalized /\ Counted(normalizeMemory(raw)) = 1
  <1>1. IsFieldValue(raw)
    BY DEF IsFieldValue, IsValue
  <1> QED
    BY <1>1, SeriesOfTables, UnitPowers, FormattedCounts DEF normalizeMemory

\* A record without messages has no values in them.
LEMMA NoMessages ==
    SumOf([i \in DOMAIN <<>> |-> ValuesOf(<<>>[i])]) = 0
  <1> DEFINE values == [i \in DOMAIN <<>> |-> ValuesOf(<<>>[i])]
  <1>1. values \in Seq(Nat) /\ Len(values) = 0
    OBVIOUS
  <1> HIDE DEF values
  <1>2. PICK h \in [0..0 -> Nat] : h[0] = 0 /\ SumOf(values) = h[0]
    BY <1>1, SumSteps
  <1> QED
    BY <1>2 DEF values

\* Each value of a record is taken or counted.
LEMMA RecordCounts ==
    ASSUME NEW record, IsRecord(record)
    PROVE /\ NormalizeRecord(record) \in Normalized
          /\ Values(record) \in Nat
          /\ Counted(NormalizeRecord(record)) >= Values(record)
  <1> DEFINE D == DOMAIN record
             p1 == UnknownFields(record, TopLevelFields)
             p2 == Field(record, "Timestamp", normalizeTimestamp)
             p3 == Field(record, "BlobfuseStats", normalizeBlobfuseStats)
             p4 == Field(record, "FileCache", normalizeUnsupportedArray)
             p5 == Field(record, "CPUUsage", normalizeUnsupportedString)
             p6 == Field(record, "MemoryUsage", normalizeMemory)
             p7 == Field(record, "NetworkUsage", normalizeUnsupportedString)
             v == NormalizeRecord(record)
             sum == SumOf([i \in DOMAIN Messages(record) |-> ValuesOf(Messages(record)[i])])
             E0 == D \ TopLevelFields
             E1 == E0 \cup ({"CPUUsage"} \cap D)
             E2 == E1 \cup ({"MemoryUsage"} \cap D)
             E3 == E2 \cup ({"NetworkUsage"} \cap D)
  <1>1. IsFiniteSet(D) /\ \A name \in D : IsValue(record[name], IsMessage)
    BY DEF IsRecord
  <1>2. p1 \in Normalized /\ Counted(p1) = Cardinality(E0)
    BY <1>1, UnknownCounts
  <1>3. p2 \in Normalized
    BY FieldIsNormalized
  <1>4. p3 \in Normalized /\ sum \in Nat /\ Counted(p3) >= sum
    <2>1. CASE "BlobfuseStats" \in D
      <3> DEFINE raw == record["BlobfuseStats"]
      <3>1. p3 = normalizeBlobfuseStats(raw)
        BY <2>1 DEF Field
      <3>2. p3 \in Normalized
        BY <1>1, <2>1, <3>1, StatsCount
      <3>3. CASE raw.type = "array"
        <4>1. Messages(record) = raw.elements
          BY <2>1, <3>3 DEF Messages
        <4> QED
          BY <1>1, <2>1, <3>1, <3>3, <4>1, StatsCount
      <3>4. CASE raw.type # "array"
        <4>1. Messages(record) = <<>>
          BY <3>4 DEF Messages
        <4> QED
          BY <3>2, <4>1, NoMessages, BothCounts
      <3> QED
        BY <3>3, <3>4
    <2>2. CASE "BlobfuseStats" \notin D
      <3>1. p3 = Nothing /\ Messages(record) = <<>>
        BY <2>2 DEF Field, Messages
      <3> QED
        BY <3>1, NoMessages, NothingCounts
    <2> QED
      BY <2>1, <2>2
  <1>5. p4 \in Normalized
    BY <1>1, ArrayCounts, NothingCounts DEF Field
  <1>6. p5 \in Normalized /\ ("CPUUsage" \in D => Counted(p5) = 1)
    BY StringCounts, NothingCounts DEF Field
  <1>7. p6 \in Normalized /\ ("MemoryUsage" \in D => Counted(p6) = 1)
    BY <1>1, MemoryCounts, NothingCounts DEF Field
  <1>8. p7 \in Normalized /\ ("NetworkUsage" \in D => Counted(p7) = 1)
    BY StringCounts, NothingCounts DEF Field
  <1>9. v = All(<<p1, p2, p3, p4, p5, p6, p7>>)
    BY DEF NormalizeRecord
  <1>10. Values(record) = Cardinality(E3) + sum
    <2>1. E3 = D \ {"Timestamp", "BlobfuseStats", "FileCache"}
      BY DEF TopLevelFields
    <2> HIDE DEF E3
    <2> QED
      BY <2>1 DEF Values
  <1> HIDE DEF p1, p2, p3, p4, p5, p6, p7, v, sum, D
  <1>11. IsFiniteSet(E0)
    BY <1>1, FS_Subset
  <1>12. /\ IsFiniteSet(E1) /\ Cardinality(E0) \in Nat /\ Cardinality(E1) \in Nat
         /\ Cardinality(E1) <= Cardinality(E0) + 1 /\ ("CPUUsage" \notin D => E1 = E0)
    <2> HIDE DEF E0
    <2> QED
      BY <1>11, OneMore
  <1>13. /\ IsFiniteSet(E2) /\ Cardinality(E2) \in Nat
         /\ Cardinality(E2) <= Cardinality(E1) + 1 /\ ("MemoryUsage" \notin D => E2 = E1)
    <2> HIDE DEF E1
    <2> QED
      BY <1>12, OneMore
  <1>14. /\ IsFiniteSet(E3) /\ Cardinality(E3) \in Nat
         /\ Cardinality(E3) <= Cardinality(E2) + 1 /\ ("NetworkUsage" \notin D => E3 = E2)
    <2> HIDE DEF E2
    <2> QED
      BY <1>13, OneMore
  <1> HIDE DEF E0, E1, E2, E3
  <1>15. /\ Counted(p1) \in Nat /\ Counted(p2) \in Nat /\ Counted(p3) \in Nat
         /\ Counted(p4) \in Nat /\ Counted(p5) \in Nat /\ Counted(p6) \in Nat
         /\ Counted(p7) \in Nat
    BY <1>2, <1>3, <1>4, <1>5, <1>6, <1>7, <1>8, BothCounts
  <1>16. Cardinality(E3) <= Counted(p1) + Counted(p5) + Counted(p6) + Counted(p7)
    <2>1. Cardinality(E1) <= Cardinality(E0) + Counted(p5)
      BY <1>6, <1>12, <1>15
    <2>2. Cardinality(E2) <= Cardinality(E1) + Counted(p6)
      BY <1>7, <1>12, <1>13, <1>15
    <2>3. Cardinality(E3) <= Cardinality(E2) + Counted(p7)
      BY <1>8, <1>13, <1>14, <1>15
    <2> QED
      BY <1>2, <1>12, <1>13, <1>14, <1>15, <2>1, <2>2, <2>3
  <1> DEFINE parts == <<p1, p2, p3, p4, p5, p6, p7>>
  <1>17. /\ parts \in Seq(Normalized) /\ Len(parts) = 7
         /\ parts[1] = p1 /\ parts[2] = p2 /\ parts[3] = p3 /\ parts[4] = p4
         /\ parts[5] = p5 /\ parts[6] = p6 /\ parts[7] = p7
    <2>1. /\ p1 \in Normalized /\ p2 \in Normalized /\ p3 \in Normalized
          /\ p4 \in Normalized /\ p5 \in Normalized /\ p6 \in Normalized /\ p7 \in Normalized
      BY <1>2, <1>3, <1>4, <1>5, <1>6, <1>7, <1>8
    <2> QED
      BY <2>1
  <1>18. v = All(parts)
    BY <1>9
  <1> HIDE DEF parts
  <1>19. PICK s \in [0..Len(parts) -> Nat] :
             /\ s[0] = 0
             /\ \A k \in 1..Len(parts) : s[k] = s[k - 1] + Counted(parts[k])
             /\ Counted(All(parts)) = s[Len(parts)]
    BY <1>17, AllCounts
  <1>20. /\ s[0] = 0 /\ s[1] = s[0] + Counted(p1) /\ s[2] = s[1] + Counted(p2)
         /\ s[3] = s[2] + Counted(p3) /\ s[4] = s[3] + Counted(p4)
         /\ s[5] = s[4] + Counted(p5) /\ s[6] = s[5] + Counted(p6)
         /\ s[7] = s[6] + Counted(p7) /\ Counted(All(parts)) = s[7]
    BY <1>17, <1>19
  <1>21. Counted(v) = Counted(p1) + Counted(p2) + Counted(p3) + Counted(p4) + Counted(p5)
                      + Counted(p6) + Counted(p7)
    BY <1>15, <1>18, <1>20
  <1>22. v \in Normalized
    BY <1>17, <1>18, AllCounts
  <1>23. Values(record) \in Nat /\ Counted(v) >= Values(record)
    <2> DEFINE n1 == Counted(p1)
               n2 == Counted(p2)
               n3 == Counted(p3)
               n4 == Counted(p4)
               n5 == Counted(p5)
               n6 == Counted(p6)
               n7 == Counted(p7)
               known == Cardinality(E3)
               held == Values(record)
               counted == Counted(v)
    <2>1. /\ n1 \in Nat /\ n2 \in Nat /\ n3 \in Nat /\ n4 \in Nat
          /\ n5 \in Nat /\ n6 \in Nat /\ n7 \in Nat
      BY <1>15
    <2>2. known \in Nat /\ sum \in Nat /\ held = known + sum
      BY <1>4, <1>10, <1>14
    <2>3. known <= n1 + n5 + n6 + n7 /\ n3 >= sum
      BY <1>4, <1>16
    <2>4. counted = n1 + n2 + n3 + n4 + n5 + n6 + n7
      BY <1>21
    <2> HIDE DEF n1, n2, n3, n4, n5, n6, n7, known, held, counted
    <2>5. held \in Nat /\ counted >= held
      BY <2>1, <2>2, <2>3, <2>4
    <2> QED
      BY <2>5 DEF held, counted
  <1> QED
    BY <1>22, <1>23 DEF v

-----------------------------------------------------------------------------
\* The state of the metrics and the recorder.

\* the functions from some elements of S to V
Maps(S, V) == UNION {[D -> V] : D \in SUBSET S}

\* What it is to be one of them.
LEMMA MapsOf ==
    ASSUME NEW S, NEW V, NEW map
    PROVE map \in Maps(S, V) <=>
              /\ DOMAIN map \subseteq S
              /\ map = [x \in DOMAIN map |-> map[x]]
              /\ \A x \in DOMAIN map : map[x] \in V
  <1>1. ASSUME map \in Maps(S, V)
        PROVE /\ DOMAIN map \subseteq S
              /\ map = [x \in DOMAIN map |-> map[x]]
              /\ \A x \in DOMAIN map : map[x] \in V
    <2>1. PICK D \in SUBSET S : map \in [D -> V]
      BY <1>1 DEF Maps
    <2> QED
      BY <2>1
  <1>2. ASSUME /\ DOMAIN map \subseteq S
               /\ map = [x \in DOMAIN map |-> map[x]]
               /\ \A x \in DOMAIN map : map[x] \in V
        PROVE map \in Maps(S, V)
    <2>1. map \in [DOMAIN map -> V]
      BY <1>2
    <2> QED
      BY <1>2, <2>1 DEF Maps
  <1> QED
    BY <1>1, <1>2

\* Setting a key keeps the type, and every other key its value.
LEMMA PutIsMap ==
    ASSUME NEW S, NEW V, NEW map \in Maps(S, V), NEW key \in S, NEW value \in V
    PROVE /\ Put(map, key, value) \in Maps(S, V)
          /\ DOMAIN Put(map, key, value) = DOMAIN map \cup {key}
          /\ Put(map, key, value)[key] = value
          /\ \A x \in DOMAIN map : x # key => Put(map, key, value)[x] = map[x]
  <1> DEFINE D == DOMAIN map \cup {key}
             put == [x \in D |-> IF x = key THEN value ELSE map[x]]
  <1>1. Put(map, key, value) = put
    BY DEF Put
  <1>2. DOMAIN map \subseteq S /\ \A x \in DOMAIN map : map[x] \in V
    BY MapsOf
  <1>3. D \in SUBSET S /\ put \in [D -> V]
    BY <1>2
  <1>4. put \in Maps(S, V)
    BY <1>3 DEF Maps
  <1> QED
    BY <1>1, <1>4

\* The empty map is of every type.
LEMMA EmptyIsMap == ASSUME NEW S, NEW V PROVE Empty \in Maps(S, V)
  <1>1. DOMAIN Empty = {} /\ Empty = [x \in DOMAIN Empty |-> Empty[x]]
    BY DEF Empty
  <1> QED
    BY <1>1, MapsOf

\* The recorder has an instrument for each metric.
LEMMA EveryMetricIsRepresented ==
    \A m \in Metric : \E s \in representativeSeries : s.metric = m
  <1> DEFINE Has(m) == \E s \in representativeSeries : s.metric = m
  <1>1. Has("StorageIO")
    <2> DEFINE s == [Plain("StorageIO") EXCEPT !.direction = "read"]
    <2>1. s \in representativeSeries /\ s.metric = "StorageIO"
      BY DEF representativeSeries, Plain
    <2> QED
      BY <2>1
  <1>2. Has("FSOperations")
    <2> DEFINE s == [Plain("FSOperations") EXCEPT !.operation = "CreateFile"]
    <2>1. s \in representativeSeries /\ s.metric = "FSOperations"
      BY DEF representativeSeries, Plain
    <2> QED
      BY <2>1
  <1>3. Has("OpenFiles")
    <2>1. OpenFiles("libfuse") \in representativeSeries /\ OpenFiles("libfuse").metric = "OpenFiles"
      BY DEF representativeSeries, Plain, OpenFiles
    <2> QED
      BY <2>1
  <1>4. ASSUME NEW m \in {"CacheDownloads", "CacheHits", "CacheUsage", "CacheUtilization",
                          "MemoryVirtual"}
        PROVE Has(m)
    <2>1. Plain(m) \in representativeSeries /\ Plain(m).metric = m
      BY DEF representativeSeries, Plain
    <2> QED
      BY <2>1
  <1> HIDE DEF Has
  <1>5. \A m \in Metric : Has(m)
    BY <1>1, <1>2, <1>3, <1>4 DEF Metric
  <1> QED
    BY <1>5 DEF Has

\* What the normalizer makes of counters has a counter and attributes.
LEMMA CountersAreRecordable ==
    ASSUME NEW s \in CounterSeries
    PROVE Recordable(s, CounterName)
  <1>1. /\ s.metric \in {"StorageIO", "FSOperations", "CacheDownloads", "CacheHits"}
        /\ Describable(s)
    <2>1. CASE s \in {AzStorageCounters[n] : n \in DOMAIN AzStorageCounters}
      BY <2>1 DEF AzStorageCounters, Plain, Describable, Direction
    <2>2. CASE s \in {LibfuseCounters[n] : n \in Operation}
      <3>1. PICK n \in Operation : s = LibfuseCounters[n]
        BY <2>2
      <3>2. s = [Plain("FSOperations") EXCEPT !.operation = n]
        BY <3>1 DEF LibfuseCounters
      <3> QED
        BY <3>2 DEF Plain, Describable
    <2>3. CASE s \in {FileCacheCounters[n] : n \in DOMAIN FileCacheCounters}
      <3>1. s = Plain("CacheDownloads") \/ s = Plain("CacheHits")
        BY <2>3 DEF FileCacheCounters
      <3> QED
        BY <3>1 DEF Plain, Describable
    <2> QED
      BY <2>1, <2>2, <2>3 DEF CounterSeries
  <1>2. s.metric \in Metric /\ s.metric \in DOMAIN CounterName
    BY <1>1 DEF Metric, CounterName
  <1>3. s.metric \in Instruments(CounterName)
    BY <1>2, EveryMetricIsRepresented DEF Instruments
  <1> QED
    BY <1>1, <1>3 DEF Recordable

\* And what it makes of gauges can be observed.
LEMMA GaugesAreObservable ==
    ASSUME NEW s \in GaugeSeries
    PROVE Observable(s)
  <1>1. /\ s.metric \in {"OpenFiles", "CacheUsage", "CacheUtilization", "MemoryVirtual"}
        /\ Describable(s)
    <2>1. CASE s \in {OpenFiles(c) : c \in Component}
      <3>1. PICK c \in Component : s = OpenFiles(c)
        BY <2>1
      <3> QED
        BY <3>1 DEF OpenFiles, Plain, Describable
    <2>2. CASE s \in {FileCacheGauges[n] : n \in DOMAIN FileCacheGauges}
      <3>1. s = Plain("CacheUsage") \/ s = Plain("CacheUtilization")
        BY <2>2 DEF FileCacheGauges
      <3> QED
        BY <3>1 DEF Plain, Describable
    <2>3. CASE s = MemoryVirtual
      BY <2>3 DEF MemoryVirtual, Plain, Describable
    <2> QED
      BY <2>1, <2>2, <2>3 DEF GaugeSeries
  <1>2. s.metric \in Metric /\ s.metric \in DOMAIN GaugeName \cup DOMAIN UpDownCounterName
    BY <1>1 DEF Metric, GaugeName, UpDownCounterName
  <1>3. s.metric \in Instruments(GaugeName) \cup Instruments(UpDownCounterName)
    BY <1>2, EveryMetricIsRepresented DEF Instruments
  <1> QED
    BY <1>1, <1>3 DEF Observable, Recordable

Baselines == Maps(CounterSeries, 0..MaxExact)
Increment == [series : CounterSeries, delta : 1..MaxExact]
Applied == [baselines : Baselines, increments : Seq(Increment)]

\* Applying a counter keeps baselines and increments in range (State.applyCounter).
LEMMA ApplyCounterType ==
    ASSUME NEW live \in BOOLEAN, NEW result \in Applied, NEW counter \in CounterUpdate
    PROVE ApplyCounter(live, result, counter) \in Applied
  <1> DEFINE series == counter.series
             value == counter.value
             put == Put(result.baselines, series, value)
             applied == ApplyCounter(live, result, counter)
  <1>1. series \in CounterSeries /\ value \in 0..MaxExact
    BY DEF CounterUpdate
  <1>2. result.baselines \in Baselines /\ result.increments \in Seq(Increment)
    BY DEF Applied
  <1>3. put \in Baselines
    BY <1>1, <1>2, PutIsMap DEF Baselines
  <1>4. CASE live /\ series \in DOMAIN result.baselines /\ value > result.baselines[series]
    <2> DEFINE d == [series |-> series, delta |-> value - result.baselines[series]]
    <2>1. applied = [baselines |-> put, increments |-> Append(result.increments, d)]
      BY <1>4 DEF ApplyCounter
    <2>2. result.baselines[series] \in 0..MaxExact
      BY <1>2, <1>4, MapsOf DEF Baselines
    <2>3. value - result.baselines[series] \in 1..MaxExact
      <3> HIDE DEF series, value
      <3> QED
        BY <1>1, <1>4, <2>2, MaxExactAssumption
    <2>4. d \in Increment
      BY <1>1, <2>3 DEF Increment
    <2>5. Append(result.increments, d) \in Seq(Increment)
      <3> HIDE DEF d
      <3> QED
        BY <1>2, <2>4
    <2> HIDE DEF put, d, applied
    <2>6. applied \in Applied
      BY <1>3, <2>1, <2>5 DEF Applied
    <2> QED
      BY <2>6 DEF applied
  <1>5. CASE ~(live /\ series \in DOMAIN result.baselines /\ value > result.baselines[series])
    <2>1. applied = [baselines |-> put, increments |-> result.increments]
      BY <1>5 DEF ApplyCounter
    <2> HIDE DEF put, applied
    <2>2. applied \in Applied
      BY <1>2, <1>3, <2>1 DEF Applied
    <2> QED
      BY <2>2 DEF applied
  <1> QED
    BY <1>4, <1>5

\* ApplyCounters applies the counters one by one.
LEMMA ApplyCountersSteps ==
    ASSUME NEW live \in BOOLEAN, NEW counters \in Seq(CounterUpdate), counterBaselines \in Baselines
    PROVE \E h \in [0..Len(counters) -> Applied] :
              /\ h[0] = [baselines |-> counterBaselines, increments |-> <<>>]
              /\ \A k \in 1..Len(counters) : h[k] = ApplyCounter(live, h[k - 1], counters[k])
              /\ ApplyCounters(live, counters) = h[Len(counters)]
  <1> DEFINE n == Len(counters)
             start == [baselines |-> counterBaselines, increments |-> <<>>]
             F == [step \in (1..n) \X Applied |-> ApplyCounter(live, step[2], counters[step[1]])]
             Body(f, s) == IF s = {} THEN start ELSE ApplyCounter(live, f[s \ {Max(s)}], counters[Max(s)])
             it == CHOOSE f : f = [s \in SUBSET (1..n) |-> Body(f, s)]
  <1>1. n \in Nat /\ DOMAIN counters = 1..n /\ \A i \in 1..n : counters[i] \in CounterUpdate
    OBVIOUS
  <1>2. ApplyCounters(live, counters) = it[1..n]
    <2>1. ApplyCounters(live, counters) = (CHOOSE f : f = [s \in SUBSET (DOMAIN counters) |-> Body(f, s)])[DOMAIN counters]
      BY Zenon DEF ApplyCounters, FoldLeft, MapThenFoldSet
    <2> QED
      BY <1>1, <2>1, Zenon
  <1>3. \A i \in 1..n, x \in Applied :
            /\ F[<<i, x>>] = ApplyCounter(live, x, counters[i])
            /\ F[<<i, x>>] \in Applied
    BY <1>1, ApplyCounterType
  <1>4. start \in Applied
    BY DEF Applied
  <1> HIDE DEF n, start
  <1>5. StaysIn(Applied, n, F)
    <2> HIDE DEF F
    <2> QED
      BY <1>3 DEF StaysIn
  <1>6. PICK f : Iterates(f, n, Applied, start, F)
    <2> HIDE DEF F
    <2> QED
      BY <1>1, <1>4, <1>5, FoldIterates
  <1>7. ASSUME NEW s \in SUBSET (1..n) PROVE f[s] = Body(f, s)
    <2>1. CASE s # {}
      <3>1. Max(s) \in 1..n /\ s \ {Max(s)} \in SUBSET (1..n)
        BY <1>1, <2>1, MaxOfPositions
      <3>2. f[s \ {Max(s)}] \in Applied
        BY <1>6, <3>1 DEF Iterates
      <3>3. f[s] = F[<<Max(s), f[s \ {Max(s)}]>>]
        BY <1>6, <2>1 DEF Iterates
      <3> HIDE DEF F
      <3> QED
        BY <1>3, <2>1, <3>1, <3>2, <3>3
    <2>2. CASE s = {}
      BY <1>6, <2>2 DEF Iterates
    <2> QED
      BY <2>1, <2>2
  <1>8. f = [s \in SUBSET (1..n) |-> Body(f, s)]
    <2>1. f \in [SUBSET (1..n) -> Applied]
      BY <1>6 DEF Iterates
    <2> QED
      BY <1>7, <2>1
  <1>9. it = [s \in SUBSET (1..n) |-> Body(it, s)]
    BY <1>8, Zenon
  <1>10. it[{}] = start
    BY <1>9
  <1>11. ASSUME NEW k \in 1..n, it[1..(k - 1)] \in Applied
         PROVE it[1..k] = F[<<k, it[1..(k - 1)]>>]
    <2>1. /\ 1..k \in SUBSET (1..n) /\ 1..k # {} /\ Max(1..k) = k
          /\ (1..k) \ {k} = 1..(k - 1)
      BY <1>1, PositionsBefore
    <2>2. it[1..k] = ApplyCounter(live, it[1..(k - 1)], counters[k])
      BY <1>9, <2>1, Zenon
    <2> QED
      BY <1>3, <1>11, <2>2, Zenon
  <1>12. PICK h : StepsThrough(h, n, Applied, start, F) /\ it[1..n] = h[n]
    <2> HIDE DEF F, it
    <2>1. Accumulates(it, n, Applied, start, F)
      BY <1>10, <1>11 DEF Accumulates
    <2> QED
      BY <2>1, <1>1, <1>4, <1>5, FoldSteps
  <1>13. ASSUME NEW k \in 1..n PROVE h[k] = ApplyCounter(live, h[k - 1], counters[k])
    <2>1. k - 1 \in 0..n
      BY <1>1
    <2>2. h[k - 1] \in Applied
      BY <1>12, <2>1 DEF StepsThrough
    <2>3. h[k] = F[<<k, h[k - 1]>>]
      BY <1>12 DEF StepsThrough
    <2> HIDE DEF F
    <2> QED
      BY <1>1, <1>3, <2>2, <2>3
  <1> HIDE DEF it
  <1> QED
    BY <1>2, <1>12, <1>13 DEF n, start, StepsThrough

\* Setting a gauge keeps the gauges those of the tables (State.Apply).
LEMMA ApplyGaugesType ==
    ASSUME NEW result \in Maps(GaugeSeries, Int \X Int), NEW gauge \in GaugeUpdate
    PROVE Put(result, gauge.series, gauge.value) \in Maps(GaugeSeries, Int \X Int)
  BY PutIsMap DEF GaugeUpdate

Gauges == Maps(GaugeSeries, Int \X Int)

\* ApplyGauges sets the gauges one by one.
LEMMA ApplyGaugesSteps ==
    ASSUME NEW updates \in Seq(GaugeUpdate), gauges \in Gauges
    PROVE \E h \in [0..Len(updates) -> Gauges] :
              /\ h[0] = gauges
              /\ \A k \in 1..Len(updates) : h[k] = Put(h[k - 1], updates[k].series, updates[k].value)
              /\ ApplyGauges(updates) = h[Len(updates)]
  <1> DEFINE n == Len(updates)
             start == gauges
             F == [step \in (1..n) \X Gauges |-> Put(step[2], updates[step[1]].series, updates[step[1]].value)]
             Body(f, s) == IF s = {} THEN start ELSE Put(f[s \ {Max(s)}], updates[Max(s)].series, updates[Max(s)].value)
             it == CHOOSE f : f = [s \in SUBSET (1..n) |-> Body(f, s)]
  <1>1. n \in Nat /\ DOMAIN updates = 1..n /\ \A i \in 1..n : updates[i] \in GaugeUpdate
    OBVIOUS
  <1>2. ApplyGauges(updates) = it[1..n]
    <2>1. ApplyGauges(updates) = (CHOOSE f : f = [s \in SUBSET (DOMAIN updates) |-> Body(f, s)])[DOMAIN updates]
      BY Zenon DEF ApplyGauges, FoldLeft, MapThenFoldSet
    <2> QED
      BY <1>1, <2>1, Zenon
  <1>3. \A i \in 1..n, x \in Gauges :
            /\ F[<<i, x>>] = Put(x, updates[i].series, updates[i].value)
            /\ F[<<i, x>>] \in Gauges
    BY <1>1, ApplyGaugesType DEF Gauges
  <1>4. start \in Gauges
    OBVIOUS
  <1> HIDE DEF n, start
  <1>5. StaysIn(Gauges, n, F)
    <2> HIDE DEF F
    <2> QED
      BY <1>3 DEF StaysIn
  <1>6. PICK f : Iterates(f, n, Gauges, start, F)
    <2> HIDE DEF F
    <2> QED
      BY <1>1, <1>4, <1>5, FoldIterates
  <1>7. ASSUME NEW s \in SUBSET (1..n) PROVE f[s] = Body(f, s)
    <2>1. CASE s # {}
      <3>1. Max(s) \in 1..n /\ s \ {Max(s)} \in SUBSET (1..n)
        BY <1>1, <2>1, MaxOfPositions
      <3>2. f[s \ {Max(s)}] \in Gauges
        BY <1>6, <3>1 DEF Iterates
      <3>3. f[s] = F[<<Max(s), f[s \ {Max(s)}]>>]
        BY <1>6, <2>1 DEF Iterates
      <3> HIDE DEF F
      <3> QED
        BY <1>3, <2>1, <3>1, <3>2, <3>3
    <2>2. CASE s = {}
      BY <1>6, <2>2 DEF Iterates
    <2> QED
      BY <2>1, <2>2
  <1>8. f = [s \in SUBSET (1..n) |-> Body(f, s)]
    <2>1. f \in [SUBSET (1..n) -> Gauges]
      BY <1>6 DEF Iterates
    <2> QED
      BY <1>7, <2>1
  <1>9. it = [s \in SUBSET (1..n) |-> Body(it, s)]
    BY <1>8, Zenon
  <1>10. it[{}] = start
    BY <1>9
  <1>11. ASSUME NEW k \in 1..n, it[1..(k - 1)] \in Gauges
         PROVE it[1..k] = F[<<k, it[1..(k - 1)]>>]
    <2>1. /\ 1..k \in SUBSET (1..n) /\ 1..k # {} /\ Max(1..k) = k
          /\ (1..k) \ {k} = 1..(k - 1)
      BY <1>1, PositionsBefore
    <2>2. it[1..k] = Put(it[1..(k - 1)], updates[k].series, updates[k].value)
      BY <1>9, <2>1, Zenon
    <2> QED
      BY <1>3, <1>11, <2>2, Zenon
  <1>12. PICK h : StepsThrough(h, n, Gauges, start, F) /\ it[1..n] = h[n]
    <2> HIDE DEF F, it
    <2>1. Accumulates(it, n, Gauges, start, F)
      BY <1>10, <1>11 DEF Accumulates
    <2> QED
      BY <2>1, <1>1, <1>4, <1>5, FoldSteps
  <1>13. ASSUME NEW k \in 1..n PROVE h[k] = Put(h[k - 1], updates[k].series, updates[k].value)
    <2>1. k - 1 \in 0..n
      BY <1>1
    <2>2. h[k - 1] \in Gauges
      BY <1>12, <2>1 DEF StepsThrough
    <2>3. h[k] = F[<<k, h[k - 1]>>]
      BY <1>12 DEF StepsThrough
    <2> HIDE DEF F
    <2> QED
      BY <1>1, <1>3, <2>2, <2>3
  <1> HIDE DEF it
  <1> QED
    BY <1>2, <1>12, <1>13 DEF n, start, StepsThrough

Described == {DescribeSeries(s) : s \in CounterSeries}
Overflow(point) == <<point[1], <<"otel.metric.overflow", "true">>>>
Points == Described \cup {Overflow(p) : p \in Described}
Sums64 == Maps(Points, (-Int64Limit)..(Int64Limit - 1))
Recorded == [sums : Sums64, dropped : {0}]

\* A conversion to int64 stays in its range.
LEMMA Int64Type ==
    ASSUME NEW n \in Int
    PROVE Int64(n) \in (-Int64Limit)..(Int64Limit - 1)
  <1> DEFINE m == 2 * Int64Limit
             u == n % m
  <1>1. m \in Nat /\ m > 0 /\ Int64Limit \in Nat
    BY MaxExactAssumption
  <1> HIDE DEF m
  <1>2. u \in 0..(m - 1)
    BY <1>1
  <1>3. Int64(n) = IF u < Int64Limit THEN u ELSE u - m
    BY DEF Int64, Uint64, m
  <1> HIDE DEF u
  <1> QED
    BY <1>1, <1>2, <1>3 DEF m

\* Recording an increment keeps the sums in range and drops none (OTelRecorder.Record).
LEMMA RecordIncrementType ==
    ASSUME NEW result \in Recorded, NEW increment \in Increment
    PROVE RecordIncrement(result, increment) \in Recorded
  <1> DEFINE series == increment.series
             key == DescribeSeries(series)
             point == PointOf(result.sums, key)
             sum == Int64(Value(result.sums, point) + Int64(increment.delta))
  <1>1. series \in CounterSeries /\ increment.delta \in Nat
    BY MaxExactAssumption DEF Increment
  <1>2. result.sums \in Sums64 /\ result.dropped = 0
    BY DEF Recorded
  <1>3. point \in Points
    BY <1>1 DEF PointOf, Points, Overflow, Described
  <1>4. Value(result.sums, point) \in Int
    <2> HIDE DEF point
    <2>1. CASE point \in DOMAIN result.sums
      BY <1>2, <2>1, MapsOf, MaxExactAssumption DEF Sums64, Value
    <2>2. CASE point \notin DOMAIN result.sums
      BY <2>2 DEF Value
    <2> QED
      BY <2>1, <2>2
  <1>5. sum \in (-Int64Limit)..(Int64Limit - 1)
    <2>1. Int64(increment.delta) \in Int
      BY <1>1, Int64Type, MaxExactAssumption
    <2> QED
      BY <1>4, <2>1, Int64Type
  <1>6. RecordIncrement(result, increment) = [result EXCEPT !.sums = Put(result.sums, point, sum)]
    BY <1>1, CountersAreRecordable DEF RecordIncrement, Add
  <1>7. Put(result.sums, point, sum) \in Sums64
    <2> HIDE DEF point, sum
    <2> QED
      BY <1>2, <1>3, <1>5, PutIsMap DEF Sums64
  <1> HIDE DEF point, sum
  <1> QED
    BY <1>6, <1>7 DEF Recorded

\* Record adds the increments one by one.
LEMMA RecordSteps ==
    ASSUME NEW increments \in Seq(Increment), cumulative \in Sums64, droppedInvalidSeries = 0
    PROVE \E h \in [0..Len(increments) -> Recorded] :
              /\ h[0] = [sums |-> cumulative, dropped |-> droppedInvalidSeries]
              /\ \A k \in 1..Len(increments) : h[k] = RecordIncrement(h[k - 1], increments[k])
              /\ Record(increments) = h[Len(increments)]
  <1> DEFINE n == Len(increments)
             start == [sums |-> cumulative, dropped |-> droppedInvalidSeries]
             F == [step \in (1..n) \X Recorded |-> RecordIncrement(step[2], increments[step[1]])]
             Body(f, s) == IF s = {} THEN start ELSE RecordIncrement(f[s \ {Max(s)}], increments[Max(s)])
             it == CHOOSE f : f = [s \in SUBSET (1..n) |-> Body(f, s)]
  <1>1. n \in Nat /\ DOMAIN increments = 1..n /\ \A i \in 1..n : increments[i] \in Increment
    OBVIOUS
  <1>2. Record(increments) = it[1..n]
    <2>1. Record(increments) = (CHOOSE f : f = [s \in SUBSET (DOMAIN increments) |-> Body(f, s)])[DOMAIN increments]
      BY Zenon DEF Record, FoldLeft, MapThenFoldSet
    <2> QED
      BY <1>1, <2>1, Zenon
  <1>3. \A i \in 1..n, x \in Recorded :
            /\ F[<<i, x>>] = RecordIncrement(x, increments[i])
            /\ F[<<i, x>>] \in Recorded
    BY <1>1, RecordIncrementType
  <1>4. start \in Recorded
    BY DEF Recorded
  <1> HIDE DEF n, start
  <1>5. StaysIn(Recorded, n, F)
    <2> HIDE DEF F
    <2> QED
      BY <1>3 DEF StaysIn
  <1>6. PICK f : Iterates(f, n, Recorded, start, F)
    <2> HIDE DEF F
    <2> QED
      BY <1>1, <1>4, <1>5, FoldIterates
  <1>7. ASSUME NEW s \in SUBSET (1..n) PROVE f[s] = Body(f, s)
    <2>1. CASE s # {}
      <3>1. Max(s) \in 1..n /\ s \ {Max(s)} \in SUBSET (1..n)
        BY <1>1, <2>1, MaxOfPositions
      <3>2. f[s \ {Max(s)}] \in Recorded
        BY <1>6, <3>1 DEF Iterates
      <3>3. f[s] = F[<<Max(s), f[s \ {Max(s)}]>>]
        BY <1>6, <2>1 DEF Iterates
      <3> HIDE DEF F
      <3> QED
        BY <1>3, <2>1, <3>1, <3>2, <3>3
    <2>2. CASE s = {}
      BY <1>6, <2>2 DEF Iterates
    <2> QED
      BY <2>1, <2>2
  <1>8. f = [s \in SUBSET (1..n) |-> Body(f, s)]
    <2>1. f \in [SUBSET (1..n) -> Recorded]
      BY <1>6 DEF Iterates
    <2> QED
      BY <1>7, <2>1
  <1>9. it = [s \in SUBSET (1..n) |-> Body(it, s)]
    BY <1>8, Zenon
  <1>10. it[{}] = start
    BY <1>9
  <1>11. ASSUME NEW k \in 1..n, it[1..(k - 1)] \in Recorded
         PROVE it[1..k] = F[<<k, it[1..(k - 1)]>>]
    <2>1. /\ 1..k \in SUBSET (1..n) /\ 1..k # {} /\ Max(1..k) = k
          /\ (1..k) \ {k} = 1..(k - 1)
      BY <1>1, PositionsBefore
    <2>2. it[1..k] = RecordIncrement(it[1..(k - 1)], increments[k])
      BY <1>9, <2>1, Zenon
    <2> QED
      BY <1>3, <1>11, <2>2, Zenon
  <1>12. PICK h : StepsThrough(h, n, Recorded, start, F) /\ it[1..n] = h[n]
    <2> HIDE DEF F, it
    <2>1. Accumulates(it, n, Recorded, start, F)
      BY <1>10, <1>11 DEF Accumulates
    <2> QED
      BY <2>1, <1>1, <1>4, <1>5, FoldSteps
  <1>13. ASSUME NEW k \in 1..n PROVE h[k] = RecordIncrement(h[k - 1], increments[k])
    <2>1. k - 1 \in 0..n
      BY <1>1
    <2>2. h[k - 1] \in Recorded
      BY <1>12, <2>1 DEF StepsThrough
    <2>3. h[k] = F[<<k, h[k - 1]>>]
      BY <1>12 DEF StepsThrough
    <2> HIDE DEF F
    <2> QED
      BY <1>1, <1>3, <2>2, <2>3
  <1> HIDE DEF it
  <1> QED
    BY <1>2, <1>12, <1>13 DEF n, start, StepsThrough

-----------------------------------------------------------------------------
\* The invariant.

(***************************************************************************)
(* What every state has: values of the series of the tables, in range.     *)
(***************************************************************************)
ExportInv ==
    /\ mode \in {"baseline", "live", "ended"} /\ records \in 0..MaxRecords
    /\ counterBaselines \in Baselines /\ gauges \in Gauges /\ cumulative \in Sums64
    /\ droppedInvalidSeries = 0
    /\ vanished = FALSE

\* It holds at the start.
LEMMA ExportInvInit == ExportInit => ExportInv
  BY EmptyIsMap, MaxRecordsAssumption DEF ExportInit, ExportInv, Baselines, Gauges, Sums64

\* A record keeps it: NormalizeRecord counts each value, and the state and the
\* recorder have a series for each update (Processor.Process).
LEMMA ProcessKeepsInv ==
    ASSUME ExportInv, NEW record \in SourceRecords, Process(record)
    PROVE ExportInv'
  <1> DEFINE normalized == NormalizeRecord(record)
             applied == ApplyCounters(mode = "live", normalized.counters)
             recorded == Record(applied.increments)
  <1>1. /\ counterBaselines' = applied.baselines /\ gauges' = ApplyGauges(normalized.gauges)
        /\ cumulative' = recorded.sums /\ droppedInvalidSeries' = recorded.dropped
        /\ vanished' = (vanished \/ Counted(normalized) < Values(record))
    BY DEF Process
  <1>2. mode' = mode /\ records' \in 0..MaxRecords
    BY MaxRecordsAssumption DEF Process, ExportInv
  <1>3. IsRecord(record)
    BY SourceRecordsAssumption
  <1>4. /\ normalized \in Normalized /\ Values(record) \in Nat
        /\ Counted(normalized) >= Values(record) /\ Counted(normalized) \in Nat
    BY <1>3, RecordCounts, BothCounts
  <1> HIDE DEF normalized
  <1>5. normalized.counters \in Seq(CounterUpdate) /\ normalized.gauges \in Seq(GaugeUpdate)
    BY <1>4 DEF Normalized
  <1>6. applied \in Applied
    <2>1. (mode = "live") \in BOOLEAN /\ counterBaselines \in Baselines
      BY DEF ExportInv
    <2> DEFINE counters == normalized.counters
               live == mode = "live"
    <2> HIDE DEF counters, live
    <2>2. PICK h \in [0..Len(counters) -> Applied] :
              ApplyCounters(live, counters) = h[Len(counters)]
      BY <1>5, <2>1, ApplyCountersSteps DEF counters, live
    <2>3. Len(counters) \in 0..Len(counters)
      BY <1>5 DEF counters
    <2>4. ApplyCounters(live, counters) \in Applied
      BY <2>2, <2>3
    <2> QED
      BY <2>4 DEF counters, live
  <1> HIDE DEF applied
  <1>7. applied.baselines \in Baselines /\ applied.increments \in Seq(Increment)
    BY <1>6 DEF Applied
  <1>8. recorded \in Recorded
    <2> DEFINE increments == applied.increments
    <2>1. increments \in Seq(Increment) /\ cumulative \in Sums64 /\ droppedInvalidSeries = 0
      BY <1>7 DEF ExportInv
    <2> HIDE DEF increments
    <2>2. PICK h \in [0..Len(increments) -> Recorded] : Record(increments) = h[Len(increments)]
      BY <2>1, RecordSteps
    <2>3. Len(increments) \in 0..Len(increments)
      BY <2>1
    <2>4. Record(increments) \in Recorded
      BY <2>2, <2>3
    <2> QED
      BY <2>4 DEF increments
  <1> HIDE DEF recorded
  <1>9. ApplyGauges(normalized.gauges) \in Gauges
    <2> DEFINE updates == normalized.gauges
    <2>1. updates \in Seq(GaugeUpdate) /\ gauges \in Gauges
      BY <1>5 DEF ExportInv
    <2> HIDE DEF updates
    <2>2. PICK h \in [0..Len(updates) -> Gauges] : ApplyGauges(updates) = h[Len(updates)]
      BY <2>1, ApplyGaugesSteps
    <2>3. Len(updates) \in 0..Len(updates)
      BY <2>1
    <2> QED
      BY <2>2, <2>3 DEF updates
  <1>10. recorded.sums \in Sums64 /\ recorded.dropped = 0
    BY <1>8 DEF Recorded
  <1>11. vanished' = FALSE
    <2> DEFINE counted == Counted(normalized)
               held == Values(record)
    <2>1. counted \in Nat /\ held \in Nat /\ counted >= held
      BY <1>4
    <2> HIDE DEF counted, held
    <2>2. ~(counted < held)
      BY <2>1
    <2>3. vanished = FALSE
      BY DEF ExportInv
    <2> QED
      BY <1>1, <2>2, <2>3, Zenon DEF counted, held
  <1> QED
    BY <1>1, <1>2, <1>7, <1>9, <1>10, <1>11 DEF ExportInv

\* A collection of gauges drops none of them.
LEMMA CollectDropsNone ==
    ASSUME ExportInv
    PROVE Cardinality({s \in DOMAIN gauges : ~Observable(s)}) = 0
  <1>1. DOMAIN gauges \subseteq GaugeSeries
    BY MapsOf DEF ExportInv, Gauges
  <1>2. {s \in DOMAIN gauges : ~Observable(s)} = {}
    BY <1>1, GaugesAreObservable
  <1> QED
    BY <1>2, FS_EmptySet

\* Every step keeps it.
LEMMA ExportInvNext == ExportInv /\ [ExportNext]_exportVars => ExportInv'
  <1> SUFFICES ASSUME ExportInv, [ExportNext]_exportVars
               PROVE ExportInv'
    OBVIOUS
  <1>1. ASSUME NEW record \in SourceRecords, Process(record)
        PROVE ExportInv'
    BY <1>1, ProcessKeepsInv
  <1>2. CASE Cutover
    BY <1>2 DEF Cutover, ExportInv
  <1>3. CASE SourceEnded
    BY <1>3, EmptyIsMap DEF SourceEnded, ClearGauges, ExportInv, Gauges
  <1>4. CASE Collect
    <2>1. droppedInvalidSeries' = 0
      <3> DEFINE unobservable == Cardinality({s \in DOMAIN gauges : ~Observable(s)})
      <3>1. droppedInvalidSeries' = droppedInvalidSeries + unobservable
        BY <1>4 DEF Collect
      <3>2. unobservable = 0 /\ droppedInvalidSeries = 0
        BY CollectDropsNone DEF ExportInv
      <3> HIDE DEF unobservable
      <3> QED
        BY <3>1, <3>2
    <2> QED
      BY <1>4, <2>1 DEF Collect, ExportInv
  <1>5. CASE UNCHANGED exportVars
    BY <1>5 DEF exportVars, ExportInv
  <1> QED
    BY <1>1, <1>2, <1>3, <1>4, <1>5 DEF ExportNext

\* So it always holds.
LEMMA ExportInvAlways == ExportSpec => []ExportInv
  BY ExportInvInit, ExportInvNext, PTL DEF ExportSpec

\* Baselines are of the counters of the tables and exact, gauges are those of the
\* tables, and no sum leaves the range of int64, whatever records the source writes
\* (State.Apply, OTelRecorder.Record).
THEOREM ExportWellTyped == ExportSpec => []ExportTypeOK
  <1>1. ExportInv => ExportTypeOK
    <2> SUFFICES ASSUME ExportInv PROVE ExportTypeOK
      OBVIOUS
    <2>1. /\ DOMAIN counterBaselines \subseteq CounterSeries
          /\ \A s \in DOMAIN counterBaselines : counterBaselines[s] \in 0..MaxExact
      BY MapsOf DEF ExportInv, Baselines
    <2>2. DOMAIN gauges \subseteq GaugeSeries
      BY MapsOf DEF ExportInv, Gauges
    <2>3. \A key \in DOMAIN cumulative : cumulative[key] \in -Int64Limit..(Int64Limit - 1)
      <3> DEFINE V == -Int64Limit..(Int64Limit - 1)
      <3>1. cumulative \in Maps(Points, V)
        BY DEF ExportInv, Sums64
      <3> HIDE DEF V
      <3>2. \A key \in DOMAIN cumulative : cumulative[key] \in V
        BY <3>1, MapsOf
      <3> QED
        BY <3>2 DEF V
    <2> QED
      BY <2>1, <2>2, <2>3 DEF ExportInv, ExportTypeOK
  <1> QED
    BY <1>1, ExportInvAlways, PTL

\* No update the normalizer makes is dropped as an invalid series, neither when it is
\* recorded nor when gauges are collected: recorder and normalizer agree on metrics and
\* attributes, for every record (OTelRecorder.Record, observe, DescribeSeries).
THEOREM SeriesKept == ExportSpec => []NoSeriesDropped
  <1>1. ExportInv => NoSeriesDropped
    BY DEF ExportInv, NoSeriesDropped
  <1> QED
    BY <1>1, ExportInvAlways, PTL

\* Every value of every record is taken, ignored or counted invalid; none vanishes,
\* whatever fields the record has (NormalizeRecord).
THEOREM ValuesKept == ExportSpec => []NoValueVanishes
  <1>1. ExportInv => NoValueVanishes
    BY DEF ExportInv, NoValueVanishes
  <1> QED
    BY <1>1, ExportInvAlways, PTL

-----------------------------------------------------------------------------
\* What the updates of a result tell of a series.

\* The value an update has, in halves, and those a sequence of updates has for a series.
Update == CounterUpdate \cup GaugeUpdate
Halves(update) ==
    IF update.series \in CounterSeries THEN 2 * update.value ELSE update.value[1]
ToldNext(read, update, s) ==
    IF update.series = s THEN Append(read, Halves(update)) ELSE read
ToldBy(updates, s) == FoldLeft(LAMBDA read, update : ToldNext(read, update, s), <<>>, updates)
Told(v, s) == IF s \in CounterSeries THEN ToldBy(v.counters, s) ELSE ToldBy(v.gauges, s)

\* No series is both a counter and a gauge.
LEMMA SeriesAreApart == CounterSeries \cap GaugeSeries = {}
  <1>1. ASSUME NEW s \in CounterSeries
        PROVE s.metric \in {"StorageIO", "FSOperations", "CacheDownloads", "CacheHits"}
    BY DEF CounterSeries, AzStorageCounters, LibfuseCounters, FileCacheCounters, Plain
  <1>2. ASSUME NEW s \in GaugeSeries
        PROVE s.metric \in {"OpenFiles", "CacheUsage", "CacheUtilization", "MemoryVirtual"}
    BY DEF GaugeSeries, OpenFiles, FileCacheGauges, MemoryVirtual, Plain
  <1> QED
    BY <1>1, <1>2

\* An update has a number of halves.
LEMMA HalvesType ==
    ASSUME NEW u \in Update
    PROVE Halves(u) \in Int
  <1>1. CASE u \in CounterUpdate
    <2>1. u.series \in CounterSeries /\ u.value \in 0..MaxExact
      BY <1>1 DEF CounterUpdate
    <2> QED
      BY <2>1, MaxExactAssumption DEF Halves
  <1>2. CASE u \in GaugeUpdate
    <2>1. u.series \in GaugeSeries /\ u.value \in Int \X Int
      BY <1>2 DEF GaugeUpdate
    <2>2. u.series \notin CounterSeries
      BY <2>1, SeriesAreApart
    <2> QED
      BY <2>1, <2>2 DEF Halves
  <1> QED
    BY <1>1, <1>2 DEF Update

\* Reading one more update gives numbers.
LEMMA ToldNextType ==
    ASSUME NEW read \in Seq(Int), NEW u \in Update, NEW s
    PROVE ToldNext(read, u, s) \in Seq(Int)
  BY HalvesType DEF ToldNext

\* ToldBy goes through the updates one by one.
LEMMA ToldSteps ==
    ASSUME NEW updates \in Seq(Update), NEW s0
    PROVE \E h \in [0..Len(updates) -> Seq(Int)] :
              /\ h[0] = <<>>
              /\ \A k \in 1..Len(updates) : h[k] = ToldNext(h[k - 1], updates[k], s0)
              /\ ToldBy(updates, s0) = h[Len(updates)]
  <1> DEFINE n == Len(updates)
             start == <<>>
             F == [step \in (1..n) \X Seq(Int) |-> ToldNext(step[2], updates[step[1]], s0)]
             Body(f, s) == IF s = {} THEN start ELSE ToldNext(f[s \ {Max(s)}], updates[Max(s)], s0)
             it == CHOOSE f : f = [s \in SUBSET (1..n) |-> Body(f, s)]
  <1>1. n \in Nat /\ DOMAIN updates = 1..n /\ \A i \in 1..n : updates[i] \in Update
    OBVIOUS
  <1>2. ToldBy(updates, s0) = it[1..n]
    <2>1. ToldBy(updates, s0) = (CHOOSE f : f = [s \in SUBSET (DOMAIN updates) |-> Body(f, s)])[DOMAIN updates]
      BY Zenon DEF ToldBy, FoldLeft, MapThenFoldSet
    <2> QED
      BY <1>1, <2>1, Zenon
  <1>3. \A i \in 1..n, x \in Seq(Int) :
            /\ F[<<i, x>>] = ToldNext(x, updates[i], s0)
            /\ F[<<i, x>>] \in Seq(Int)
    BY <1>1, ToldNextType
  <1>4. start \in Seq(Int)
    OBVIOUS
  <1> HIDE DEF n, start
  <1>5. StaysIn(Seq(Int), n, F)
    <2> HIDE DEF F
    <2> QED
      BY <1>3 DEF StaysIn
  <1>6. PICK f : Iterates(f, n, Seq(Int), start, F)
    <2> HIDE DEF F
    <2> QED
      BY <1>1, <1>4, <1>5, FoldIterates
  <1>7. ASSUME NEW s \in SUBSET (1..n) PROVE f[s] = Body(f, s)
    <2>1. CASE s # {}
      <3>1. Max(s) \in 1..n /\ s \ {Max(s)} \in SUBSET (1..n)
        BY <1>1, <2>1, MaxOfPositions
      <3>2. f[s \ {Max(s)}] \in Seq(Int)
        BY <1>6, <3>1 DEF Iterates
      <3>3. f[s] = F[<<Max(s), f[s \ {Max(s)}]>>]
        BY <1>6, <2>1 DEF Iterates
      <3> HIDE DEF F
      <3> QED
        BY <1>3, <2>1, <3>1, <3>2, <3>3
    <2>2. CASE s = {}
      BY <1>6, <2>2 DEF Iterates
    <2> QED
      BY <2>1, <2>2
  <1>8. f = [s \in SUBSET (1..n) |-> Body(f, s)]
    <2>1. f \in [SUBSET (1..n) -> Seq(Int)]
      BY <1>6 DEF Iterates
    <2> QED
      BY <1>7, <2>1
  <1>9. it = [s \in SUBSET (1..n) |-> Body(it, s)]
    BY <1>8, Zenon
  <1>10. it[{}] = start
    BY <1>9
  <1>11. ASSUME NEW k \in 1..n, it[1..(k - 1)] \in Seq(Int)
         PROVE it[1..k] = F[<<k, it[1..(k - 1)]>>]
    <2>1. /\ 1..k \in SUBSET (1..n) /\ 1..k # {} /\ Max(1..k) = k
          /\ (1..k) \ {k} = 1..(k - 1)
      BY <1>1, PositionsBefore
    <2>2. it[1..k] = ToldNext(it[1..(k - 1)], updates[k], s0)
      BY <1>9, <2>1, Zenon
    <2> QED
      BY <1>3, <1>11, <2>2, Zenon
  <1>12. PICK h : StepsThrough(h, n, Seq(Int), start, F) /\ it[1..n] = h[n]
    <2> HIDE DEF F, it
    <2>1. Accumulates(it, n, Seq(Int), start, F)
      BY <1>10, <1>11 DEF Accumulates
    <2> QED
      BY <2>1, <1>1, <1>4, <1>5, FoldSteps
  <1>13. ASSUME NEW k \in 1..n PROVE h[k] = ToldNext(h[k - 1], updates[k], s0)
    <2>1. k - 1 \in 0..n
      BY <1>1
    <2>2. h[k - 1] \in Seq(Int)
      BY <1>12, <2>1 DEF StepsThrough
    <2>3. h[k] = F[<<k, h[k - 1]>>]
      BY <1>12 DEF StepsThrough
    <2> HIDE DEF F
    <2> QED
      BY <1>1, <1>3, <2>2, <2>3
  <1> HIDE DEF it
  <1> QED
    BY <1>2, <1>12, <1>13 DEF n, start, StepsThrough

\* What updates tell of a series are numbers.
LEMMA ToldType ==
    ASSUME NEW updates \in Seq(Update), NEW s
    PROVE ToldBy(updates, s) \in Seq(Int)
  <1>1. PICK h \in [0..Len(updates) -> Seq(Int)] : ToldBy(updates, s) = h[Len(updates)]
    BY ToldSteps
  <1>2. Len(updates) \in 0..Len(updates)
    OBVIOUS
  <1> QED
    BY <1>1, <1>2

\* No updates tell nothing.
LEMMA ToldOfNone == ASSUME NEW s PROVE ToldBy(<<>>, s) = <<>>
  <1>1. <<>> \in Seq(Update) /\ Len(<<>>) = 0
    OBVIOUS
  <1> QED
    BY <1>1, ToldSteps

\* One update tells its series its value, and the others nothing.
LEMMA ToldOfOne ==
    ASSUME NEW u \in Update, NEW s
    PROVE ToldBy(<<u>>, s) = IF u.series = s THEN <<Halves(u)>> ELSE <<>>
  <1> DEFINE updates == <<u>>
  <1>1. updates \in Seq(Update) /\ Len(updates) = 1 /\ updates[1] = u
    OBVIOUS
  <1> HIDE DEF updates
  <1>2. PICK h \in [0..Len(updates) -> Seq(Int)] :
            /\ h[0] = <<>>
            /\ \A k \in 1..Len(updates) : h[k] = ToldNext(h[k - 1], updates[k], s)
            /\ ToldBy(updates, s) = h[Len(updates)]
    BY <1>1, ToldSteps
  <1>3. h[1] = ToldNext(<<>>, u, s) /\ ToldBy(updates, s) = h[1]
    BY <1>1, <1>2
  <1>4. Append(<<>>, Halves(u)) = <<Halves(u)>>
    OBVIOUS
  <1> QED
    BY <1>3, <1>4 DEF ToldNext, updates

\* Appending to the second part appends to the whole.
LEMMA AppendToConcat ==
    ASSUME NEW a \in Seq(Int), NEW b \in Seq(Int), NEW x \in Int
    PROVE Append(a \o b, x) = a \o Append(b, x)
  <1> DEFINE one == <<x>>
             s == a \o b
             t == b \o one
  <1>1. one \in Seq(Int) /\ s \in Seq(Int) /\ t \in Seq(Int)
    BY ConcatProperties
  <1>2. Append(s, x) = s \o one /\ Append(b, x) = t
    BY <1>1, AppendIsConcat
  <1> HIDE DEF one
  <1>3. s \o one = a \o t
    BY <1>1, ConcatAssociative
  <1> QED
    BY <1>2, <1>3

\* Updates after others tell their values after theirs.
LEMMA ToldOfConcat ==
    ASSUME NEW a \in Seq(Update), NEW b \in Seq(Update), NEW s
    PROVE ToldBy(a \o b, s) = ToldBy(a, s) \o ToldBy(b, s)
  <1> DEFINE c == a \o b
             m == Len(a)
             n == Len(b)
  <1>1. m \in Nat /\ n \in Nat
    OBVIOUS
  <1>2. c \in Seq(Update) /\ Len(c) = m + n
        /\ \A i \in 1..(m + n) : c[i] = IF i <= m THEN a[i] ELSE b[i - m]
    BY ConcatProperties
  <1>3. PICK f \in [0..m -> Seq(Int)] :
            /\ f[0] = <<>>
            /\ \A k \in 1..m : f[k] = ToldNext(f[k - 1], a[k], s)
            /\ ToldBy(a, s) = f[m]
    BY ToldSteps
  <1>4. PICK g \in [0..n -> Seq(Int)] :
            /\ g[0] = <<>>
            /\ \A k \in 1..n : g[k] = ToldNext(g[k - 1], b[k], s)
            /\ ToldBy(b, s) = g[n]
    BY ToldSteps
  <1> HIDE DEF c, m, n
  <1>5. PICK h \in [0..(m + n) -> Seq(Int)] :
            /\ h[0] = <<>>
            /\ \A k \in 1..(m + n) : h[k] = ToldNext(h[k - 1], c[k], s)
            /\ ToldBy(c, s) = h[m + n]
    <2> DEFINE l == Len(c)
    <2>1. \E h \in [0..l -> Seq(Int)] :
            /\ h[0] = <<>>
            /\ \A k \in 1..l : h[k] = ToldNext(h[k - 1], c[k], s)
            /\ ToldBy(c, s) = h[l]
      BY <1>2, ToldSteps
    <2>2. l = m + n
      BY <1>2
    <2> HIDE DEF l
    <2> QED
      BY <2>1, <2>2
  <1> DEFINE S == {k \in Nat : k <= m => h[k] = f[k]}
             T == {k \in Nat : k <= n => h[m + k] = f[m] \o g[k]}
  <1>6. Nat \subseteq S
    <2>1. 0 \in S
      BY <1>3, <1>5
    <2>2. ASSUME NEW k \in Nat, k \in S PROVE k + 1 \in S
      <3> SUFFICES ASSUME k + 1 <= m PROVE h[k + 1] = f[k + 1]
        OBVIOUS
      <3>1. k + 1 \in 1..m /\ k + 1 \in 1..(m + n) /\ (k + 1) - 1 = k /\ k + 1 <= m
            /\ h[k] = f[k]
        BY <1>1, <2>2
      <3>2. c[k + 1] = a[k + 1]
        BY <1>2, <3>1
      <3> QED
        BY <1>3, <1>5, <3>1, <3>2
    <2> HIDE DEF S
    <2> QED
      BY <2>1, <2>2, SetInduction
  <1>7. h[m] = f[m] /\ f[m] \in Seq(Int)
    BY <1>1, <1>6
  <1>8. Nat \subseteq T
    <2>1. 0 \in T
      <3>1. f[m] \o <<>> = f[m]
        BY <1>7, ConcatEmptySeq
      <3>2. m + 0 = m
        BY <1>1
      <3> QED
        BY <1>4, <1>7, <3>1, <3>2
    <2>2. ASSUME NEW k \in Nat, k \in T PROVE k + 1 \in T
      <3> DEFINE j == m + (k + 1)
                 e == k + 1
                 u == b[e]
      <3>0. CASE ~(e <= n)
        <4>1. k + 1 \in Nat /\ ~(k + 1 <= n)
          BY <3>0
        <4> QED
          BY <4>1, Zenon
      <3> SUFFICES ASSUME e <= n PROVE e \in T
        BY <3>0
      <3>1. /\ e \in 1..n /\ e \in Nat /\ e - 1 = k /\ k \in 0..n
            /\ j \in 1..(m + n) /\ j - 1 = m + k /\ ~(j <= m) /\ j - m = e
            /\ h[m + k] = f[m] \o g[k]
        BY <1>1, <2>2
      <3> HIDE DEF j, e
      <3>2. c[j] = u /\ u \in Update
        BY <1>1, <1>2, <3>1 DEF n
      <3>3. h[j] = ToldNext(f[m] \o g[k], u, s)
        BY <1>5, <3>1, <3>2
      <3>4. g[e] = ToldNext(g[k], u, s) /\ g[k] \in Seq(Int)
        BY <1>4, <3>1
      <3>5. ToldNext(f[m] \o g[k], u, s) = f[m] \o ToldNext(g[k], u, s)
        <4> DEFINE x == Halves(u)
                   A == f[m]
                   B == g[k]
        <4>1. x \in Int /\ A \in Seq(Int) /\ B \in Seq(Int)
          BY <1>7, <3>2, <3>4, HalvesType
        <4> HIDE DEF x, A, B
        <4>2. Append(A \o B, x) = A \o Append(B, x)
          BY <4>1, AppendToConcat
        <4> QED
          BY <4>2 DEF ToldNext, x, A, B
      <3>6. h[j] = f[m] \o g[e]
        BY <3>3, <3>4, <3>5
      <3>7. h[m + e] = f[m] \o g[e]
        BY <3>6 DEF j, e
      <3> QED
        BY <3>1, <3>7
    <2> HIDE DEF T
    <2> QED
      BY <2>1, <2>2, SetInduction
  <1>9. h[m + n] = f[m] \o g[n]
    BY <1>1, <1>8
  <1> QED
    BY <1>3, <1>4, <1>5, <1>9 DEF c

\* What v tells is of one series, or nothing at all.
TellsOnly(v, series, told) ==
    /\ v \in Normalized
    /\ told \in Seq(Int)
    /\ \A s : Told(v, s) = IF s = series THEN told ELSE <<>>
Silent(v) == v \in Normalized /\ \A s : Told(v, s) = <<>>

\* Normalized updates are updates.
LEMMA NormalizedUpdates ==
    ASSUME NEW v \in Normalized
    PROVE v.counters \in Seq(Update) /\ v.gauges \in Seq(Update)
  <1>1. v.counters \in Seq(CounterUpdate) /\ v.gauges \in Seq(GaugeUpdate)
    BY DEF Normalized
  <1>2. CounterUpdate \subseteq Update /\ GaugeUpdate \subseteq Update
    BY DEF Update
  <1> DEFINE c == v.counters
             g == v.gauges
  <1> HIDE DEF c, g
  <1>3. c \in Seq(Update)
    BY <1>1, <1>2 DEF c
  <1>4. g \in Seq(Update)
    BY <1>1, <1>2 DEF g
  <1> QED
    BY <1>3, <1>4 DEF c, g

\* What a result tells of a series are numbers.
LEMMA ToldIsType ==
    ASSUME NEW v \in Normalized, NEW s
    PROVE Told(v, s) \in Seq(Int)
  BY NormalizedUpdates, ToldType DEF Told

\* Silent results put together are silent.
LEMMA SilentParts ==
    ASSUME NEW v \in Normalized, v.counters = <<>>, v.gauges = <<>>
    PROVE Silent(v)
  BY ToldOfNone DEF Silent, Told

\* What is only counted tells nothing.
LEMMA CountsAreSilent ==
    /\ \A n \in Nat : Silent(Ignored(n))
    /\ Silent(Invalid) /\ Silent(Nothing)
  <1>1. ASSUME NEW n \in Nat PROVE Silent(Ignored(n))
    <2>1. Ignored(n).counters = <<>> /\ Ignored(n).gauges = <<>>
      BY DEF Ignored, Nothing
    <2> QED
      BY <2>1, IgnoredCounts, SilentParts
  <1>2. Invalid.counters = <<>> /\ Invalid.gauges = <<>>
    BY DEF Invalid, Nothing
  <1>3. Nothing.counters = <<>> /\ Nothing.gauges = <<>>
    BY DEF Nothing
  <1> QED
    BY <1>1, <1>2, <1>3, InvalidCounts, NothingCounts, SilentParts

\* Results put together tell what they tell one after the other.
LEMMA ToldOfBoth ==
    ASSUME NEW a \in Normalized, NEW b \in Normalized, NEW s
    PROVE Told(Both(a, b), s) = Told(a, s) \o Told(b, s)
  <1>1. /\ Both(a, b).counters = a.counters \o b.counters
        /\ Both(a, b).gauges = a.gauges \o b.gauges
    BY DEF Both
  <1>2. /\ a.counters \in Seq(Update) /\ b.counters \in Seq(Update)
        /\ a.gauges \in Seq(Update) /\ b.gauges \in Seq(Update)
    BY NormalizedUpdates
  <1> DEFINE p == a.counters
             q == b.counters
             t == a.gauges
             u == b.gauges
             z == Both(a, b)
  <1> HIDE DEF z
  <1>3. CASE s \in CounterSeries
    <2>1. Told(z, s) = ToldBy(p \o q, s) /\ Told(a, s) = ToldBy(p, s) /\ Told(b, s) = ToldBy(q, s)
      BY <1>1, <1>3 DEF Told, z
    <2>2. p \in Seq(Update) /\ q \in Seq(Update)
      BY <1>2
    <2> HIDE DEF p, q
    <2>3. ToldBy(p \o q, s) = ToldBy(p, s) \o ToldBy(q, s)
      BY <2>2, ToldOfConcat
    <2> QED
      BY <2>1, <2>3 DEF z
  <1>4. CASE s \notin CounterSeries
    <2>1. Told(z, s) = ToldBy(t \o u, s) /\ Told(a, s) = ToldBy(t, s) /\ Told(b, s) = ToldBy(u, s)
      BY <1>1, <1>4 DEF Told, z
    <2>2. t \in Seq(Update) /\ u \in Seq(Update)
      BY <1>2
    <2> HIDE DEF t, u
    <2>3. ToldBy(t \o u, s) = ToldBy(t, s) \o ToldBy(u, s)
      BY <2>2, ToldOfConcat
    <2> QED
      BY <2>1, <2>3 DEF z
  <1> QED
    BY <1>3, <1>4

\* What All tells, part by part.
LEMMA ToldOfParts ==
    ASSUME NEW parts \in Seq(Normalized), NEW s
    PROVE \E t \in [0..Len(parts) -> Seq(Int)] :
              /\ t[0] = <<>>
              /\ \A k \in 1..Len(parts) : t[k] = t[k - 1] \o Told(parts[k], s)
              /\ Told(All(parts), s) = t[Len(parts)]
  <1> DEFINE n == Len(parts)
  <1>1. n \in Nat /\ \A i \in 1..n : parts[i] \in Normalized
    OBVIOUS
  <1>2. PICK h \in [0..n -> Normalized] :
              /\ h[0] = Nothing
              /\ \A k \in 1..n : h[k] = Both(h[k - 1], parts[k])
              /\ All(parts) = h[n]
    BY AllSteps
  <1> HIDE DEF n
  <1> DEFINE t == [k \in 0..n |-> Told(h[k], s)]
  <1>3. t \in [0..n -> Seq(Int)]
    BY ToldIsType
  <1>4. t[0] = <<>>
    BY <1>1, <1>2, CountsAreSilent DEF Silent
  <1>5. ASSUME NEW k \in 1..n PROVE t[k] = t[k - 1] \o Told(parts[k], s)
    <2> DEFINE b == h[k - 1]
               p == parts[k]
    <2>1. k - 1 \in 0..n /\ k \in 0..n
      BY <1>1
    <2>2. b \in Normalized /\ p \in Normalized
      BY <1>1, <2>1
    <2>3. h[k] = Both(b, p)
      BY <1>2
    <2>4. t[k] = Told(h[k], s) /\ t[k - 1] = Told(b, s)
      BY <2>1
    <2> HIDE DEF t, b, p
    <2>5. Told(Both(b, p), s) = Told(b, s) \o Told(p, s)
      BY <2>2, ToldOfBoth
    <2> QED
      BY <2>3, <2>4, <2>5 DEF p
  <1>6. Told(All(parts), s) = t[n]
    BY <1>1, <1>2
  <1> HIDE DEF t
  <1>7. \A k \in 1..n : t[k] = t[k - 1] \o Told(parts[k], s)
    BY <1>5
  <1> QED
    BY <1>3, <1>4, <1>6, <1>7 DEF n

\* If all parts but one say nothing of a series, All tells what that one does.
LEMMA OneTells ==
    ASSUME NEW parts \in Seq(Normalized), NEW s, NEW j \in 1..Len(parts),
           \A i \in 1..Len(parts) : i # j => Told(parts[i], s) = <<>>
    PROVE Told(All(parts), s) = Told(parts[j], s)
  <1> DEFINE n == Len(parts)
             x == Told(parts[j], s)
  <1>1. n \in Nat /\ j \in 1..n /\ x \in Seq(Int)
    BY ToldIsType
  <1>2. PICK t \in [0..n -> Seq(Int)] :
              /\ t[0] = <<>>
              /\ \A k \in 1..n : t[k] = t[k - 1] \o Told(parts[k], s)
              /\ Told(All(parts), s) = t[n]
    BY ToldOfParts
  <1> DEFINE S == {k \in Nat : k <= n => t[k] = IF k < j THEN <<>> ELSE x}
  <1>3. Nat \subseteq S
    <2>1. 0 \in S
      BY <1>1, <1>2
    <2>2. ASSUME NEW k \in Nat, k \in S PROVE k + 1 \in S
      <3> DEFINE e == k + 1
                 p == Told(parts[e], s)
      <3>1. CASE ~(e <= n)
        BY <3>1
      <3>2. CASE e <= n
        <4>1. e \in 1..n /\ e - 1 = k /\ e \in Nat /\ t[k] = IF k < j THEN <<>> ELSE x
          BY <1>1, <2>2, <3>2
        <4>2. t[e] = t[k] \o p
          BY <1>2, <4>1
        <4>3. <<>> \o <<>> = <<>> /\ x \o <<>> = x /\ <<>> \o x = x
          BY <1>1, ConcatEmptySeq
        <4>4. CASE e < j
          <5>1. k < j /\ p = <<>>
            BY <1>1, <4>1, <4>4
          <5> QED
            BY <4>1, <4>2, <4>3, <4>4, <5>1
        <4>5. CASE e = j
          <5>1. k < j /\ p = x
            BY <1>1, <4>1, <4>5
          <5>2. t[e] = x
            BY <4>1, <4>2, <4>3, <5>1
          <5>3. e \in Nat /\ ~(e < j)
            BY <1>1, <4>1, <4>5
          <5> HIDE DEF x, e
          <5>4. t[e] = IF e < j THEN <<>> ELSE x
            BY <5>2, <5>3
          <5> QED
            BY <5>3, <5>4 DEF e
        <4>6. CASE e > j
          <5>1. ~(k < j) /\ p = <<>> /\ ~(e < j)
            BY <1>1, <4>1, <4>6
          <5> QED
            BY <4>1, <4>2, <4>3, <5>1
        <4> QED
          BY <1>1, <4>1, <4>4, <4>5, <4>6
      <3> QED
        BY <3>1, <3>2
    <2> HIDE DEF S
    <2> QED
      BY <2>1, <2>2, SetInduction
  <1> QED
    BY <1>1, <1>2, <1>3

\* And if all parts are silent on a series, so is All.
LEMMA NoneTells ==
    ASSUME NEW parts \in Seq(Normalized), NEW s,
           \A i \in 1..Len(parts) : Told(parts[i], s) = <<>>
    PROVE Told(All(parts), s) = <<>>
  <1>1. CASE Len(parts) = 0
    <2>1. PICK t \in [0..Len(parts) -> Seq(Int)] :
              t[0] = <<>> /\ Told(All(parts), s) = t[Len(parts)]
      BY ToldOfParts
    <2> QED
      BY <1>1, <2>1
  <1>2. CASE Len(parts) # 0
    <2>1. 1 \in 1..Len(parts)
      BY <1>2
    <2> QED
      BY <2>1, OneTells
  <1> QED
    BY <1>1, <1>2

-----------------------------------------------------------------------------
\* The fields of statistics tell what the reference reading reads.

\* What a field of statistics says, if it is an integer, or a measure in some units.
IntegerIn(values, name) ==
    IF name \in DOMAIN values /\ IsExactInteger(values[name])
    THEN <<values[name].halves>> ELSE <<>>
MeasureIn(values, name, unit) ==
    IF name \in DOMAIN values /\ IsMeasure(values[name], unit)
    THEN <<values[name].amount>> ELSE <<>>

\* The exact integers of the reference reading are those the source parses.
LEMMA ExactIntegers ==
    ASSUME NEW raw, IsFieldValue(raw)
    PROVE IsSourceInteger(raw) <=> IsExactInteger(raw)
  <1>1. CASE raw.type # "number"
    BY <1>1 DEF IsSourceInteger, IsExactInteger, Decodes
  <1>2. CASE raw.type = "number"
    <2> DEFINE h == raw.halves
    <2>1. h \in Int
      BY <1>2 DEF IsFieldValue, IsValue
    <2> HIDE DEF h
    <2>2. ASSUME h % 2 = 0, h >= 0, h <= 2 * MaxExact
          PROVE \E n \in 0..MaxExact : h = 2 * n
      <3>1. h \div 2 \in 0..MaxExact /\ h = 2 * (h \div 2)
        BY <2>1, <2>2, MaxExactAssumption
      <3> QED
        BY <3>1
    <2>3. ASSUME NEW n \in 0..MaxExact, h = 2 * n
          PROVE h % 2 = 0 /\ h >= 0 /\ h <= 2 * MaxExact
      BY <2>3, MaxExactAssumption
    <2> DEFINE p == h % 2 = 0
               q == h >= 0
               r == h <= 2 * MaxExact
               e == \E n \in 0..MaxExact : h = 2 * n
    <2>4. (p /\ q /\ r) <=> e
      BY <2>2, <2>3
    <2>5. IsSourceInteger(raw) <=> (p /\ q /\ r)
      BY <1>2 DEF IsSourceInteger, Decodes, h
    <2>6. IsExactInteger(raw) <=> e
      BY <1>2 DEF IsExactInteger, h
    <2> QED
      BY <2>4, <2>5, <2>6, Zenon
  <1> QED
    BY <1>1, <1>2

\* A counter update tells its own series its value.
LEMMA OneCounterTells ==
    ASSUME NEW u \in CounterUpdate
    PROVE LET v == [Nothing EXCEPT !.counters = <<u>>]
          IN  TellsOnly(v, u.series, <<2 * u.value>>)
  <1> DEFINE one == <<u>>
             v == [Nothing EXCEPT !.counters = one]
             told == <<2 * u.value>>
  <1>1. u.series \in CounterSeries /\ u.value \in 0..MaxExact /\ u \in Update
    BY DEF CounterUpdate, Update
  <1>2. v \in Normalized
    BY CounterCounts
  <1>3. v.counters = one /\ v.gauges = <<>>
    BY DEF Nothing
  <1>4. told \in Seq(Int)
    BY <1>1, MaxExactAssumption
  <1>5. \A s : ToldBy(one, s) = IF u.series = s THEN told ELSE <<>>
    BY <1>1, ToldOfOne DEF Halves
  <1> HIDE DEF v, one, told
  <1>6. ASSUME NEW s PROVE Told(v, s) = IF s = u.series THEN told ELSE <<>>
    <2>1. CASE s \in CounterSeries
      BY <1>3, <1>5, <2>1 DEF Told
    <2>2. CASE s \notin CounterSeries
      <3>1. Told(v, s) = <<>>
        BY <1>3, <2>2, ToldOfNone DEF Told
      <3>2. s # u.series
        BY <1>1, <2>2
      <3> QED
        BY <3>1, <3>2
    <2> QED
      BY <2>1, <2>2
  <1>7. TellsOnly(v, u.series, told)
    BY <1>2, <1>4, <1>6 DEF TellsOnly
  <1> QED
    BY <1>7 DEF v, one, told

\* And so does a gauge update.
LEMMA OneGaugeTells ==
    ASSUME NEW series \in GaugeSeries, NEW halves \in Int, NEW power \in Int
    PROVE TellsOnly(Gauge(series, halves, power), series, <<halves>>)
  <1> DEFINE u == [series |-> series, value |-> <<halves, power>>]
             one == <<u>>
             v == Gauge(series, halves, power)
             told == <<halves>>
  <1>1. v \in Normalized
    BY GaugeCounts
  <1>2. v.gauges = one /\ v.counters = <<>>
    BY DEF Gauge, Nothing
  <1>3. u \in Update
    BY DEF Update, GaugeUpdate
  <1>4. series \notin CounterSeries
    BY SeriesAreApart
  <1>5. u.series = series /\ Halves(u) = halves
    BY <1>4 DEF Halves
  <1> HIDE DEF u, v
  <1>6. \A s : ToldBy(one, s) = IF u.series = s THEN <<Halves(u)>> ELSE <<>>
    BY <1>3, ToldOfOne
  <1>7. \A s : ToldBy(one, s) = IF series = s THEN told ELSE <<>>
    BY <1>5, <1>6
  <1>8. told \in Seq(Int)
    OBVIOUS
  <1> HIDE DEF one, told
  <1>9. ASSUME NEW s PROVE Told(v, s) = IF s = series THEN told ELSE <<>>
    <2>1. CASE s \in CounterSeries
      <3>1. Told(v, s) = <<>>
        BY <1>2, <2>1, ToldOfNone DEF Told
      <3>2. s # series
        BY <1>4, <2>1
      <3> QED
        BY <3>1, <3>2
    <2>2. CASE s \notin CounterSeries
      BY <1>2, <1>7, <2>2 DEF Told
    <2> QED
      BY <2>1, <2>2
  <1>10. TellsOnly(v, series, told)
    BY <1>1, <1>8, <1>9 DEF TellsOnly
  <1> QED
    BY <1>10 DEF v, told

\* What is silent tells no series, its own neither.
LEMMA SilentTellsNothing ==
    ASSUME NEW v, Silent(v), NEW series
    PROVE TellsOnly(v, series, <<>>)
  <1>1. <<>> \in Seq(Int)
    OBVIOUS
  <1> QED
    BY <1>1 DEF Silent, TellsOnly

\* addCounter tells the integer of its field, of its series only.
LEMMA addCounterTells ==
    ASSUME NEW values, IsFields(values), NEW name, NEW series \in CounterSeries
    PROVE TellsOnly(addCounter(values, name, series), series, IntegerIn(values, name))
  <1> DEFINE raw == values[name]
             u == [series |-> series, value |-> parseSourceInteger(raw)]
             v == [Nothing EXCEPT !.counters = <<u>>]
  <1>1. CASE name \notin DOMAIN values
    <2>1. addCounter(values, name, series) = Nothing /\ IntegerIn(values, name) = <<>>
      BY <1>1 DEF addCounter, Field, IntegerIn
    <2> QED
      BY <2>1, CountsAreSilent, SilentTellsNothing
  <1>2. CASE name \in DOMAIN values /\ IsSourceInteger(raw)
    <2>0. IsFieldValue(raw)
      BY <1>2 DEF IsFields
    <2>1. addCounter(values, name, series) = v
      BY <1>2 DEF addCounter, Field
    <2>2. parseSourceInteger(raw) \in 0..MaxExact /\ 2 * parseSourceInteger(raw) = raw.halves
      BY <1>2, <2>0, SourceIntegersAreExact
    <2>3. u \in CounterUpdate /\ u.series = series /\ 2 * u.value = raw.halves
      BY <2>2 DEF CounterUpdate
    <2>4. IsExactInteger(raw)
      BY <1>2, <2>0, ExactIntegers
    <2>5. IntegerIn(values, name) = <<raw.halves>>
      BY <1>2, <2>4 DEF IntegerIn
    <2>6. TellsOnly(v, u.series, <<2 * u.value>>)
      <3> HIDE DEF u
      <3> QED
        BY <2>3, OneCounterTells
    <2> HIDE DEF v, u
    <2> QED
      BY <2>1, <2>3, <2>5, <2>6
  <1>3. CASE name \in DOMAIN values /\ ~IsSourceInteger(raw)
    <2>1. IsFieldValue(raw)
      BY <1>3 DEF IsFields
    <2>2. ~IsExactInteger(raw)
      BY <1>3, <2>1, ExactIntegers
    <2>3. addCounter(values, name, series) = Invalid
      BY <1>3 DEF addCounter, Field
    <2>4. IntegerIn(values, name) = <<>>
      BY <2>2 DEF IntegerIn
    <2> QED
      BY <2>3, <2>4, CountsAreSilent, SilentTellsNothing
  <1> QED
    BY <1>1, <1>2, <1>3

\* So does addIntegerGauge.
LEMMA addIntegerGaugeTells ==
    ASSUME NEW values, IsFields(values), NEW name, NEW series \in GaugeSeries
    PROVE TellsOnly(addIntegerGauge(values, name, series), series, IntegerIn(values, name))
  <1> DEFINE raw == values[name]
             x == 2 * parseSourceInteger(raw)
  <1>1. CASE name \notin DOMAIN values
    <2>1. addIntegerGauge(values, name, series) = Nothing /\ IntegerIn(values, name) = <<>>
      BY <1>1 DEF addIntegerGauge, Field, IntegerIn
    <2> QED
      BY <2>1, CountsAreSilent, SilentTellsNothing
  <1>2. CASE name \in DOMAIN values /\ IsSourceInteger(raw)
    <2>0. IsFieldValue(raw)
      BY <1>2 DEF IsFields
    <2>1. addIntegerGauge(values, name, series) = Gauge(series, x, 0)
      BY <1>2 DEF addIntegerGauge, Field
    <2>2. x = raw.halves /\ x \in Int
      BY <1>2, <2>0, SourceIntegersAreExact, MaxExactAssumption
    <2>4. IsExactInteger(raw)
      BY <1>2, <2>0, ExactIntegers
    <2> HIDE DEF x
    <2>5. IntegerIn(values, name) = <<x>>
      BY <1>2, <2>2, <2>4 DEF IntegerIn
    <2>6. TellsOnly(Gauge(series, x, 0), series, <<x>>)
      BY <2>2, OneGaugeTells
    <2> QED
      BY <2>1, <2>5, <2>6
  <1>3. CASE name \in DOMAIN values /\ ~IsSourceInteger(raw)
    <2>1. IsFieldValue(raw)
      BY <1>3 DEF IsFields
    <2>2. ~IsExactInteger(raw)
      BY <1>3, <2>1, ExactIntegers
    <2>3. addIntegerGauge(values, name, series) = Invalid
      BY <1>3 DEF addIntegerGauge, Field
    <2>4. IntegerIn(values, name) = <<>>
      BY <2>2 DEF IntegerIn
    <2> QED
      BY <2>3, <2>4, CountsAreSilent, SilentTellsNothing
  <1> QED
    BY <1>1, <1>2, <1>3

\* A formatted value tells nothing but its own series.
LEMMA FormattedTells ==
    ASSUME NEW raw, IsFieldValue(raw), NEW series \in GaugeSeries,
           NEW units, \A u \in DOMAIN units : units[u] \in Int
    PROVE TellsOnly(Formatted(raw, units, series), series,
                    IF /\ Decodes(raw, "string") /\ raw.unit \in DOMAIN units
                       /\ parseScaledNonNegative(raw, units[raw.unit])
                    THEN <<raw.amount>> ELSE <<>>)
  <1> DEFINE isMeasure == /\ Decodes(raw, "string")
                          /\ raw.unit \in DOMAIN units
                          /\ parseScaledNonNegative(raw, units[raw.unit])
  <1>1. CASE isMeasure
    <2>1. Formatted(raw, units, series) = Gauge(series, raw.amount, units[raw.unit])
      BY <1>1 DEF Formatted
    <2>2. raw.amount \in Int /\ units[raw.unit] \in Int
      BY <1>1 DEF IsFieldValue, IsValue, Decodes
    <2> DEFINE x == raw.amount
               p == units[raw.unit]
    <2> HIDE DEF x, p
    <2>3. TellsOnly(Gauge(series, x, p), series, <<x>>)
      BY <2>2, OneGaugeTells DEF x, p
    <2> QED
      BY <1>1, <2>1, <2>3 DEF x, p
  <1>2. CASE ~isMeasure
    <2>1. Formatted(raw, units, series) = Invalid
      BY <1>2 DEF Formatted
    <2> QED
      BY <1>2, <2>1, CountsAreSilent, SilentTellsNothing
  <1> QED
    BY <1>1, <1>2

\* addFormattedGauge tells the measures in its unit.
LEMMA addFormattedGaugeTells ==
    ASSUME NEW values, IsFields(values), NEW name, NEW series \in GaugeSeries,
           NEW units, NEW unit, DOMAIN units = {unit}, units[unit] \in Int,
           (units[unit] = Percent) <=> (unit # "MB")
    PROVE TellsOnly(addFormattedGauge(values, name, series, units), series,
                    MeasureIn(values, name, unit))
  <1> DEFINE raw == values[name]
             v == addFormattedGauge(values, name, series, units)
             isMeasure == /\ Decodes(raw, "string")
                          /\ raw.unit \in DOMAIN units
                          /\ parseScaledNonNegative(raw, units[raw.unit])
  <1>1. CASE name \notin DOMAIN values
    <2>1. v = Nothing /\ MeasureIn(values, name, unit) = <<>>
      BY <1>1 DEF addFormattedGauge, Field, MeasureIn
    <2> QED
      BY <2>1, CountsAreSilent, SilentTellsNothing
  <1>2. CASE name \in DOMAIN values
    <2>1. v = Formatted(raw, units, series)
      BY <1>2 DEF addFormattedGauge, Field
    <2>2. IsFieldValue(raw)
      BY <1>2 DEF IsFields
    <2>3. isMeasure <=> IsMeasure(raw, unit)
      BY DEF IsMeasure, Decodes, parseScaledNonNegative
    <2>4. \A u \in DOMAIN units : units[u] \in Int
      OBVIOUS
    <2>5. TellsOnly(Formatted(raw, units, series), series,
                    IF isMeasure THEN <<raw.amount>> ELSE <<>>)
      <3> HIDE DEF raw
      <3> QED
        BY <2>2, <2>4, FormattedTells
    <2>6. MeasureIn(values, name, unit) = IF isMeasure THEN <<raw.amount>> ELSE <<>>
      <3> HIDE DEF isMeasure
      <3> QED
        BY <1>2, <2>3 DEF MeasureIn
    <2> HIDE DEF isMeasure, raw
    <2> QED
      BY <2>1, <2>5, <2>6
  <1> QED
    BY <1>1, <1>2

\* The fields of a component's statistics that become series, and which series each does.
FieldsOf(component) ==
    CASE component = "azstorage" -> {"Bytes Downloaded", "Bytes Uploaded", "OpenFileHandles"}
      [] component = "libfuse" -> Operation \cup {"OpenFileHandles"}
      [] component = "file_cache" -> {"Files Downloaded", "Files served from cache",
                                      "Cache Usage", "Usage Percent"}

SeriesOf(component, name) ==
    CASE name = "OpenFileHandles" -> OpenFiles(component)
      [] name \in {"Bytes Downloaded", "Bytes Uploaded"} -> AzStorageCounters[name]
      [] name \in {"Files Downloaded", "Files served from cache"} -> FileCacheCounters[name]
      [] name \in {"Cache Usage", "Usage Percent"} -> FileCacheGauges[name]
      [] OTHER -> LibfuseCounters[name]

\* v tells what statistics say of each field of the component, and nothing of another.
TellsOf(v, component, values) ==
    \A c \in ComponentNames : \A name \in FieldsOf(c) :
        Told(v, SeriesOf(c, name)) =
            IF c = component THEN FieldReading(values, <<c, name>>) ELSE <<>>

\* The operations, one by one.
LEMMA OperationsByName ==
    /\ DOMAIN operationFields = 1..13 /\ Len(operationFields) = 13
    /\ operationFields[1] = "CreateDir" /\ operationFields[2] = "DeleteDir"
    /\ operationFields[3] = "StreamDir" /\ operationFields[4] = "RenameDir"
    /\ operationFields[5] = "CreateFile" /\ operationFields[6] = "DeleteFile"
    /\ operationFields[7] = "RenameFile" /\ operationFields[8] = "TruncateFile"
    /\ operationFields[9] = "CreateLink" /\ operationFields[10] = "ReadLink"
    /\ operationFields[11] = "SyncFile" /\ operationFields[12] = "SyncDir"
    /\ operationFields[13] = "Chmod"
    /\ 1..13 = {1, 2, 3, 4, 5, 6, 7, 8, 9, 10, 11, 12, 13}
  <1>1. 1..13 = {1, 2, 3, 4, 5, 6, 7, 8, 9, 10, 11, 12, 13}
    OBVIOUS
  <1> QED
    BY <1>1 DEF operationFields

\* No two are the same.
LEMMA OperationsDiffer ==
    \A i, j \in 1..Len(operationFields) : operationFields[i] = operationFields[j] => i = j
  <1> DEFINE f == operationFields
  <1> HIDE DEF f
  <1>1. /\ Len(f) = 13 /\ 1..13 = {1, 2, 3, 4, 5, 6, 7, 8, 9, 10, 11, 12, 13}
        /\ f[1] = "CreateDir" /\ f[2] = "DeleteDir" /\ f[3] = "StreamDir"
        /\ f[4] = "RenameDir" /\ f[5] = "CreateFile" /\ f[6] = "DeleteFile"
        /\ f[7] = "RenameFile" /\ f[8] = "TruncateFile" /\ f[9] = "CreateLink"
        /\ f[10] = "ReadLink" /\ f[11] = "SyncFile" /\ f[12] = "SyncDir" /\ f[13] = "Chmod"
    BY OperationsByName DEF f
  <1>2. \A i, j \in 1..Len(f) : f[i] = f[j] => i = j
    BY <1>1
  <1> QED
    BY <1>2 DEF f

\* No operation is called like another field.
LEMMA OperationsAreApart ==
    Operation \cap {"OpenFileHandles", "Bytes Downloaded", "Bytes Uploaded",
                    "Files Downloaded", "Files served from cache", "Cache Usage",
                    "Usage Percent"} = {}
  <1>1. ASSUME NEW i \in 1..13
        PROVE operationFields[i] \notin {"OpenFileHandles", "Bytes Downloaded",
                    "Bytes Uploaded", "Files Downloaded", "Files served from cache",
                    "Cache Usage", "Usage Percent"}
    BY OperationsByName
  <1> QED
    BY <1>1, OperationsByName, Zenon DEF Operation

\* The series of each name in statistics, case by case.
LEMMA SeriesByName ==
    /\ SeriesOf("azstorage", "OpenFileHandles") = OpenFiles("azstorage")
    /\ SeriesOf("libfuse", "OpenFileHandles") = OpenFiles("libfuse")
    /\ SeriesOf("azstorage", "Bytes Downloaded") = AzStorageCounters["Bytes Downloaded"]
    /\ SeriesOf("azstorage", "Bytes Uploaded") = AzStorageCounters["Bytes Uploaded"]
    /\ SeriesOf("file_cache", "Files Downloaded") = FileCacheCounters["Files Downloaded"]
    /\ SeriesOf("file_cache", "Files served from cache") =
            FileCacheCounters["Files served from cache"]
    /\ SeriesOf("file_cache", "Cache Usage") = FileCacheGauges["Cache Usage"]
    /\ SeriesOf("file_cache", "Usage Percent") = FileCacheGauges["Usage Percent"]
    /\ \A name \in Operation : SeriesOf("libfuse", name) = LibfuseCounters[name]
  <1>1. \A name \in Operation : SeriesOf("libfuse", name) = LibfuseCounters[name]
    BY OperationsAreApart DEF SeriesOf
  <1> QED
    BY <1>1 DEF SeriesOf

\* Different fields become different series.
LEMMA SeriesDiffer ==
    ASSUME NEW c \in ComponentNames, NEW name \in FieldsOf(c),
           NEW d \in ComponentNames, NEW other \in FieldsOf(d),
           SeriesOf(c, name) = SeriesOf(d, other)
    PROVE c = d /\ name = other
  <1> DEFINE Field1(s) ==
                CASE s.metric = "OpenFiles" -> s.component
                  [] s.metric = "StorageIO" -> "azstorage"
                  [] s.metric = "FSOperations" -> "libfuse"
                  [] OTHER -> "file_cache"
             Field2(s) ==
                CASE s.metric = "OpenFiles" -> "OpenFileHandles"
                  [] s.metric = "StorageIO" ->
                        IF s.direction = "read" THEN "Bytes Downloaded" ELSE "Bytes Uploaded"
                  [] s.metric = "FSOperations" -> s.operation
                  [] s.metric = "CacheDownloads" -> "Files Downloaded"
                  [] s.metric = "CacheHits" -> "Files served from cache"
                  [] s.metric = "CacheUsage" -> "Cache Usage"
                  [] OTHER -> "Usage Percent"
  <1>1. ASSUME NEW a \in ComponentNames, NEW n \in FieldsOf(a)
        PROVE Field1(SeriesOf(a, n)) = a /\ Field2(SeriesOf(a, n)) = n
    <2> DEFINE s == SeriesOf(a, n)
    <2>1. CASE n = "OpenFileHandles" /\ a \in Component
      <3>1. s = OpenFiles(a)
        BY <2>1 DEF SeriesOf
      <3>2. s.metric = "OpenFiles" /\ s.component = a
        BY <3>1 DEF OpenFiles, Plain
      <3> HIDE DEF s
      <3> QED
        BY <2>1, <3>2 DEF s
    <2>2. CASE a = "azstorage" /\ n \in {"Bytes Downloaded", "Bytes Uploaded"}
      <3>1. s = AzStorageCounters[n]
        BY <2>2 DEF SeriesOf
      <3>2. s.metric = "StorageIO" /\ (s.direction = "read" <=> n = "Bytes Downloaded")
        BY <2>2, <3>1 DEF AzStorageCounters, Plain
      <3> HIDE DEF s
      <3> QED
        BY <2>2, <3>2 DEF s
    <2>3. CASE a = "file_cache" /\ n \in {"Files Downloaded", "Files served from cache"}
      <3>1. s = FileCacheCounters[n]
        BY <2>3 DEF SeriesOf
      <3>2. s.metric = IF n = "Files Downloaded" THEN "CacheDownloads" ELSE "CacheHits"
        <4>1. CASE n = "Files Downloaded"
          <5>1. s = Plain("CacheDownloads")
            BY <2>3, <3>1, <4>1 DEF FileCacheCounters
          <5>2. s.metric = "CacheDownloads"
            BY <5>1 DEF Plain
          <5> HIDE DEF s
          <5> QED
            BY <4>1, <5>2
        <4>2. CASE n # "Files Downloaded"
          <5>1. s = Plain("CacheHits")
            BY <2>3, <3>1, <4>2 DEF FileCacheCounters
          <5>2. s.metric = "CacheHits"
            BY <5>1 DEF Plain
          <5> HIDE DEF s
          <5> QED
            BY <4>2, <5>2
        <4> QED
          BY <4>1, <4>2
      <3> HIDE DEF s
      <3> QED
        BY <2>3, <3>2 DEF s
    <2>4. CASE a = "file_cache" /\ n \in {"Cache Usage", "Usage Percent"}
      <3>1. s = FileCacheGauges[n]
        BY <2>4 DEF SeriesOf
      <3>2. s.metric = IF n = "Cache Usage" THEN "CacheUsage" ELSE "CacheUtilization"
        <4>1. CASE n = "Cache Usage"
          <5>1. s = Plain("CacheUsage")
            BY <2>4, <3>1, <4>1 DEF FileCacheGauges
          <5>2. s.metric = "CacheUsage"
            BY <5>1 DEF Plain
          <5> HIDE DEF s
          <5> QED
            BY <4>1, <5>2
        <4>2. CASE n # "Cache Usage"
          <5>1. s = Plain("CacheUtilization")
            BY <2>4, <3>1, <4>2 DEF FileCacheGauges
          <5>2. s.metric = "CacheUtilization"
            BY <5>1 DEF Plain
          <5> HIDE DEF s
          <5> QED
            BY <4>2, <5>2
        <4> QED
          BY <4>1, <4>2
      <3> HIDE DEF s
      <3> QED
        BY <2>4, <3>2 DEF s
    <2>5. CASE a = "libfuse" /\ n \in Operation
      <3>1. s = LibfuseCounters[n]
        BY <2>5, SeriesByName
      <3>2. s.metric = "FSOperations" /\ s.operation = n
        BY <2>5, <3>1 DEF LibfuseCounters, Plain
      <3> HIDE DEF s
      <3> QED
        BY <2>5, <3>2 DEF s
    <2> QED
      BY <2>1, <2>2, <2>3, <2>4, <2>5 DEF ComponentNames, FieldsOf, Component
  <1> HIDE DEF Field1, Field2
  <1>2. Field1(SeriesOf(c, name)) = c /\ Field2(SeriesOf(c, name)) = name
    BY <1>1
  <1>3. Field1(SeriesOf(d, other)) = d /\ Field2(SeriesOf(d, other)) = other
    BY <1>1
  <1> QED
    BY <1>2, <1>3

\* What the reference reading reads of a field.
LEMMA ReadingOfInteger ==
    ASSUME NEW values, NEW c, NEW name, name \notin {"Cache Usage", "Usage Percent"}
    PROVE FieldReading(values, <<c, name>>) = IntegerIn(values, name)
  <1> DEFINE f == <<c, name>>
  <1>1. f[1] = c /\ f[2] = name
    OBVIOUS
  <1> HIDE DEF f
  <1>2. \A raw : Readable(f, raw) <=> IsExactInteger(raw)
    BY <1>1 DEF Readable
  <1>3. \A raw : IsExactInteger(raw) => raw.type = "number"
    BY DEF IsExactInteger
  <1>4. FieldReading(values, f) = IntegerIn(values, name)
    BY <1>1, <1>2, <1>3 DEF FieldReading, IntegerIn
  <1> QED
    BY <1>4 DEF f

\* A formatted value reads as its amount.
LEMMA ReadingOfMeasure ==
    ASSUME NEW values, NEW c, NEW name, NEW unit,
           \/ name = "Cache Usage" /\ unit = "MB"
           \/ name = "Usage Percent" /\ unit = "%"
    PROVE FieldReading(values, <<c, name>>) = MeasureIn(values, name, unit)
  <1> DEFINE f == <<c, name>>
  <1>1. f[1] = c /\ f[2] = name
    OBVIOUS
  <1> HIDE DEF f
  <1>2. (name = "Cache Usage" /\ unit = "MB") \/ (name = "Usage Percent" /\ unit = "%")
    OBVIOUS
  <1>3. \A raw : Readable(f, raw) <=> IsMeasure(raw, unit)
    BY <1>1, <1>2 DEF Readable
  <1>4. \A raw : IsMeasure(raw, unit) => raw.type = "string" /\ raw.type # "number"
    BY DEF IsMeasure
  <1>5. FieldReading(values, f) = MeasureIn(values, name, unit)
    BY <1>1, <1>3, <1>4 DEF FieldReading, MeasureIn
  <1> QED
    BY <1>5 DEF f

\* Parts that count the unknown fields, and then tell each field of the component, tell
\* of these.
LEMMA PartsTell ==
    ASSUME NEW values, NEW component \in ComponentNames,
           NEW n \in Nat, NEW names, FieldsOf(component) = {names[i] : i \in 1..n},
           \A i, j \in 1..n : names[i] = names[j] => i = j,
           NEW parts \in Seq(Normalized), Len(parts) = n + 1, Silent(parts[1]),
           \A i \in 1..n : TellsOnly(parts[i + 1], SeriesOf(component, names[i]),
                                     FieldReading(values, <<component, names[i]>>))
    PROVE TellsOf(All(parts), component, values)
  <1> SUFFICES ASSUME NEW c \in ComponentNames, NEW name \in FieldsOf(c)
               PROVE Told(All(parts), SeriesOf(c, name)) =
                        IF c = component THEN FieldReading(values, <<c, name>>) ELSE <<>>
    BY DEF TellsOf
  <1> DEFINE s == SeriesOf(c, name)
             r(i) == FieldReading(values, <<component, names[i]>>)
  <1>1. Told(parts[1], s) = <<>>
    BY DEF Silent
  <1>2. ASSUME NEW i \in 1..n
        PROVE Told(parts[i + 1], s) = IF s = SeriesOf(component, names[i]) THEN r(i) ELSE <<>>
    BY DEF TellsOnly
  <1>3. ASSUME NEW i \in 1..n, s = SeriesOf(component, names[i])
        PROVE c = component /\ name = names[i]
    <2>1. names[i] \in FieldsOf(component)
      OBVIOUS
    <2> QED
      BY <1>3, <2>1, SeriesDiffer
  <1> HIDE DEF s, r
  <1>4. CASE c = component
    <2>1. PICK i \in 1..n : name = names[i]
      BY <1>4
    <2> DEFINE j == i + 1
    <2>2. j \in 1..Len(parts)
      BY <2>1
    <2>3. Told(parts[j], s) = r(i)
      BY <1>2, <1>4, <2>1 DEF s
    <2>4. ASSUME NEW k \in 1..Len(parts), k # j PROVE Told(parts[k], s) = <<>>
      <3>1. CASE k = 1
        BY <1>1, <3>1
      <3>2. CASE k # 1
        <4> DEFINE l == k - 1
        <4>1. l \in 1..n /\ l + 1 = k /\ l # i
          BY <2>4, <3>2
        <4>2. s # SeriesOf(component, names[l])
          BY <1>3, <2>1, <4>1
        <4> HIDE DEF l
        <4> QED
          BY <1>2, <4>1, <4>2
      <3> QED
        BY <3>1, <3>2
    <2> HIDE DEF j
    <2>5. Told(All(parts), s) = Told(parts[j], s)
      BY <2>2, <2>4, OneTells
    <2> QED
      BY <1>4, <2>1, <2>3, <2>5 DEF s, r
  <1>5. CASE c # component
    <2>1. ASSUME NEW k \in 1..Len(parts) PROVE Told(parts[k], s) = <<>>
      <3>1. CASE k = 1
        BY <1>1, <3>1
      <3>2. CASE k # 1
        <4> DEFINE l == k - 1
        <4>1. l \in 1..n /\ l + 1 = k
          BY <3>2
        <4>2. s # SeriesOf(component, names[l])
          BY <1>3, <1>5, <4>1
        <4> HIDE DEF l
        <4> QED
          BY <1>2, <4>1, <4>2
      <3> QED
        BY <3>1, <3>2
    <2>2. Told(All(parts), s) = <<>>
      BY <2>1, NoneTells
    <2> QED
      BY <1>5, <2>2 DEF s
  <1> QED
    BY <1>4, <1>5

-----------------------------------------------------------------------------
\* So do the statistics of the components.

\* Unknown fields are only counted (countUnknown).
LEMMA UnknownIsSilent ==
    ASSUME NEW fields, IsFiniteSet(DOMAIN fields), NEW known
    PROVE Silent(UnknownFields(fields, known))
  <1> DEFINE n == Cardinality(DOMAIN fields \ known)
  <1>1. n \in Nat
    BY FS_Subset, FS_CardinalityType
  <1>2. UnknownFields(fields, known) = Ignored(n)
    BY DEF UnknownFields
  <1> HIDE DEF n
  <1> QED
    BY <1>1, <1>2, CountsAreSilent

\* The statistics of azstorage tell what the reference reading reads of them.
LEMMA AzStorageTells ==
    ASSUME NEW values, IsFields(values)
    PROVE TellsOf(normalizeAzStorage(values), "azstorage", values)
  <1> DEFINE names == <<"Bytes Downloaded", "Bytes Uploaded", "OpenFileHandles">>
             known == DOMAIN AzStorageCounters \cup {"OpenFileHandles"}
             p1 == UnknownFields(values, known)
             p2 == addCounter(values, "Bytes Downloaded", AzStorageCounters["Bytes Downloaded"])
             p3 == addCounter(values, "Bytes Uploaded", AzStorageCounters["Bytes Uploaded"])
             p4 == addIntegerGauge(values, "OpenFileHandles", OpenFiles("azstorage"))
             Right(p, name) == TellsOnly(p, SeriesOf("azstorage", name),
                                         FieldReading(values, <<"azstorage", name>>))
  <1>1. Silent(p1)
    BY UnknownIsSilent DEF IsFields
  <1>2. Right(p2, "Bytes Downloaded")
    BY SeriesOfTables, SeriesByName, ReadingOfInteger, addCounterTells
  <1>3. Right(p3, "Bytes Uploaded")
    BY SeriesOfTables, SeriesByName, ReadingOfInteger, addCounterTells
  <1>4. Right(p4, "OpenFileHandles")
    BY SeriesOfTables, SeriesByName, ReadingOfInteger, addIntegerGaugeTells
  <1>5. names[1] = "Bytes Downloaded" /\ names[2] = "Bytes Uploaded"
        /\ names[3] = "OpenFileHandles"
    OBVIOUS
  <1>6. normalizeAzStorage(values) = All(<<p1, p2, p3, p4>>)
    BY DEF normalizeAzStorage
  <1>7. /\ p1 \in Normalized /\ p2 \in Normalized /\ p3 \in Normalized /\ p4 \in Normalized
    BY <1>1, <1>2, <1>3, <1>4 DEF Silent, TellsOnly
  <1> HIDE DEF p1, p2, p3, p4, names, Right
  <1> DEFINE parts == <<p1, p2, p3, p4>>
  <1>8. /\ parts \in Seq(Normalized) /\ Len(parts) = 3 + 1
        /\ parts[1] = p1 /\ parts[2] = p2 /\ parts[3] = p3 /\ parts[4] = p4
    BY <1>7
  <1> HIDE DEF parts
  <1>9. ASSUME NEW i \in 1..3 PROVE Right(parts[i + 1], names[i])
    <2>1. CASE i = 1
      <3>1. i + 1 = 2
        BY <2>1
      <3> QED
        BY <1>2, <1>5, <1>8, <2>1, <3>1
    <2>2. CASE i = 2
      <3>1. i + 1 = 3
        BY <2>2
      <3> QED
        BY <1>3, <1>5, <1>8, <2>2, <3>1
    <2>3. CASE i = 3
      <3>1. i + 1 = 4
        BY <2>3
      <3> QED
        BY <1>4, <1>5, <1>8, <2>3, <3>1
    <2> QED
      BY <2>1, <2>2, <2>3
  <1>10. FieldsOf("azstorage") = {names[i] : i \in 1..3}
    <2>1. 1..3 = {1, 2, 3}
      OBVIOUS
    <2> QED
      BY <1>5, <2>1 DEF FieldsOf
  <1>11. \A i, j \in 1..3 : names[i] = names[j] => i = j
    <2>1. 1..3 = {1, 2, 3}
      OBVIOUS
    <2> QED
      BY <1>5, <2>1
  <1>12. "azstorage" \in ComponentNames
    BY DEF ComponentNames
  <1>13. \A i \in 1..3 : TellsOnly(parts[i + 1], SeriesOf("azstorage", names[i]),
                                   FieldReading(values, <<"azstorage", names[i]>>))
    BY <1>9 DEF Right
  <1>14. Silent(parts[1])
    BY <1>1, <1>8
  <1>15. TellsOf(All(parts), "azstorage", values)
    BY <1>8, <1>10, <1>11, <1>12, <1>13, <1>14, PartsTell
  <1> QED
    BY <1>6, <1>15 DEF parts

\* So do those of file_cache.
LEMMA FileCacheTells ==
    ASSUME NEW values, IsFields(values)
    PROVE TellsOf(normalizeFileCache(values), "file_cache", values)
  <1> DEFINE names == <<"Files Downloaded", "Files served from cache", "Cache Usage",
                        "Usage Percent">>
             known == DOMAIN FileCacheCounters \cup DOMAIN FileCacheGauges
             p1 == UnknownFields(values, known)
             p2 == addCounter(values, "Files Downloaded", FileCacheCounters["Files Downloaded"])
             p3 == addCounter(values, "Files served from cache",
                              FileCacheCounters["Files served from cache"])
             p4 == addFormattedGauge(values, "Cache Usage", FileCacheGauges["Cache Usage"],
                                     CacheUsageUnit)
             p5 == addFormattedGauge(values, "Usage Percent", FileCacheGauges["Usage Percent"],
                                     PercentageUnit)
             Right(p, name) == TellsOnly(p, SeriesOf("file_cache", name),
                                         FieldReading(values, <<"file_cache", name>>))
  <1>1. Silent(p1)
    BY UnknownIsSilent DEF IsFields
  <1>2. Right(p2, "Files Downloaded")
    BY SeriesOfTables, SeriesByName, ReadingOfInteger, addCounterTells
  <1>3. Right(p3, "Files served from cache")
    BY SeriesOfTables, SeriesByName, ReadingOfInteger, addCounterTells
  <1>4. Right(p4, "Cache Usage")
    <2>1. /\ DOMAIN CacheUsageUnit = {"MB"} /\ CacheUsageUnit["MB"] = 2
      BY DEF CacheUsageUnit
    <2>2. CacheUsageUnit["MB"] \in Int /\ ((CacheUsageUnit["MB"] = Percent) <=> ("MB" # "MB"))
      BY <2>1 DEF Percent
    <2>3. FileCacheGauges["Cache Usage"] \in GaugeSeries
      BY SeriesOfTables
    <2>4. FieldReading(values, <<"file_cache", "Cache Usage">>) = MeasureIn(values, "Cache Usage", "MB")
      BY ReadingOfMeasure
    <2>5. TellsOnly(p4, FileCacheGauges["Cache Usage"], MeasureIn(values, "Cache Usage", "MB"))
      BY <2>1, <2>2, <2>3, addFormattedGaugeTells
    <2> QED
      BY <2>4, <2>5, SeriesByName
  <1>5. Right(p5, "Usage Percent")
    <2>1. /\ DOMAIN PercentageUnit = {"%"} /\ PercentageUnit["%"] = Percent
      BY DEF PercentageUnit
    <2>2. PercentageUnit["%"] \in Int /\ ((PercentageUnit["%"] = Percent) <=> ("%" # "MB"))
      BY <2>1 DEF Percent
    <2>3. FileCacheGauges["Usage Percent"] \in GaugeSeries
      BY SeriesOfTables
    <2>4. FieldReading(values, <<"file_cache", "Usage Percent">>) = MeasureIn(values, "Usage Percent", "%")
      BY ReadingOfMeasure
    <2>5. TellsOnly(p5, FileCacheGauges["Usage Percent"], MeasureIn(values, "Usage Percent", "%"))
      BY <2>1, <2>2, <2>3, addFormattedGaugeTells
    <2> QED
      BY <2>4, <2>5, SeriesByName
  <1>6. /\ names[1] = "Files Downloaded" /\ names[2] = "Files served from cache"
        /\ names[3] = "Cache Usage" /\ names[4] = "Usage Percent"
    OBVIOUS
  <1>7. normalizeFileCache(values) = All(<<p1, p2, p3, p4, p5>>)
    BY DEF normalizeFileCache
  <1>8. /\ p1 \in Normalized /\ p2 \in Normalized /\ p3 \in Normalized
        /\ p4 \in Normalized /\ p5 \in Normalized
    BY <1>1, <1>2, <1>3, <1>4, <1>5 DEF Silent, TellsOnly
  <1> HIDE DEF p1, p2, p3, p4, p5, names, Right
  <1> DEFINE parts == <<p1, p2, p3, p4, p5>>
  <1>9. /\ parts \in Seq(Normalized) /\ Len(parts) = 4 + 1
        /\ parts[1] = p1 /\ parts[2] = p2 /\ parts[3] = p3 /\ parts[4] = p4 /\ parts[5] = p5
    BY <1>8
  <1> HIDE DEF parts
  <1>10. ASSUME NEW i \in 1..4 PROVE Right(parts[i + 1], names[i])
    <2>1. CASE i = 1
      <3>1. i + 1 = 2
        BY <2>1
      <3> QED
        BY <1>2, <1>6, <1>9, <2>1, <3>1
    <2>2. CASE i = 2
      <3>1. i + 1 = 3
        BY <2>2
      <3> QED
        BY <1>3, <1>6, <1>9, <2>2, <3>1
    <2>3. CASE i = 3
      <3>1. i + 1 = 4
        BY <2>3
      <3> QED
        BY <1>4, <1>6, <1>9, <2>3, <3>1
    <2>4. CASE i = 4
      <3>1. i + 1 = 5
        BY <2>4
      <3> QED
        BY <1>5, <1>6, <1>9, <2>4, <3>1
    <2> QED
      BY <2>1, <2>2, <2>3, <2>4
  <1>11. 1..4 = {1, 2, 3, 4}
    OBVIOUS
  <1>12. FieldsOf("file_cache") = {names[i] : i \in 1..4}
    BY <1>6, <1>11 DEF FieldsOf
  <1>13. \A i, j \in 1..4 : names[i] = names[j] => i = j
    BY <1>6, <1>11
  <1>14. "file_cache" \in ComponentNames
    BY DEF ComponentNames
  <1>15. \A i \in 1..4 : TellsOnly(parts[i + 1], SeriesOf("file_cache", names[i]),
                                   FieldReading(values, <<"file_cache", names[i]>>))
    BY <1>10 DEF Right
  <1>16. Silent(parts[1])
    BY <1>1, <1>9
  <1>17. TellsOf(All(parts), "file_cache", values)
    BY <1>9, <1>12, <1>13, <1>14, <1>15, <1>16, PartsTell
  <1> QED
    BY <1>7, <1>17 DEF parts

\* And those of libfuse.
LEMMA LibfuseTells ==
    ASSUME NEW values, IsFields(values)
    PROVE TellsOf(normalizeLibfuse(values), "libfuse", values)
  <1> DEFINE n == Len(operationFields)
             name(i) == IF i = 1 THEN "OpenFileHandles" ELSE operationFields[i - 1]
             names == [i \in 1..(n + 1) |-> name(i)]
             Right(p, x) == TellsOnly(p, SeriesOf("libfuse", x),
                                      FieldReading(values, <<"libfuse", x>>))
  <1>1. n \in Nat /\ DOMAIN operationFields = 1..n
        /\ \A i \in 1..n : operationFields[i] \in Operation
    <2>1. n \in Nat /\ DOMAIN operationFields = 1..n
      BY DEF operationFields
    <2> QED
      BY <2>1 DEF Operation
  <1>2. \A i, j \in 1..n : operationFields[i] = operationFields[j] => i = j
    BY OperationsDiffer
  <1>3. PICK parts \in Seq(Normalized) :
              /\ normalizeLibfuse(values) = All(parts)
              /\ Len(parts) = n + 2
              /\ parts[1] = UnknownFields(values, Operation \cup {"OpenFileHandles"})
              /\ parts[2] = addIntegerGauge(values, "OpenFileHandles", OpenFiles("libfuse"))
              /\ \A i \in 1..n : parts[i + 2] =
                    addCounter(values, operationFields[i], LibfuseCounters[operationFields[i]])
    BY LibfuseParts
  <1>4. Silent(parts[1])
    BY <1>3, UnknownIsSilent DEF IsFields
  <1>5. Right(parts[2], "OpenFileHandles")
    BY <1>3, SeriesOfTables, SeriesByName, ReadingOfInteger, addIntegerGaugeTells
  <1> HIDE DEF n
  <1>6. ASSUME NEW i \in 1..n PROVE Right(parts[i + 2], operationFields[i])
    <2> DEFINE x == operationFields[i]
               s == LibfuseCounters[x]
    <2>1. x \in Operation /\ s \in CounterSeries
      BY <1>1, SeriesOfTables DEF n
    <2>2. s = SeriesOf("libfuse", x) /\ x \notin {"Cache Usage", "Usage Percent"}
      BY <2>1, SeriesByName, OperationsAreApart
    <2>3. parts[i + 2] = addCounter(values, x, s)
      BY <1>3
    <2> HIDE DEF x, s
    <2>4. TellsOnly(addCounter(values, x, s), s, IntegerIn(values, x))
      BY <2>1, addCounterTells
    <2>5. FieldReading(values, <<"libfuse", x>>) = IntegerIn(values, x)
      BY <2>2, ReadingOfInteger
    <2> DEFINE t == addCounter(values, x, s)
               r == IntegerIn(values, x)
    <2>6. parts[i + 2] = t /\ TellsOnly(t, s, r) /\ s = SeriesOf("libfuse", x)
          /\ r = FieldReading(values, <<"libfuse", x>>)
      BY <2>2, <2>3, <2>4, <2>5, Zenon
    <2> HIDE DEF t, r
    <2>7. Right(parts[i + 2], x)
      BY <2>6, Zenon
    <2> QED
      BY <2>7 DEF x
  <1>7. ASSUME NEW i \in 1..(n + 1) PROVE Right(parts[i + 1], names[i])
    <2>1. CASE i = 1
      <3>1. names[i] = "OpenFileHandles" /\ i + 1 = 2
        BY <1>1, <2>1
      <3> HIDE DEF names, Right
      <3> QED
        BY <1>5, <3>1
    <2>2. CASE i # 1
      <3> DEFINE j == i - 1
      <3>1. j \in 1..n /\ i + 1 = j + 2
        BY <1>1, <2>2
      <3>2. names[i] = operationFields[j]
        BY <2>2
      <3> HIDE DEF j, names, Right
      <3> QED
        BY <1>6, <3>1, <3>2
    <2> QED
      BY <2>1, <2>2
  <1>8. FieldsOf("libfuse") = {names[i] : i \in 1..(n + 1)}
    <2>1. FieldsOf("libfuse") = Operation \cup {"OpenFileHandles"}
      BY DEF FieldsOf
    <2>2. 1 \in 1..(n + 1) /\ names[1] = "OpenFileHandles"
      BY <1>1
    <2>3. ASSUME NEW x \in Operation PROVE \E i \in 1..(n + 1) : names[i] = x
      <3>1. PICK i \in 1..n : operationFields[i] = x
        BY <1>1 DEF Operation
      <3>2. i + 1 \in 1..(n + 1) /\ i + 1 # 1 /\ (i + 1) - 1 = i
        BY <1>1
      <3>3. names[i + 1] = operationFields[i]
        BY <3>2
      <3> QED
        BY <3>1, <3>2, <3>3
    <2>4. ASSUME NEW i \in 1..(n + 1) PROVE names[i] \in Operation \cup {"OpenFileHandles"}
      <3>1. CASE i = 1
        BY <2>2, <3>1
      <3>2. CASE i # 1
        <4>1. i - 1 \in 1..n /\ names[i] = operationFields[i - 1]
          BY <1>1, <3>2
        <4> QED
          BY <1>1, <4>1
      <3> QED
        BY <3>1, <3>2
    <2> HIDE DEF names
    <2> QED
      BY <2>1, <2>2, <2>3, <2>4
  <1>9. \A i, j \in 1..(n + 1) : names[i] = names[j] => i = j
    <2> SUFFICES ASSUME NEW i \in 1..(n + 1), NEW j \in 1..(n + 1), names[i] = names[j]
                 PROVE i = j
      OBVIOUS
    <2>1. \A k \in 1..(n + 1) : k # 1 => k - 1 \in 1..n /\ names[k] = operationFields[k - 1]
      BY <1>1
    <2>2. names[1] = "OpenFileHandles"
      BY <1>1
    <2>3. \A k \in 1..(n + 1) : k # 1 => names[k] # "OpenFileHandles"
      BY <1>1, <2>1, OperationsAreApart
    <2> HIDE DEF names
    <2>4. CASE i = 1 \/ j = 1
      BY <2>2, <2>3, <2>4
    <2>5. CASE i # 1 /\ j # 1
      <3>1. i - 1 = j - 1
        BY <1>2, <2>1, <2>5 DEF n
      <3> QED
        BY <1>1, <3>1
    <2> QED
      BY <2>4, <2>5
  <1>10. "libfuse" \in ComponentNames /\ n + 1 \in Nat /\ Len(parts) = (n + 1) + 1
    BY <1>1, <1>3 DEF ComponentNames
  <1>11. \A i \in 1..(n + 1) : TellsOnly(parts[i + 1], SeriesOf("libfuse", names[i]),
                                   FieldReading(values, <<"libfuse", names[i]>>))
    BY <1>7
  <1> HIDE DEF names
  <1>12. TellsOf(All(parts), "libfuse", values)
    BY <1>4, <1>8, <1>9, <1>10, <1>11, PartsTell
  <1> QED
    BY <1>3, <1>12

-----------------------------------------------------------------------------
\* Messages tell what is read of them.

\* An event updates nothing (validateEventFields).
LEMMA EventIsSilent ==
    ASSUME NEW fields
    PROVE Silent(validateEventFields(fields))
  <1> DEFINE Check(name, type) ==
                IF name \in DOMAIN fields
                THEN IF Decodes(fields[name], type) THEN Nothing ELSE Invalid
                ELSE Nothing
             parts == <<Check("timestamp", "string"), Check("componentName", "string"),
                        Check("operation", "string"), Check("path", "string"),
                        Check("value", "object")>>
  <1>1. ASSUME NEW name, NEW type PROVE Silent(Check(name, type))
    BY CountsAreSilent
  <1>2. validateEventFields(fields) = All(parts)
    BY DEF validateEventFields, Field
  <1>3. /\ parts \in Seq(Normalized) /\ Len(parts) = 5
        /\ \A i \in 1..5 : \E name, type : parts[i] = Check(name, type)
    <2> DEFINE k1 == Check("timestamp", "string")
               k2 == Check("componentName", "string")
               k3 == Check("operation", "string")
               k4 == Check("path", "string")
               k5 == Check("value", "object")
    <2>1. /\ k1 \in Normalized /\ k2 \in Normalized /\ k3 \in Normalized /\ k4 \in Normalized
          /\ k5 \in Normalized
      BY <1>1 DEF Silent
    <2> HIDE DEF k1, k2, k3, k4, k5
    <2>2. parts = <<k1, k2, k3, k4, k5>>
      BY DEF k1, k2, k3, k4, k5
    <2>3. /\ parts \in Seq(Normalized) /\ Len(parts) = 5 /\ parts[1] = k1 /\ parts[2] = k2
          /\ parts[3] = k3 /\ parts[4] = k4 /\ parts[5] = k5
      <3> HIDE DEF parts
      <3> QED
        BY <2>1, <2>2
    <2>4. 1..5 = {1, 2, 3, 4, 5}
      OBVIOUS
    <2> HIDE DEF parts
    <2>5. /\ \E name, type : k1 = Check(name, type)
          /\ \E name, type : k2 = Check(name, type)
          /\ \E name, type : k3 = Check(name, type)
          /\ \E name, type : k4 = Check(name, type)
          /\ \E name, type : k5 = Check(name, type)
      BY Zenon DEF k1, k2, k3, k4, k5
    <2> HIDE DEF Check
    <2> QED
      BY <2>3, <2>4, <2>5
  <1> HIDE DEF parts, Check
  <1>4. \A i \in 1..Len(parts) : Silent(parts[i])
    BY <1>1, <1>3
  <1>5. \A s : Told(All(parts), s) = <<>>
    BY <1>3, <1>4, NoneTells DEF Silent
  <1>6. All(parts) \in Normalized
    BY <1>3, AllCounts
  <1> QED
    BY <1>2, <1>5, <1>6 DEF Silent

\* A time stamp updates nothing (normalizeTimestamp).
LEMMA TimestampIsSilent ==
    ASSUME NEW fields, NEW name
    PROVE Silent(Field(fields, name, normalizeTimestamp))
  BY CountsAreSilent DEF Field, normalizeTimestamp

\* After two silent parts All tells what the third does.
LEMMA ThirdTells ==
    ASSUME NEW a, Silent(a), NEW b, Silent(b), NEW c \in Normalized, NEW s
    PROVE Told(All(<<a, b, c>>), s) = Told(c, s)
  <1> DEFINE parts == <<a, b, c>>
  <1>1. a \in Normalized /\ b \in Normalized
    BY DEF Silent
  <1>2. /\ parts \in Seq(Normalized) /\ Len(parts) = 3
        /\ parts[1] = a /\ parts[2] = b /\ parts[3] = c
    BY <1>1
  <1> HIDE DEF parts
  <1>3. 3 \in 1..Len(parts) /\ \A i \in 1..Len(parts) : i # 3 => Told(parts[i], s) = <<>>
    <2>1. \A i \in 1..3 : i = 1 \/ i = 2 \/ i = 3
      OBVIOUS
    <2> QED
      BY <1>2, <2>1 DEF Silent
  <1>4. Told(All(parts), s) = Told(parts[3], s)
    BY <1>2, <1>3, OneTells
  <1> QED
    BY <1>2, <1>4 DEF parts

\* The statistics of a component tell its fields, and other messages without an
\* operation nothing.
LEMMA StatisticsTell ==
    ASSUME NEW fields, IsMessageFields(fields), NEW c \in ComponentNames,
           NEW name \in FieldsOf(c)
    PROVE Told(normalizeStatistics(fields), SeriesOf(c, name)) =
            IF AreStatistics(fields, {c})
            THEN FieldReading(fields["value"].fields, <<c, name>>) ELSE <<>>
  <1> DEFINE v == normalizeStatistics(fields)
             values == fields["value"].fields
             component == fields["componentName"].unit
             s == SeriesOf(c, name)
  <1>1. CASE ~AreStatistics(fields, ComponentNames)
    <2>1. v = Ignored(1) \/ v = Invalid
      BY <1>1 DEF normalizeStatistics, AreStatistics, ComponentNames, Decodes
    <2>2. Told(v, s) = <<>>
      <3> HIDE DEF v, s
      <3> QED
        BY <2>1, CountsAreSilent DEF Silent
    <2>3. ~AreStatistics(fields, {c})
      BY <1>1 DEF AreStatistics
    <2> QED
      BY <2>2, <2>3
  <1>2. CASE AreStatistics(fields, ComponentNames)
    <2>1. IsFields(values)
      BY <1>2 DEF AreStatistics, IsMessageFields, IsMessageField, IsValue, IsFields
    <2>2. /\ "componentName" \in DOMAIN fields /\ Decodes(fields["componentName"], "string")
          /\ "value" \in DOMAIN fields /\ Decodes(fields["value"], "object")
          /\ component \in {"azstorage", "libfuse", "file_cache"}
      BY <1>2 DEF AreStatistics, ComponentNames, Decodes
    <2>3. AreStatistics(fields, {c}) <=> c = component
      BY <1>2 DEF AreStatistics
    <2>4. TellsOf(v, component, values)
      <3>1. CASE component = "azstorage"
        <4>1. v = normalizeAzStorage(values)
          BY <2>2, <3>1 DEF normalizeStatistics
        <4> HIDE DEF v, values
        <4> QED
          BY <2>1, <3>1, <4>1, AzStorageTells
      <3>2. CASE component = "libfuse"
        <4>1. v = normalizeLibfuse(values)
          BY <2>2, <3>2 DEF normalizeStatistics
        <4> HIDE DEF v, values
        <4> QED
          BY <2>1, <3>2, <4>1, LibfuseTells
      <3>3. CASE component = "file_cache"
        <4>1. v = normalizeFileCache(values)
          BY <2>2, <3>3 DEF normalizeStatistics
        <4> HIDE DEF v, values
        <4> QED
          BY <2>1, <3>3, <4>1, FileCacheTells
      <3> QED
        BY <2>2, <3>1, <3>2, <3>3
    <2> HIDE DEF v, values, component
    <2>5. Told(v, s) = IF c = component THEN FieldReading(values, <<c, name>>) ELSE <<>>
      BY <2>4 DEF TellsOf
    <2> QED
      BY <2>3, <2>5 DEF v, values
  <1> QED
    BY <1>1, <1>2

\* A message tells what the reference reading reads in it.
LEMMA MessageTells ==
    ASSUME NEW m, IsMessage(m), NEW c \in ComponentNames, NEW name \in FieldsOf(c)
    PROVE Told(normalizeBlobfuseMessage(m), SeriesOf(c, name)) = MessageReading(m, <<c, name>>)
  <1> DEFINE fields == m.fields
             f == <<c, name>>
             sr == SeriesOf(c, name)
             u == UnknownFields(fields, MessageFields)
             isEvent == DOMAIN fields \cap {"operation", "path"} # {}
             v == normalizeBlobfuseMessage(m)
  <1>0. f[1] = c
    OBVIOUS
  <1> HIDE DEF f, sr
  <1>1. CASE ~Decodes(m, "object")
    <2>1. ~IsStatisticsOf(m, {f[1]})
      BY <1>1 DEF IsStatisticsOf, Decodes
    <2>2. MessageReading(m, f) = <<>>
      BY <2>1 DEF MessageReading
    <2>3. v = Invalid
      BY <1>1 DEF normalizeBlobfuseMessage
    <2> HIDE DEF v
    <2>4. Told(v, sr) = <<>>
      BY <2>3, CountsAreSilent DEF Silent
    <2> QED
      BY <2>2, <2>4 DEF v, f, sr
  <1>2. CASE Decodes(m, "object")
    <2>1. m.type = "object"
      BY <1>2 DEF Decodes
    <2>2. IsMessageFields(fields)
      BY <2>1 DEF IsMessage, IsValue, IsMessageFields
    <2>3. Silent(u)
      BY <2>2, UnknownIsSilent DEF IsMessageFields
    <2>4. CASE isEvent
      <3> DEFINE e == validateEventFields(fields)
                 i == Ignored(1)
      <3>1. v = All(<<u, e, i>>)
        BY <1>2, <2>4 DEF normalizeBlobfuseMessage
      <3>2. Silent(e) /\ Silent(i)
        BY EventIsSilent, CountsAreSilent
      <3>3. MessageReading(m, f) = <<>>
        <4>1. ~IsStatisticsOf(m, {f[1]})
          BY <2>4 DEF IsStatisticsOf
        <4> QED
          BY <4>1 DEF MessageReading
      <3> HIDE DEF u, e, i, v
      <3>4. i \in Normalized /\ Told(i, sr) = <<>>
        BY <3>2 DEF Silent
      <3>5. Told(v, sr) = <<>>
        BY <2>3, <3>1, <3>2, <3>4, ThirdTells
      <3> QED
        BY <3>3, <3>5 DEF v, f, sr
    <2>5. CASE ~isEvent
      <3> DEFINE t == Field(fields, "timestamp", normalizeTimestamp)
                 s == normalizeStatistics(fields)
      <3>1. v = All(<<u, t, s>>)
        BY <1>2, <2>5 DEF normalizeBlobfuseMessage
      <3>2. IsStatisticsOf(m, {c}) <=> AreStatistics(fields, {c})
        BY <2>1, <2>5 DEF IsStatisticsOf, AreStatistics
      <3>3. Silent(t)
        BY TimestampIsSilent
      <3>4. s \in Normalized
        BY <2>2, StatisticsCounts
      <3>5. Told(v, sr) = Told(s, sr)
        <4> HIDE DEF u, t, s, v
        <4> QED
          BY <2>3, <3>1, <3>3, <3>4, ThirdTells
      <3>6. Told(s, sr) = IF AreStatistics(fields, {c})
                          THEN FieldReading(fields["value"].fields, f) ELSE <<>>
        BY <2>2, StatisticsTell DEF f, sr
      <3>7. MessageReading(m, f) = IF AreStatistics(fields, {c})
                          THEN FieldReading(fields["value"].fields, f) ELSE <<>>
        BY <1>0, <3>2 DEF MessageReading
      <3> HIDE DEF s, v
      <3>8. Told(v, sr) = MessageReading(m, f)
        BY <3>5, <3>6, <3>7
      <3> QED
        BY <3>8 DEF v, f, sr
    <2> QED
      BY <2>4, <2>5
  <1> QED
    BY <1>1, <1>2

AreMessages(messages) ==
    /\ messages \in Seq({messages[i] : i \in DOMAIN messages})
    /\ \A i \in DOMAIN messages : IsMessage(messages[i])

ReadingsOf(messages, field) ==
    FoldLeft(LAMBDA read, m : read \o MessageReading(m, field), <<>>, messages)

\* The statistics of a record are messages.
LEMMA RecordHasMessages ==
    ASSUME NEW record, IsRecord(record)
    PROVE AreMessages(Messages(record))
  <1>1. CASE "BlobfuseStats" \in DOMAIN record /\ record["BlobfuseStats"].type = "array"
    <2>1. Messages(record) = record["BlobfuseStats"].elements
      BY <1>1 DEF Messages
    <2>2. IsValue(record["BlobfuseStats"], IsMessage)
      BY <1>1 DEF IsRecord
    <2> QED
      BY <1>1, <2>1, <2>2 DEF IsValue, AreMessages
  <1>2. CASE ~("BlobfuseStats" \in DOMAIN record /\ record["BlobfuseStats"].type = "array")
    <2>1. Messages(record) = <<>>
      BY <1>2 DEF Messages
    <2>2. AreMessages(<<>>)
      BY DEF AreMessages
    <2> QED
      BY <2>1, <2>2
  <1> QED
    BY <1>1, <1>2

\* The reference reading goes through the messages one by one.
LEMMA ReadingsSteps ==
    ASSUME NEW messages, AreMessages(messages), NEW field,
           \A i \in 1..Len(messages) : MessageReading(messages[i], field) \in Seq(Int)
    PROVE \E h \in [0..Len(messages) -> Seq(Int)] :
              /\ h[0] = <<>>
              /\ \A k \in 1..Len(messages) : h[k] = h[k - 1] \o MessageReading(messages[k], field)
              /\ ReadingsOf(messages, field) = h[Len(messages)]
  <1> DEFINE n == Len(messages)
             start == <<>>
             F == [step \in (1..n) \X Seq(Int) |-> step[2] \o MessageReading(messages[step[1]], field)]
             Body(f, s) == IF s = {} THEN start ELSE f[s \ {Max(s)}] \o MessageReading(messages[Max(s)], field)
             it == CHOOSE f : f = [s \in SUBSET (1..n) |-> Body(f, s)]
  <1>1. n \in Nat /\ DOMAIN messages = 1..n /\ \A i \in 1..n : MessageReading(messages[i], field) \in Seq(Int)
    BY DEF AreMessages
  <1>2. ReadingsOf(messages, field) = it[1..n]
    <2>1. ReadingsOf(messages, field) = (CHOOSE f : f = [s \in SUBSET (DOMAIN messages) |-> Body(f, s)])[DOMAIN messages]
      BY Zenon DEF ReadingsOf, FoldLeft, MapThenFoldSet
    <2> QED
      BY <1>1, <2>1, Zenon
  <1>3. \A i \in 1..n, x \in Seq(Int) :
            /\ F[<<i, x>>] = x \o MessageReading(messages[i], field)
            /\ F[<<i, x>>] \in Seq(Int)
    BY <1>1, ConcatProperties
  <1>4. start \in Seq(Int)
    OBVIOUS
  <1> HIDE DEF n, start
  <1>5. StaysIn(Seq(Int), n, F)
    <2> HIDE DEF F
    <2> QED
      BY <1>3 DEF StaysIn
  <1>6. PICK f : Iterates(f, n, Seq(Int), start, F)
    <2> HIDE DEF F
    <2> QED
      BY <1>1, <1>4, <1>5, FoldIterates
  <1>7. ASSUME NEW s \in SUBSET (1..n) PROVE f[s] = Body(f, s)
    <2>1. CASE s # {}
      <3>1. Max(s) \in 1..n /\ s \ {Max(s)} \in SUBSET (1..n)
        BY <1>1, <2>1, MaxOfPositions
      <3>2. f[s \ {Max(s)}] \in Seq(Int)
        BY <1>6, <3>1 DEF Iterates
      <3>3. f[s] = F[<<Max(s), f[s \ {Max(s)}]>>]
        BY <1>6, <2>1 DEF Iterates
      <3> HIDE DEF F
      <3> QED
        BY <1>3, <2>1, <3>1, <3>2, <3>3
    <2>2. CASE s = {}
      BY <1>6, <2>2 DEF Iterates
    <2> QED
      BY <2>1, <2>2
  <1>8. f = [s \in SUBSET (1..n) |-> Body(f, s)]
    <2>1. f \in [SUBSET (1..n) -> Seq(Int)]
      BY <1>6 DEF Iterates
    <2> QED
      BY <1>7, <2>1
  <1>9. it = [s \in SUBSET (1..n) |-> Body(it, s)]
    BY <1>8, Zenon
  <1>10. it[{}] = start
    BY <1>9
  <1>11. ASSUME NEW k \in 1..n, it[1..(k - 1)] \in Seq(Int)
         PROVE it[1..k] = F[<<k, it[1..(k - 1)]>>]
    <2>1. /\ 1..k \in SUBSET (1..n) /\ 1..k # {} /\ Max(1..k) = k
          /\ (1..k) \ {k} = 1..(k - 1)
      BY <1>1, PositionsBefore
    <2>2. it[1..k] = it[1..(k - 1)] \o MessageReading(messages[k], field)
      BY <1>9, <2>1, Zenon
    <2> QED
      BY <1>3, <1>11, <2>2, Zenon
  <1>12. PICK h : StepsThrough(h, n, Seq(Int), start, F) /\ it[1..n] = h[n]
    <2> HIDE DEF F, it
    <2>1. Accumulates(it, n, Seq(Int), start, F)
      BY <1>10, <1>11 DEF Accumulates
    <2> QED
      BY <2>1, <1>1, <1>4, <1>5, FoldSteps
  <1>13. ASSUME NEW k \in 1..n PROVE h[k] = h[k - 1] \o MessageReading(messages[k], field)
    <2>1. k - 1 \in 0..n
      BY <1>1
    <2>2. h[k - 1] \in Seq(Int)
      BY <1>12, <2>1 DEF StepsThrough
    <2>3. h[k] = F[<<k, h[k - 1]>>]
      BY <1>12 DEF StepsThrough
    <2> HIDE DEF F
    <2> QED
      BY <1>1, <1>3, <2>2, <2>3
  <1> HIDE DEF it
  <1> QED
    BY <1>2, <1>12, <1>13 DEF n, start, StepsThrough

\* Messages tell what the reference reading reads in them, in order.
LEMMA MessagesTell ==
    ASSUME NEW messages, AreMessages(messages), NEW c \in ComponentNames,
           NEW name \in FieldsOf(c)
    PROVE LET parts == [i \in DOMAIN messages |-> normalizeBlobfuseMessage(messages[i])]
          IN  /\ All(parts) \in Normalized
              /\ Told(All(parts), SeriesOf(c, name)) = ReadingsOf(messages, <<c, name>>)
              /\ ReadingsOf(messages, <<c, name>>) \in Seq(Int)
  <1> DEFINE n == Len(messages)
             parts == [i \in DOMAIN messages |-> normalizeBlobfuseMessage(messages[i])]
             f == <<c, name>>
             s == SeriesOf(c, name)
  <1>1. n \in Nat /\ DOMAIN messages = 1..n /\ \A i \in 1..n : IsMessage(messages[i])
    BY DEF AreMessages
  <1>2. \A i \in 1..n : parts[i] \in Normalized /\ Told(parts[i], s) = MessageReading(messages[i], f)
    BY <1>1, MessageCounts, MessageTells
  <1>3. parts \in Seq(Normalized) /\ Len(parts) = n
    BY <1>1, <1>2
  <1> HIDE DEF parts, s, f
  <1>4. \A i \in 1..n : MessageReading(messages[i], f) \in Seq(Int)
    BY <1>2, ToldIsType
  <1>5. PICK r \in [0..n -> Seq(Int)] :
            /\ r[0] = <<>>
            /\ \A k \in 1..n : r[k] = r[k - 1] \o MessageReading(messages[k], f)
            /\ ReadingsOf(messages, f) = r[n]
    BY <1>4, ReadingsSteps
  <1> HIDE DEF n
  <1>6. PICK t \in [0..n -> Seq(Int)] :
            /\ t[0] = <<>>
            /\ \A k \in 1..n : t[k] = t[k - 1] \o Told(parts[k], s)
            /\ Told(All(parts), s) = t[n]
    <2> DEFINE l == Len(parts)
    <2>1. \E t \in [0..l -> Seq(Int)] :
            /\ t[0] = <<>>
            /\ \A k \in 1..l : t[k] = t[k - 1] \o Told(parts[k], s)
            /\ Told(All(parts), s) = t[l]
      BY <1>3, ToldOfParts
    <2>2. l = n
      BY <1>3
    <2> HIDE DEF l
    <2> QED
      BY <2>1, <2>2
  <1> DEFINE S == {k \in Nat : k <= n => t[k] = r[k]}
  <1>7. 0 \in S
    BY <1>5, <1>6
  <1>8. ASSUME NEW k \in Nat, k \in S PROVE k + 1 \in S
    <2> SUFFICES ASSUME k + 1 <= n PROVE t[k + 1] = r[k + 1]
      OBVIOUS
    <2> DEFINE e == k + 1
    <2>1. e \in 1..n /\ e - 1 = k /\ t[k] = r[k]
      BY <1>1, <1>8
    <2> HIDE DEF e
    <2>2. t[e] = t[k] \o Told(parts[e], s) /\ r[e] = r[k] \o MessageReading(messages[e], f)
      BY <1>5, <1>6, <2>1
    <2>3. t[e] = r[e]
      BY <1>2, <2>1, <2>2
    <2> QED
      BY <2>3 DEF e
  <1>9. t[n] = r[n]
    <2>1. Nat \subseteq S
      <3> HIDE DEF S
      <3> QED
        BY <1>7, <1>8, SetInduction
    <2> QED
      BY <1>1, <2>1
  <1>10. All(parts) \in Normalized
    BY <1>3, AllCounts
  <1>11. Told(All(parts), s) = ReadingsOf(messages, f)
    BY <1>5, <1>6, <1>9
  <1>12. ReadingsOf(messages, f) \in Seq(Int)
    BY <1>10, <1>11, ToldIsType
  <1> QED
    BY <1>10, <1>11, <1>12 DEF parts, s, f

-----------------------------------------------------------------------------
\* Records tell what is read of their fields.

\* the series of a field of a component
FieldSeries(f) == SeriesOf(f[1], f[2])
Fields == CounterFields \cup GaugeFields

\* A field is a component and a name in its statistics.
LEMMA FieldParts ==
    ASSUME NEW f \in Fields
    PROVE f = <<f[1], f[2]>> /\ f[1] \in ComponentNames /\ f[2] \in FieldsOf(f[1])
  <1>1. DOMAIN AzStorageCounters = {"Bytes Downloaded", "Bytes Uploaded"}
        /\ DOMAIN FileCacheCounters = {"Files Downloaded", "Files served from cache"}
        /\ DOMAIN FileCacheGauges = {"Cache Usage", "Usage Percent"}
    BY DEF AzStorageCounters, FileCacheCounters, FileCacheGauges
  <1>2. /\ FieldsOf("azstorage") = {"Bytes Downloaded", "Bytes Uploaded", "OpenFileHandles"}
        /\ FieldsOf("libfuse") = Operation \cup {"OpenFileHandles"}
        /\ FieldsOf("file_cache") = {"Files Downloaded", "Files served from cache",
                                     "Cache Usage", "Usage Percent"}
    BY DEF FieldsOf
  <1>3. "azstorage" \in ComponentNames /\ "libfuse" \in ComponentNames
        /\ "file_cache" \in ComponentNames
    BY DEF ComponentNames
  <1>4. \A A, B : f \in A \X B => f = <<f[1], f[2]>> /\ f[1] \in A /\ f[2] \in B
    OBVIOUS
  <1> DEFINE c == f[1]
             n == f[2]
  <1>5. /\ f = <<c, n>>
        /\ \/ c = "azstorage" /\ n \in {"Bytes Downloaded", "Bytes Uploaded"}
           \/ c = "libfuse" /\ n \in Operation
           \/ c = "file_cache" /\ n \in {"Files Downloaded", "Files served from cache"}
           \/ c \in {"libfuse", "azstorage"} /\ n = "OpenFileHandles"
           \/ c = "file_cache" /\ n \in {"Cache Usage", "Usage Percent"}
    BY <1>1, <1>4 DEF Fields, CounterFields, GaugeFields, Component
  <1> HIDE DEF c, n
  <1>6. c \in ComponentNames /\ n \in FieldsOf(c)
    BY <1>2, <1>3, <1>5
  <1> QED
    BY <1>5, <1>6 DEF c, n

\* Counter fields have counters, and gauge fields gauges.
LEMMA FieldSeriesType ==
    /\ \A f \in CounterFields : FieldSeries(f) \in CounterSeries
    /\ \A f \in GaugeFields : FieldSeries(f) \in GaugeSeries
  <1>1. DOMAIN AzStorageCounters = {"Bytes Downloaded", "Bytes Uploaded"}
        /\ DOMAIN FileCacheCounters = {"Files Downloaded", "Files served from cache"}
        /\ DOMAIN FileCacheGauges = {"Cache Usage", "Usage Percent"}
    BY DEF AzStorageCounters, FileCacheCounters, FileCacheGauges
  <1>2. ASSUME NEW f \in CounterFields PROVE FieldSeries(f) \in CounterSeries
    <2>1. CASE f \in {"azstorage"} \X DOMAIN AzStorageCounters
      <3>1. f[1] = "azstorage" /\ f[2] \in {"Bytes Downloaded", "Bytes Uploaded"}
        BY <1>1, <2>1
      <3>2. FieldSeries(f) = AzStorageCounters[f[2]]
        BY <3>1 DEF FieldSeries, SeriesOf
      <3> QED
        BY <1>1, <3>1, <3>2 DEF CounterSeries
    <2>2. CASE f \in {"libfuse"} \X Operation
      <3>1. f[1] = "libfuse" /\ f[2] \in Operation
        BY <2>2
      <3>2. FieldSeries(f) = LibfuseCounters[f[2]]
        BY <3>1, SeriesByName DEF FieldSeries
      <3> QED
        BY <3>1, <3>2 DEF CounterSeries
    <2>3. CASE f \in {"file_cache"} \X DOMAIN FileCacheCounters
      <3>1. f[1] = "file_cache" /\ f[2] \in {"Files Downloaded", "Files served from cache"}
        BY <1>1, <2>3
      <3>2. FieldSeries(f) = FileCacheCounters[f[2]]
        BY <3>1 DEF FieldSeries, SeriesOf
      <3> QED
        BY <1>1, <3>1, <3>2 DEF CounterSeries
    <2> QED
      BY <2>1, <2>2, <2>3 DEF CounterFields
  <1>3. ASSUME NEW f \in GaugeFields PROVE FieldSeries(f) \in GaugeSeries
    <2>1. CASE f \in Component \X {"OpenFileHandles"}
      <3>1. f[1] \in Component /\ f[2] = "OpenFileHandles"
        BY <2>1
      <3>2. FieldSeries(f) = OpenFiles(f[1])
        BY <3>1 DEF FieldSeries, SeriesOf
      <3> QED
        BY <3>1, <3>2 DEF GaugeSeries
    <2>2. CASE f \in {"file_cache"} \X DOMAIN FileCacheGauges
      <3>1. f[1] = "file_cache" /\ f[2] \in {"Cache Usage", "Usage Percent"}
        BY <1>1, <2>2
      <3>2. FieldSeries(f) = FileCacheGauges[f[2]]
        BY <3>1 DEF FieldSeries, SeriesOf
      <3> QED
        BY <1>1, <3>1, <3>2 DEF GaugeSeries
    <2> QED
      BY <2>1, <2>2 DEF GaugeFields
  <1> QED
    BY <1>2, <1>3

\* No two fields share a series.
LEMMA FieldSeriesDiffer ==
    ASSUME NEW f \in Fields, NEW g \in Fields, FieldSeries(f) = FieldSeries(g)
    PROVE f = g
  <1> DEFINE c == f[1]
             n == f[2]
             d == g[1]
             o == g[2]
  <1>1. /\ c \in ComponentNames /\ n \in FieldsOf(c) /\ d \in ComponentNames /\ o \in FieldsOf(d)
        /\ f = <<c, n>> /\ g = <<d, o>>
    BY FieldParts
  <1>2. SeriesOf(c, n) = SeriesOf(d, o)
    BY DEF FieldSeries
  <1> HIDE DEF c, n, d, o
  <1>3. c = d /\ n = o
    BY <1>1, <1>2, SeriesDiffer
  <1> QED
    BY <1>1, <1>3

\* The memory of the process is no field's series.
LEMMA MemoryIsApart ==
    ASSUME NEW f \in Fields
    PROVE FieldSeries(f) # MemoryVirtual
  <1>1. MemoryVirtual.metric = "MemoryVirtual" /\ MemoryVirtual \in GaugeSeries
    BY DEF MemoryVirtual, Plain, GaugeSeries
  <1>2. CASE f \in CounterFields
    BY <1>1, <1>2, FieldSeriesType, SeriesAreApart
  <1>3. CASE f \in GaugeFields
    <2>1. CASE f \in Component \X {"OpenFileHandles"}
      <3>1. FieldSeries(f) = OpenFiles(f[1])
        BY <2>1 DEF FieldSeries, SeriesOf
      <3>2. FieldSeries(f).metric = "OpenFiles"
        BY <3>1 DEF OpenFiles, Plain
      <3> QED
        BY <1>1, <3>2
    <2>2. CASE f \in {"file_cache"} \X DOMAIN FileCacheGauges
      <3>1. f[2] \in {"Cache Usage", "Usage Percent"}
        BY <2>2 DEF FileCacheGauges
      <3>2. FieldSeries(f) = FileCacheGauges[f[2]]
        BY <3>1 DEF FieldSeries, SeriesOf
      <3>3. FieldSeries(f) = Plain("CacheUsage") \/ FieldSeries(f) = Plain("CacheUtilization")
        BY <3>1, <3>2 DEF FileCacheGauges
      <3>4. FieldSeries(f).metric \in {"CacheUsage", "CacheUtilization"}
        BY <3>3 DEF Plain
      <3> QED
        BY <1>1, <3>4
    <2> QED
      BY <1>3, <2>1, <2>2 DEF GaugeFields
  <1> QED
    BY <1>2, <1>3 DEF Fields

\* The monitors the exporter does not support update nothing
\* (normalizeUnsupportedArray, normalizeUnsupportedString).
LEMMA OthersAreSilent ==
    ASSUME NEW raw, IsValue(raw, IsMessage)
    PROVE /\ Silent(normalizeUnsupportedArray(raw)) /\ Silent(normalizeUnsupportedString(raw))
          /\ Silent(Nothing)
  <1>1. Silent(normalizeUnsupportedArray(raw))
    <2>1. CASE Decodes(raw, "array")
      <3> DEFINE n == Len(raw.elements)
      <3>1. normalizeUnsupportedArray(raw) = Ignored(n)
        BY <2>1 DEF normalizeUnsupportedArray
      <3>2. n \in Nat
        BY <2>1 DEF Decodes, IsValue
      <3> HIDE DEF n
      <3> QED
        BY <3>1, <3>2, CountsAreSilent
    <2>2. CASE ~Decodes(raw, "array")
      BY <2>2, CountsAreSilent DEF normalizeUnsupportedArray
    <2> QED
      BY <2>1, <2>2
  <1>2. Silent(normalizeUnsupportedString(raw))
    BY CountsAreSilent DEF normalizeUnsupportedString
  <1> QED
    BY <1>1, <1>2, CountsAreSilent

\* The statistics of a record tell a field's readings.
LEMMA StatsTell ==
    ASSUME NEW record, IsRecord(record), NEW f \in Fields
    PROVE LET p == Field(record, "BlobfuseStats", normalizeBlobfuseStats)
          IN  /\ p \in Normalized
              /\ Told(p, FieldSeries(f)) = Readings(record, f)
              /\ Readings(record, f) \in Seq(Int)
  <1> DEFINE p == Field(record, "BlobfuseStats", normalizeBlobfuseStats)
             messages == Messages(record)
             parts == [i \in DOMAIN messages |-> normalizeBlobfuseMessage(messages[i])]
             s == FieldSeries(f)
             raw == record["BlobfuseStats"]
             here == "BlobfuseStats" \in DOMAIN record
  <1>1. /\ All(parts) \in Normalized
        /\ Told(All(parts), s) = ReadingsOf(messages, f)
        /\ ReadingsOf(messages, f) \in Seq(Int)
    <2> DEFINE c == f[1]
               n == f[2]
    <2>1. c \in ComponentNames /\ n \in FieldsOf(c) /\ f = <<c, n>>
      BY FieldParts
    <2>2. AreMessages(messages)
      BY RecordHasMessages
    <2>3. s = SeriesOf(c, n)
      BY DEF FieldSeries
    <2> HIDE DEF messages, c, n, s
    <2> QED
      BY <2>1, <2>2, <2>3, MessagesTell
  <1>2. Readings(record, f) = ReadingsOf(messages, f)
    BY DEF Readings, ReadingsOf
  <1>3. CASE here /\ raw.type = "array"
    <2>1. messages = raw.elements
      BY <1>3 DEF Messages
    <2>2. p = All(parts)
      BY <1>3, <2>1 DEF Field, normalizeBlobfuseStats, Decodes
    <2> HIDE DEF p, parts, s, messages
    <2> QED
      BY <1>1, <1>2, <2>2 DEF p, s
  <1>4. CASE ~(here /\ raw.type = "array")
    <2>1. messages = <<>>
      BY <1>4 DEF Messages
    <2>2. parts = <<>>
      BY <2>1
    <2>3. p = Nothing \/ p = Invalid
      BY <1>4 DEF Field, normalizeBlobfuseStats, Decodes
    <2> HIDE DEF p, parts, s, messages
    <2>4. p \in Normalized /\ Told(p, s) = <<>>
      BY <2>3, CountsAreSilent DEF Silent
    <2>5. Told(All(parts), s) = <<>>
      <3> DEFINE none == <<>>
      <3>1. none \in Seq(Normalized) /\ \A i \in 1..Len(none) : Told(none[i], s) = <<>>
        OBVIOUS
      <3> HIDE DEF none
      <3>2. Told(All(none), s) = <<>>
        BY <3>1, NoneTells
      <3> QED
        BY <2>2, <3>2 DEF none
    <2> QED
      BY <1>1, <1>2, <2>4, <2>5 DEF p, s
  <1> QED
    BY <1>3, <1>4

\* Besides the statistics nothing in a record tells of a field.
LEMMA RecordTells ==
    ASSUME NEW record, IsRecord(record), NEW f \in Fields
    PROVE /\ Told(NormalizeRecord(record), FieldSeries(f)) = Readings(record, f)
          /\ Readings(record, f) \in Seq(Int)
  <1> DEFINE s == FieldSeries(f)
             D == DOMAIN record
             p1 == UnknownFields(record, TopLevelFields)
             p2 == Field(record, "Timestamp", normalizeTimestamp)
             p3 == Field(record, "BlobfuseStats", normalizeBlobfuseStats)
             p4 == Field(record, "FileCache", normalizeUnsupportedArray)
             p5 == Field(record, "CPUUsage", normalizeUnsupportedString)
             p6 == Field(record, "MemoryUsage", normalizeMemory)
             p7 == Field(record, "NetworkUsage", normalizeUnsupportedString)
             v == NormalizeRecord(record)
             parts == <<p1, p2, p3, p4, p5, p6, p7>>
  <1>1. IsFiniteSet(D) /\ \A name \in D : IsValue(record[name], IsMessage)
    BY DEF IsRecord
  <1>2. Silent(p1)
    BY <1>1, UnknownIsSilent
  <1>3. Silent(p2)
    BY TimestampIsSilent
  <1>4. p3 \in Normalized /\ Told(p3, s) = Readings(record, f) /\ Readings(record, f) \in Seq(Int)
    BY StatsTell
  <1>5. Silent(p4)
    BY <1>1, OthersAreSilent, CountsAreSilent DEF Field
  <1>6. Silent(p5) /\ Silent(p7)
    BY <1>1, OthersAreSilent, CountsAreSilent DEF Field
  <1>7. p6 \in Normalized /\ Told(p6, s) = <<>>
    <2> DEFINE raw == record["MemoryUsage"]
    <2>1. CASE "MemoryUsage" \in D
      <3> DEFINE told == IF /\ Decodes(raw, "string") /\ raw.unit \in DOMAIN MemoryUnit
                            /\ parseScaledNonNegative(raw, MemoryUnit[raw.unit])
                         THEN <<raw.amount>> ELSE <<>>
                 w == Formatted(raw, MemoryUnit, MemoryVirtual)
      <3>1. IsFieldValue(raw)
        BY <1>1, <2>1 DEF IsFieldValue, IsValue
      <3>2. p6 = w
        BY <2>1 DEF Field, normalizeMemory
      <3>3. MemoryVirtual \in GaugeSeries /\ \A u \in DOMAIN MemoryUnit : MemoryUnit[u] \in Int
        BY SeriesOfTables, UnitPowers
      <3>4. TellsOnly(w, MemoryVirtual, told)
        <4> HIDE DEF raw
        <4> QED
          BY <3>1, <3>3, FormattedTells
      <3>5. s # MemoryVirtual
        BY MemoryIsApart
      <3> HIDE DEF w, told, s
      <3> QED
        BY <3>2, <3>4, <3>5 DEF TellsOnly
    <2>2. CASE "MemoryUsage" \notin D
      <3>1. p6 = Nothing
        BY <2>2 DEF Field
      <3> QED
        BY <3>1, CountsAreSilent DEF Silent
    <2> QED
      BY <2>1, <2>2
  <1>8. v = All(parts)
    BY DEF NormalizeRecord
  <1>9. /\ p1 \in Normalized /\ p2 \in Normalized /\ p3 \in Normalized /\ p4 \in Normalized
        /\ p5 \in Normalized /\ p6 \in Normalized /\ p7 \in Normalized
    BY <1>2, <1>3, <1>4, <1>5, <1>6, <1>7 DEF Silent
  <1> HIDE DEF p1, p2, p3, p4, p5, p6, p7, v, s, D
  <1>10. /\ parts \in Seq(Normalized) /\ Len(parts) = 7
         /\ parts[1] = p1 /\ parts[2] = p2 /\ parts[3] = p3 /\ parts[4] = p4
         /\ parts[5] = p5 /\ parts[6] = p6 /\ parts[7] = p7
    BY <1>9
  <1> HIDE DEF parts
  <1>11. /\ Told(p1, s) = <<>> /\ Told(p2, s) = <<>> /\ Told(p4, s) = <<>>
         /\ Told(p5, s) = <<>> /\ Told(p6, s) = <<>> /\ Told(p7, s) = <<>>
    BY <1>2, <1>3, <1>5, <1>6, <1>7 DEF Silent
  <1>12. 3 \in 1..Len(parts) /\ \A i \in 1..Len(parts) : i # 3 => Told(parts[i], s) = <<>>
    <2>1. 1..7 = {1, 2, 3, 4, 5, 6, 7}
      OBVIOUS
    <2> QED
      BY <1>10, <1>11, <2>1
  <1>13. Told(All(parts), s) = Told(parts[3], s)
    BY <1>10, <1>12, OneTells
  <1> QED
    BY <1>4, <1>8, <1>10, <1>13 DEF v, s

-----------------------------------------------------------------------------
\* Keys.

\* What an instrument is called.
LEMMA InstrumentNames ==
    /\ InstrumentName("StorageIO") = "azure.blobfuse.storage.io"
    /\ InstrumentName("FSOperations") = "azure.blobfuse.fs.operations"
    /\ InstrumentName("CacheDownloads") = "azure.blobfuse.cache.file.downloads"
    /\ InstrumentName("CacheHits") = "azure.blobfuse.cache.hits"
    /\ InstrumentName("OpenFiles") = "azure.blobfuse.file.open"
    /\ InstrumentName("CacheUsage") = "azure.blobfuse.cache.usage"
    /\ InstrumentName("CacheUtilization") = "azure.blobfuse.cache.utilization"
    /\ InstrumentName("MemoryVirtual") = "process.memory.virtual"
  BY DEF InstrumentName, CounterName, GaugeName, UpDownCounterName

\* What a series of each metric is exported under.
LEMMA Descriptions ==
    /\ DescribeSeries(AzStorageCounters["Bytes Downloaded"]) =
            <<"azure.blobfuse.storage.io", <<"azure.blobfuse.io.direction", "read">>>>
    /\ DescribeSeries(AzStorageCounters["Bytes Uploaded"]) =
            <<"azure.blobfuse.storage.io", <<"azure.blobfuse.io.direction", "write">>>>
    /\ \A n \in Operation : DescribeSeries(LibfuseCounters[n]) =
            <<"azure.blobfuse.fs.operations",
              <<"azure.blobfuse.operation.name", operationName[n]>>>>
    /\ DescribeSeries(FileCacheCounters["Files Downloaded"]) =
            <<"azure.blobfuse.cache.file.downloads", <<>>>>
    /\ DescribeSeries(FileCacheCounters["Files served from cache"]) =
            <<"azure.blobfuse.cache.hits", <<>>>>
    /\ \A c \in Component : DescribeSeries(OpenFiles(c)) =
            <<"azure.blobfuse.file.open", <<"azure.blobfuse.component.name", c>>>>
    /\ DescribeSeries(FileCacheGauges["Cache Usage"]) = <<"azure.blobfuse.cache.usage", <<>>>>
    /\ DescribeSeries(FileCacheGauges["Usage Percent"]) =
            <<"azure.blobfuse.cache.utilization", <<>>>>
    /\ DescribeSeries(MemoryVirtual) = <<"process.memory.virtual", <<>>>>
  <1>1. /\ AzStorageCounters["Bytes Downloaded"].metric = "StorageIO"
        /\ AzStorageCounters["Bytes Downloaded"].direction = "read"
        /\ AzStorageCounters["Bytes Uploaded"].metric = "StorageIO"
        /\ AzStorageCounters["Bytes Uploaded"].direction = "write"
    BY DEF AzStorageCounters, Plain
  <1>2. \A n \in Operation : /\ LibfuseCounters[n].metric = "FSOperations"
                             /\ LibfuseCounters[n].operation = n
    BY DEF LibfuseCounters, Plain
  <1>3. /\ FileCacheCounters["Files Downloaded"] = Plain("CacheDownloads")
        /\ FileCacheCounters["Files served from cache"] = Plain("CacheHits")
        /\ FileCacheGauges["Cache Usage"] = Plain("CacheUsage")
        /\ FileCacheGauges["Usage Percent"] = Plain("CacheUtilization")
        /\ MemoryVirtual = Plain("MemoryVirtual")
    BY DEF FileCacheCounters, FileCacheGauges, MemoryVirtual
  <1>4. \A m : Plain(m).metric = m
    BY DEF Plain
  <1>5. \A c : OpenFiles(c).metric = "OpenFiles" /\ OpenFiles(c).component = c
    BY DEF OpenFiles, Plain
  <1>6. ASSUME NEW s, s.metric = "StorageIO"
        PROVE DescribeSeries(s) =
                <<"azure.blobfuse.storage.io", <<"azure.blobfuse.io.direction", s.direction>>>>
    BY <1>6, InstrumentNames DEF DescribeSeries, AttributeOf
  <1>7. ASSUME NEW s, s.metric = "FSOperations"
        PROVE DescribeSeries(s) = <<"azure.blobfuse.fs.operations",
                <<"azure.blobfuse.operation.name", operationName[s.operation]>>>>
    BY <1>7, InstrumentNames DEF DescribeSeries, AttributeOf
  <1>8. ASSUME NEW s, s.metric = "OpenFiles"
        PROVE DescribeSeries(s) =
                <<"azure.blobfuse.file.open", <<"azure.blobfuse.component.name", s.component>>>>
    BY <1>8, InstrumentNames DEF DescribeSeries, AttributeOf
  <1>9. ASSUME NEW s, s.metric \notin {"StorageIO", "FSOperations", "OpenFiles"}
        PROVE DescribeSeries(s) = <<InstrumentName(s.metric), <<>>>>
    BY <1>9 DEF DescribeSeries, AttributeOf
  <1>10. /\ DescribeSeries(AzStorageCounters["Bytes Downloaded"]) =
            <<"azure.blobfuse.storage.io", <<"azure.blobfuse.io.direction", "read">>>>
         /\ DescribeSeries(AzStorageCounters["Bytes Uploaded"]) =
            <<"azure.blobfuse.storage.io", <<"azure.blobfuse.io.direction", "write">>>>
    BY <1>1, <1>6
  <1>11. \A n \in Operation : DescribeSeries(LibfuseCounters[n]) =
            <<"azure.blobfuse.fs.operations",
              <<"azure.blobfuse.operation.name", operationName[n]>>>>
    BY <1>2, <1>7
  <1>12. \A c \in Component : DescribeSeries(OpenFiles(c)) =
            <<"azure.blobfuse.file.open", <<"azure.blobfuse.component.name", c>>>>
    BY <1>5, <1>8
  <1>13. \A m : m \notin {"StorageIO", "FSOperations", "OpenFiles"} =>
                DescribeSeries(Plain(m)) = <<InstrumentName(m), <<>>>>
    BY <1>4, <1>9
  <1>14. /\ DescribeSeries(Plain("CacheDownloads")) = <<"azure.blobfuse.cache.file.downloads", <<>>>>
         /\ DescribeSeries(Plain("CacheHits")) = <<"azure.blobfuse.cache.hits", <<>>>>
         /\ DescribeSeries(Plain("CacheUsage")) = <<"azure.blobfuse.cache.usage", <<>>>>
         /\ DescribeSeries(Plain("CacheUtilization")) = <<"azure.blobfuse.cache.utilization", <<>>>>
         /\ DescribeSeries(Plain("MemoryVirtual")) = <<"process.memory.virtual", <<>>>>
    BY <1>13, InstrumentNames
  <1> QED
    BY <1>3, <1>10, <1>11, <1>12, <1>14

\* A field's series is exported under the field's key.
LEMMA KeysOfFields ==
    \A f \in Fields : DescribeSeries(FieldSeries(f)) = KeyOf(f)
  <1> SUFFICES ASSUME NEW f \in Fields PROVE DescribeSeries(FieldSeries(f)) = KeyOf(f)
    OBVIOUS
  <1>1. DOMAIN AzStorageCounters = {"Bytes Downloaded", "Bytes Uploaded"}
        /\ DOMAIN FileCacheCounters = {"Files Downloaded", "Files served from cache"}
        /\ DOMAIN FileCacheGauges = {"Cache Usage", "Usage Percent"}
    BY DEF AzStorageCounters, FileCacheCounters, FileCacheGauges
  <1>2. CASE f \in {"azstorage"} \X DOMAIN AzStorageCounters
    <2>1. CASE f[2] = "Bytes Downloaded"
      <3>1. f[1] = "azstorage" /\ FieldSeries(f) = AzStorageCounters["Bytes Downloaded"]
        BY <1>2, <2>1, SeriesByName DEF FieldSeries
      <3> QED
        BY <2>1, <3>1, Descriptions DEF KeyOf
    <2>2. CASE f[2] = "Bytes Uploaded"
      <3>1. f[1] = "azstorage" /\ FieldSeries(f) = AzStorageCounters["Bytes Uploaded"]
        BY <1>2, <2>2, SeriesByName DEF FieldSeries
      <3> QED
        BY <2>2, <3>1, Descriptions DEF KeyOf
    <2> QED
      BY <1>1, <1>2, <2>1, <2>2
  <1>3. CASE f \in {"libfuse"} \X Operation
    <2>1. f[1] = "libfuse" /\ f[2] \in Operation
      BY <1>3
    <2>2. FieldSeries(f) = LibfuseCounters[f[2]] /\ f[2] # "OpenFileHandles"
      BY <2>1, SeriesByName, OperationsAreApart DEF FieldSeries
    <2> DEFINE n == f[2]
               key == <<"azure.blobfuse.fs.operations",
                        <<"azure.blobfuse.operation.name", operationName[n]>>>>
    <2>3. KeyOf(f) = key
      <3>1. /\ f[1] = "libfuse" /\ f[1] # "azstorage" /\ f[2] = n /\ n # "OpenFileHandles"
            /\ n # "Files Downloaded" /\ n # "Files served from cache"
            /\ n # "Cache Usage" /\ n # "Usage Percent"
        BY <2>1, OperationsAreApart
      <3> HIDE DEF n
      <3> QED
        BY <3>1 DEF KeyOf
    <2> HIDE DEF key, n
    <2>4. DescribeSeries(LibfuseCounters[n]) = key
      BY <2>1, Descriptions DEF key, n
    <2> QED
      BY <2>2, <2>3, <2>4 DEF n
  <1>4. CASE f \in {"file_cache"} \X DOMAIN FileCacheCounters
    <2>1. CASE f[2] = "Files Downloaded"
      <3>1. f[1] = "file_cache" /\ FieldSeries(f) = FileCacheCounters["Files Downloaded"]
        BY <1>4, <2>1, SeriesByName DEF FieldSeries
      <3> QED
        BY <2>1, <3>1, Descriptions DEF KeyOf
    <2>2. CASE f[2] = "Files served from cache"
      <3>1. f[1] = "file_cache" /\ FieldSeries(f) = FileCacheCounters["Files served from cache"]
        BY <1>4, <2>2, SeriesByName DEF FieldSeries
      <3> QED
        BY <2>2, <3>1, Descriptions DEF KeyOf
    <2> QED
      BY <1>1, <1>4, <2>1, <2>2
  <1>5. CASE f \in Component \X {"OpenFileHandles"}
    <2>1. f[1] \in Component /\ f[2] = "OpenFileHandles"
      BY <1>5
    <2>2. FieldSeries(f) = OpenFiles(f[1])
      BY <2>1 DEF FieldSeries, SeriesOf
    <2> QED
      BY <2>1, <2>2, Descriptions DEF KeyOf
  <1>6. CASE f \in {"file_cache"} \X DOMAIN FileCacheGauges
    <2>1. CASE f[2] = "Cache Usage"
      <3>1. f[1] = "file_cache" /\ FieldSeries(f) = FileCacheGauges["Cache Usage"]
        BY <1>6, <2>1, SeriesByName DEF FieldSeries
      <3> QED
        BY <2>1, <3>1, Descriptions DEF KeyOf
    <2>2. CASE f[2] = "Usage Percent"
      <3>1. f[1] = "file_cache" /\ FieldSeries(f) = FileCacheGauges["Usage Percent"]
        BY <1>6, <2>2, SeriesByName DEF FieldSeries
      <3> QED
        BY <2>2, <3>1, Descriptions DEF KeyOf
    <2> QED
      BY <1>1, <1>6, <2>1, <2>2
  <1> QED
    BY <1>2, <1>3, <1>4, <1>5, <1>6 DEF Fields, CounterFields, GaugeFields

\* No two gauges are exported under the same key.
LEMMA GaugeKeysDiffer ==
    ASSUME NEW s \in GaugeSeries, NEW t \in GaugeSeries, DescribeSeries(s) = DescribeSeries(t)
    PROVE s = t
  <1> DEFINE g1 == FileCacheGauges["Cache Usage"]
             g2 == FileCacheGauges["Usage Percent"]
             Caches == {g1, g2, MemoryVirtual}
  <1>1. \A g \in GaugeSeries : (\E c \in Component : g = OpenFiles(c)) \/ g \in Caches
    <2>1. DOMAIN FileCacheGauges = {"Cache Usage", "Usage Percent"}
      BY DEF FileCacheGauges
    <2> QED
      BY <2>1 DEF GaugeSeries
  <1> DEFINE ks == DescribeSeries(s)
             kt == DescribeSeries(t)
             k1 == DescribeSeries(g1)
             k2 == DescribeSeries(g2)
             k3 == DescribeSeries(MemoryVirtual)
             open == "azure.blobfuse.file.open"
  <1>a. /\ k1 = <<"azure.blobfuse.cache.usage", <<>>>>
        /\ k2 = <<"azure.blobfuse.cache.utilization", <<>>>>
        /\ k3 = <<"process.memory.virtual", <<>>>>
    BY Descriptions
  <1>b. ASSUME NEW c \in Component
        PROVE DescribeSeries(OpenFiles(c)) =
                <<"azure.blobfuse.file.open", <<"azure.blobfuse.component.name", c>>>>
    BY Descriptions
  <1> HIDE DEF k1, k2, k3, g1, g2
  <1>c. /\ k1[1] = "azure.blobfuse.cache.usage"
        /\ k2[1] = "azure.blobfuse.cache.utilization"
        /\ k3[1] = "process.memory.virtual"
    BY <1>a
  <1>2. \A g \in Caches : DescribeSeries(g)[1] # open
    BY <1>c DEF k1, k2, k3
  <1>3. \A c \in Component : DescribeSeries(OpenFiles(c))[1] = open
                             /\ DescribeSeries(OpenFiles(c))[2][2] = c
    <2> SUFFICES ASSUME NEW c \in Component
                 PROVE DescribeSeries(OpenFiles(c))[1] = open
                       /\ DescribeSeries(OpenFiles(c))[2][2] = c
      OBVIOUS
    <2> DEFINE k == DescribeSeries(OpenFiles(c))
               v == <<"azure.blobfuse.component.name", c>>
    <2>1. k = <<open, v>>
      BY <1>b
    <2>2. v[2] = c
      OBVIOUS
    <2> HIDE DEF k, v
    <2>3. k[1] = open /\ k[2] = v
      BY <2>1
    <2> QED
      BY <2>2, <2>3 DEF k
  <1>4. CASE s \in Caches /\ t \in Caches
    <2>1. k1 # k2 /\ k1 # k3 /\ k2 # k3
      BY <1>c
    <2> QED
      BY <1>4, <2>1 DEF k1, k2, k3
  <1> HIDE DEF Caches
  <1>5. CASE \E c \in Component : s = OpenFiles(c)
    <2>1. PICK c \in Component : s = OpenFiles(c)
      BY <1>5
    <2>2. PICK d \in Component : t = OpenFiles(d)
      BY <1>1, <1>2, <1>3, <2>1
    <2> QED
      BY <1>3, <2>1, <2>2
  <1>6. CASE \E c \in Component : t = OpenFiles(c)
    <2>1. PICK c \in Component : t = OpenFiles(c)
      BY <1>6
    <2>2. PICK d \in Component : s = OpenFiles(d)
      BY <1>1, <1>2, <1>3, <2>1
    <2> QED
      BY <1>3, <2>1, <2>2
  <1> QED
    BY <1>1, <1>4, <1>5, <1>6

-----------------------------------------------------------------------------
\* Gauges.

\* The gauge of a series was at before, and is at what it was told last.
GaugeAfter(before, told, after, s) ==
    IF told = <<>>
    THEN (s \in DOMAIN after) = (s \in DOMAIN before)
         /\ (s \in DOMAIN before => after[s] = before[s])
    ELSE s \in DOMAIN after /\ after[s][1] = told[Len(told)]

\* One more update.
LEMMA GaugeAfterOne ==
    ASSUME NEW before \in Gauges, NEW told \in Seq(Int), NEW after \in Gauges,
           NEW s \in GaugeSeries, GaugeAfter(before, told, after, s), NEW u \in GaugeUpdate
    PROVE GaugeAfter(before, ToldNext(told, u, s), Put(after, u.series, u.value), s)
  <1> DEFINE x == u.series
             v == u.value
             put == Put(after, x, v)
             next == ToldNext(told, u, s)
  <1>1. x \in GaugeSeries /\ v \in Int \X Int
    BY DEF GaugeUpdate
  <1>2. x \notin CounterSeries
    BY <1>1, SeriesAreApart
  <1>3. Halves(u) = v[1] /\ v[1] \in Int
    BY <1>1, <1>2 DEF Halves
  <1>4. next = IF x = s THEN Append(told, v[1]) ELSE told
    BY <1>3 DEF ToldNext
  <1> HIDE DEF x, v, next
  <1>5. /\ DOMAIN put = DOMAIN after \cup {x} /\ put[x] = v
        /\ \A y \in DOMAIN after : y # x => put[y] = after[y]
    BY DEF Put
  <1> HIDE DEF put
  <1>6. CASE x = s
    <2> DEFINE e == v[1]
               last == next[Len(next)]
    <2>1. next = Append(told, e) /\ e \in Int
      BY <1>3, <1>4, <1>6
    <2> HIDE DEF e
    <2>2. next # <<>> /\ last = e
      BY <2>1
    <2> HIDE DEF last
    <2>3. s \in DOMAIN put /\ put[s][1] = e
      BY <1>5, <1>6 DEF e
    <2>4. GaugeAfter(before, next, put, s)
      BY <2>2, <2>3 DEF GaugeAfter, last
    <2> QED
      BY <2>4 DEF next, put, x, v
  <1>7. CASE x # s
    <2>1. next = told
      BY <1>4, <1>7
    <2>2. (s \in DOMAIN put <=> s \in DOMAIN after) /\ (s \in DOMAIN after => put[s] = after[s])
      BY <1>5, <1>7
    <2>3. GaugeAfter(before, told, put, s)
      <3>1. CASE told = <<>>
        BY <2>2, <3>1 DEF GaugeAfter
      <3>2. CASE told # <<>>
        BY <2>2, <3>2 DEF GaugeAfter
      <3> QED
        BY <3>1, <3>2
    <2> QED
      BY <2>1, <2>3 DEF next, put, x, v
  <1> QED
    BY <1>6, <1>7

\* ApplyGauges leaves a gauge at what the updates tell last.
LEMMA GaugesFollow ==
    ASSUME NEW updates \in Seq(GaugeUpdate), gauges \in Gauges, NEW s \in GaugeSeries
    PROVE GaugeAfter(gauges, ToldBy(updates, s), ApplyGauges(updates), s)
  <1> DEFINE n == Len(updates)
  <1>1. n \in Nat /\ \A i \in 1..n : updates[i] \in GaugeUpdate
    OBVIOUS
  <1>2. updates \in Seq(Update)
    BY DEF Update
  <1>3. PICK h \in [0..n -> Gauges] :
              /\ h[0] = gauges
              /\ \A k \in 1..n : h[k] = Put(h[k - 1], updates[k].series, updates[k].value)
              /\ ApplyGauges(updates) = h[n]
    BY ApplyGaugesSteps
  <1>4. PICK t \in [0..n -> Seq(Int)] :
              /\ t[0] = <<>>
              /\ \A k \in 1..n : t[k] = ToldNext(t[k - 1], updates[k], s)
              /\ ToldBy(updates, s) = t[n]
    BY <1>2, ToldSteps
  <1> HIDE DEF n
  <1> DEFINE S == {k \in Nat : k <= n => GaugeAfter(gauges, t[k], h[k], s)}
  <1>5. 0 \in S
    BY <1>3, <1>4 DEF GaugeAfter
  <1>6. ASSUME NEW k \in Nat, k \in S PROVE k + 1 \in S
    <2> SUFFICES ASSUME k + 1 <= n PROVE GaugeAfter(gauges, t[k + 1], h[k + 1], s)
      OBVIOUS
    <2> DEFINE e == k + 1
               a == t[k]
               m == h[k]
               u == updates[e]
    <2>1. e \in 1..n /\ e - 1 = k /\ k \in 0..n /\ GaugeAfter(gauges, a, m, s)
      BY <1>1, <1>6
    <2> HIDE DEF e
    <2>2. u \in GaugeUpdate /\ a \in Seq(Int) /\ m \in Gauges
      BY <1>1, <2>1
    <2>3. h[e] = Put(m, u.series, u.value) /\ t[e] = ToldNext(a, u, s)
      BY <1>3, <1>4, <2>1
    <2> HIDE DEF a, m, u
    <2>4. GaugeAfter(gauges, ToldNext(a, u, s), Put(m, u.series, u.value), s)
      BY <2>1, <2>2, GaugeAfterOne
    <2> QED
      BY <2>3, <2>4 DEF e
  <1>7. GaugeAfter(gauges, t[n], h[n], s)
    <2>1. Nat \subseteq S
      <3> HIDE DEF S
      <3> QED
        BY <1>5, <1>6, SetInduction
    <2> QED
      BY <1>1, <2>1
  <1> QED
    BY <1>3, <1>4, <1>7

(***************************************************************************)
(* Gauges hold the last readable values of their fields, and only those,   *)
(* until the source ends.                                                  *)
(***************************************************************************)
GaugeIsLast(last, s) ==
    IF last = <<>> THEN s \notin DOMAIN gauges
    ELSE s \in DOMAIN gauges /\ gauges[s][1] = last[1]

GaugeInv ==
    /\ seen \in [Fields -> Seq(Int)]
    /\ mode # "ended" => \A f \in GaugeFields : GaugeIsLast(seen[f], FieldSeries(f))
    /\ mode = "ended" => gauges = Empty

\* It holds at the start.
LEMMA GaugeInvInit == ExportInit => GaugeInv
  <1> SUFFICES ASSUME ExportInit PROVE GaugeInv
    OBVIOUS
  <1>1. seen = [f \in Fields |-> <<>>] /\ gauges = Empty /\ mode = "baseline"
    BY DEF ExportInit, Fields
  <1>2. DOMAIN gauges = {}
    BY <1>1 DEF Empty
  <1>3. seen \in [Fields -> Seq(Int)] /\ \A f \in Fields : seen[f] = <<>>
    BY <1>1
  <1>4. GaugeFields \subseteq Fields
    BY DEF Fields
  <1>5. \A f \in GaugeFields : GaugeIsLast(seen[f], FieldSeries(f))
    BY <1>2, <1>3, <1>4 DEF GaugeIsLast
  <1> QED
    BY <1>1, <1>3, <1>5 DEF GaugeInv

\* The history of a field is of numbers.
LEMMA LatestType ==
    ASSUME NEW before \in Seq(Int), NEW readings \in Seq(Int)
    PROVE Latest(before, readings) \in Seq(Int)
  <1>1. CASE readings = <<>>
    BY <1>1 DEF Latest
  <1>2. CASE readings # <<>>
    <2> DEFINE x == readings[Len(readings)]
    <2>1. x \in Int
      BY <1>2
    <2>2. Latest(before, readings) = <<x>>
      BY <1>2 DEF Latest, Last
    <2> HIDE DEF x
    <2> QED
      BY <2>1, <2>2
  <1> QED
    BY <1>1, <1>2

\* A record keeps it: ApplyGauges sets each gauge to what the record told of it last
\* (Processor.Process, State.Apply).
LEMMA ProcessKeepsGauges ==
    ASSUME ExportInv, GaugeInv, NEW record \in SourceRecords, Process(record)
    PROVE GaugeInv'
  <1> DEFINE v == NormalizeRecord(record)
             updates == v.gauges
  <1>1. IsRecord(record)
    BY SourceRecordsAssumption
  <1>2. updates \in Seq(GaugeUpdate)
    BY <1>1, RecordCounts DEF Normalized
  <1>3. gauges' = ApplyGauges(updates) /\ mode' = mode /\ mode \in {"baseline", "live"}
    BY DEF Process
  <1>4. seen' = [f \in Fields |-> Latest(seen[f], Readings(record, f))]
    BY DEF Process, GaugeInv
  <1>5. seen \in [Fields -> Seq(Int)]
    BY DEF GaugeInv
  <1>6. \A f \in Fields : /\ Readings(record, f) \in Seq(Int)
                          /\ Told(v, FieldSeries(f)) = Readings(record, f)
    BY <1>1, RecordTells
  <1>7. seen' \in [Fields -> Seq(Int)]
    BY <1>4, <1>5, <1>6, LatestType
  <1>8. ASSUME NEW f \in GaugeFields PROVE GaugeIsLast(seen[f], FieldSeries(f))'
    <2> DEFINE s == FieldSeries(f)
               told == ToldBy(updates, s)
               after == ApplyGauges(updates)
               last == seen[f]
    <2>1. s \in GaugeSeries /\ f \in Fields
      BY FieldSeriesType DEF Fields
    <2>2. s \notin CounterSeries
      BY <2>1, SeriesAreApart
    <2>3. told = Readings(record, f)
      BY <1>6, <2>1, <2>2 DEF Told
    <2> HIDE DEF s, updates
    <2>4. GaugeAfter(gauges, told, after, s)
      BY <1>2, <2>1, GaugesFollow DEF ExportInv
    <2>5. GaugeIsLast(last, s) /\ last \in Seq(Int)
      BY <1>3, <1>5, <2>1 DEF GaugeInv, s
    <2>6. told \in Seq(Int) /\ seen'[f] = Latest(last, told)
      BY <1>4, <1>6, <2>1, <2>3
    <2> HIDE DEF told, after, last
    <2>7. gauges' = after
      BY <1>3 DEF after
    <2>8. CASE told = <<>>
      <3>1. seen'[f] = last
        BY <2>6, <2>8 DEF Latest
      <3>2. (s \in DOMAIN after <=> s \in DOMAIN gauges) /\ (s \in DOMAIN gauges => after[s] = gauges[s])
        BY <2>4, <2>8 DEF GaugeAfter
      <3>3. CASE last = <<>>
        BY <2>5, <2>7, <3>1, <3>2, <3>3 DEF GaugeIsLast, s
      <3>4. CASE last # <<>>
        BY <2>5, <2>7, <3>1, <3>2, <3>4 DEF GaugeIsLast, s
      <3> QED
        BY <3>3, <3>4
    <2>9. CASE told # <<>>
      <3> DEFINE x == told[Len(told)]
      <3>1. seen'[f] = <<x>>
        BY <2>6, <2>9 DEF Latest, Last
      <3>2. s \in DOMAIN after /\ after[s][1] = x
        BY <2>4, <2>9 DEF GaugeAfter
      <3> HIDE DEF x
      <3>3. seen'[f] # <<>> /\ seen'[f][1] = x
        BY <3>1
      <3> QED
        BY <2>7, <3>2, <3>3 DEF GaugeIsLast, s
    <2> QED
      BY <2>8, <2>9
  <1> QED
    BY <1>3, <1>7, <1>8 DEF GaugeInv

\* Every step keeps it.
LEMMA GaugeInvNext == ExportInv /\ GaugeInv /\ [ExportNext]_exportVars => GaugeInv'
  <1> SUFFICES ASSUME ExportInv, GaugeInv, [ExportNext]_exportVars
               PROVE GaugeInv'
    OBVIOUS
  <1>1. ASSUME NEW record \in SourceRecords, Process(record)
        PROVE GaugeInv'
    BY <1>1, ProcessKeepsGauges
  <1>2. CASE Cutover
    BY <1>2 DEF Cutover, GaugeInv, GaugeIsLast
  <1>3. CASE SourceEnded
    BY <1>3 DEF SourceEnded, ClearGauges, GaugeInv
  <1>4. CASE Collect
    BY <1>4 DEF Collect, GaugeInv, GaugeIsLast
  <1>5. CASE UNCHANGED exportVars
    BY <1>5 DEF exportVars, GaugeInv, GaugeIsLast
  <1> QED
    BY <1>1, <1>2, <1>3, <1>4, <1>5 DEF ExportNext

\* What a collection observes under the key of a field.
LEMMA ObservedOfField ==
    ASSUME gauges \in Gauges, NEW f \in GaugeFields
    PROVE LET s == FieldSeries(f)
              values == {point[2][1] : point \in {p \in observeGauges : p[1] = KeyOf(f)}}
          IN  values = IF s \in DOMAIN gauges THEN {gauges[s][1]} ELSE {}
  <1> DEFINE s == FieldSeries(f)
             points == {p \in observeGauges : p[1] = KeyOf(f)}
             values == {point[2][1] : point \in points}
             Point(t) == <<DescribeSeries(t), gauges[t]>>
  <1>1. DOMAIN gauges \subseteq GaugeSeries
    BY MapsOf DEF Gauges
  <1>2. observeGauges = {Point(t) : t \in DOMAIN gauges}
    BY <1>1, GaugesAreObservable DEF observeGauges
  <1>3. s \in GaugeSeries /\ f \in Fields
    BY FieldSeriesType DEF Fields
  <1>4. DescribeSeries(s) = KeyOf(f)
    BY <1>3, KeysOfFields
  <1>5. \A t : Point(t)[1] = DescribeSeries(t) /\ Point(t)[2] = gauges[t]
    OBVIOUS
  <1> HIDE DEF s, Point
  <1>6. \A t \in DOMAIN gauges : Point(t)[1] = KeyOf(f) <=> t = s
    BY <1>1, <1>3, <1>4, <1>5, GaugeKeysDiffer
  <1>7. points = IF s \in DOMAIN gauges THEN {Point(s)} ELSE {}
    BY <1>2, <1>6
  <1> HIDE DEF points
  <1>8. values = IF s \in DOMAIN gauges THEN {gauges[s][1]} ELSE {}
    BY <1>5, <1>7
  <1> QED
    BY <1>8 DEF s, points

\* A collection observes each gauge of the components at the last value its field had
\* that could be read, in whatever record and message that was, under its own name, until
\* the source ends, and none after (NormalizeRecord, State.Apply, ClearGauges, observe).
THEOREM GaugesCurrent == ExportSpec => []GaugesAreCurrent
  <1>1. ExportInv /\ GaugeInv => GaugesAreCurrent
    <2> SUFFICES ASSUME ExportInv, GaugeInv, NEW f \in GaugeFields
                 PROVE {point[2][1] : point \in {p \in observeGauges : p[1] = KeyOf(f)}} =
                         IF mode = "ended" \/ seen[f] = <<>> THEN {} ELSE {seen[f][1]}
      BY DEF GaugesAreCurrent
    <2> DEFINE s == FieldSeries(f)
               values == {point[2][1] : point \in {p \in observeGauges : p[1] = KeyOf(f)}}
    <2>1. values = IF s \in DOMAIN gauges THEN {gauges[s][1]} ELSE {}
      BY ObservedOfField DEF ExportInv
    <2> HIDE DEF values
    <2>2. CASE mode = "ended"
      <3>1. DOMAIN gauges = {}
        BY <2>2 DEF GaugeInv, Empty
      <3> QED
        BY <2>1, <2>2, <3>1 DEF values
    <2>3. CASE mode # "ended"
      <3>1. GaugeIsLast(seen[f], s)
        BY <2>3 DEF GaugeInv
      <3> HIDE DEF s
      <3> QED
        BY <2>1, <2>3, <3>1 DEF values, GaugeIsLast
    <2> QED
      BY <2>2, <2>3
  <1>2. ExportInit => ExportInv /\ GaugeInv
    BY ExportInvInit, GaugeInvInit
  <1>3. ExportInv /\ GaugeInv /\ [ExportNext]_exportVars => (ExportInv /\ GaugeInv)'
    BY ExportInvNext, GaugeInvNext
  <1> QED
    BY <1>1, <1>2, <1>3, PTL DEF ExportSpec

-----------------------------------------------------------------------------
\* Sums of rises.

\* One more number in a sum.
LEMMA SumAppend ==
    ASSUME NEW numbers \in Seq(Nat), NEW x \in Nat
    PROVE /\ SumOf(numbers) \in Nat
          /\ SumOf(Append(numbers, x)) = SumOf(numbers) + x
  <1> DEFINE n == Len(numbers)
             c == Append(numbers, x)
             l == Len(c)
  <1>1. n \in Nat /\ c \in Seq(Nat) /\ l = n + 1 /\ c[n + 1] = x
        /\ \A i \in 1..n : c[i] = numbers[i]
    OBVIOUS
  <1>2. PICK g \in [0..n -> Nat] :
              /\ g[0] = 0
              /\ \A k \in 1..n : g[k] = g[k - 1] + numbers[k]
              /\ SumOf(numbers) = g[n]
    BY SumSteps
  <1> HIDE DEF c, n
  <1>3. PICK h \in [0..l -> Nat] :
              /\ h[0] = 0
              /\ \A k \in 1..l : h[k] = h[k - 1] + c[k]
              /\ SumOf(c) = h[l]
    BY <1>1, SumSteps
  <1> HIDE DEF l
  <1> DEFINE S == {k \in Nat : k <= n => h[k] = g[k]}
  <1>4. 0 \in S
    BY <1>2, <1>3
  <1>5. ASSUME NEW k \in Nat, k \in S PROVE k + 1 \in S
    <2> SUFFICES ASSUME k + 1 <= n PROVE h[k + 1] = g[k + 1]
      OBVIOUS
    <2> DEFINE e == k + 1
    <2>1. e \in 1..n /\ e \in 1..l /\ e - 1 = k /\ h[k] = g[k]
      BY <1>1, <1>5
    <2> HIDE DEF e
    <2>2. h[e] = h[k] + c[e] /\ g[e] = g[k] + numbers[e] /\ c[e] = numbers[e]
      BY <1>1, <1>2, <1>3, <2>1
    <2> QED
      BY <2>1, <2>2 DEF e
  <1>6. h[n] = g[n]
    <2>1. Nat \subseteq S
      <3> HIDE DEF S
      <3> QED
        BY <1>4, <1>5, SetInduction
    <2> QED
      BY <1>1, <2>1
  <1>7. l \in 1..l /\ l - 1 = n /\ c[l] = x
    BY <1>1
  <1>8. SumOf(c) = h[n] + x
    BY <1>3, <1>7
  <1>9. n \in 0..n
    BY <1>1
  <1> QED
    BY <1>2, <1>6, <1>8, <1>9 DEF c

\* No numbers add up to zero.
LEMMA SumOfNone == SumOf(<<>>) = 0
  <1> DEFINE none == <<>>
  <1>1. none \in Seq(Nat) /\ Len(none) = 0
    OBVIOUS
  <1> HIDE DEF none
  <1>2. PICK h \in [0..0 -> Nat] : h[0] = 0 /\ SumOf(none) = h[0]
    BY <1>1, SumSteps
  <1> QED
    BY <1>2 DEF none

\* What the reading x rises by after the readings a.
RiseTo(a, x) ==
    IF a # <<>> /\ x > a[Len(a)] THEN (x - a[Len(a)]) \div 2 ELSE 0

\* One more reading.
LEMMA RisesAppend ==
    ASSUME NEW a \in Seq(Int), NEW x \in Int
    PROVE /\ Rises(a) \in Nat
          /\ RiseTo(a, x) \in Nat
          /\ Rises(Append(a, x)) = Rises(a) + RiseTo(a, x)
  <1> DEFINE n == Len(a)
             c == Append(a, x)
             Rise(q, i) == IF q[i + 1] > q[i] THEN (q[i + 1] - q[i]) \div 2 ELSE 0
             g == [i \in 1..(n - 1) |-> Rise(a, i)]
             h == [i \in 1..(Len(c) - 1) |-> Rise(c, i)]
  <1>1. n \in Nat /\ c \in Seq(Int) /\ Len(c) = n + 1 /\ c[n + 1] = x
        /\ \A i \in 1..n : c[i] = a[i] /\ a[i] \in Int
    OBVIOUS
  <1>2. Rises(a) = SumOf(g) /\ Rises(c) = SumOf(h)
    BY DEF Rises
  <1>3. \A u, v \in Int : u > v => (u - v) \div 2 \in Nat
    OBVIOUS
  <1>4. ASSUME NEW i \in 1..(n - 1)
        PROVE /\ i \in 1..n /\ i + 1 \in 1..n
              /\ Rise(a, i) \in Nat /\ Rise(c, i) = Rise(a, i)
    <2> DEFINE j == i + 1
    <2>1. i \in 1..n /\ j \in 1..n
      BY <1>1
    <2> HIDE DEF j, c, n
    <2>2. a[i] \in Int /\ a[j] \in Int /\ c[i] = a[i] /\ c[j] = a[j]
      BY <1>1, <2>1
    <2>3. Rise(a, i) \in Nat /\ Rise(c, i) = Rise(a, i)
      BY <1>3, <2>2 DEF j
    <2> QED
      BY <2>1, <2>3 DEF j
  <1>5. g \in Seq(Nat)
    <2>1. \A i \in 1..(n - 1) : g[i] \in Nat
      BY <1>4
    <2>2. CASE n = 0
      <3>1. g = <<>>
        BY <2>2
      <3> QED
        BY <3>1
    <2>3. CASE n # 0
      <3>1. n - 1 \in Nat
        BY <1>1, <2>3
      <3> HIDE DEF n, Rise
      <3> QED
        BY <2>1, <3>1
    <2> QED
      BY <2>2, <2>3
  <1>6. SumOf(g) \in Nat
    <2> HIDE DEF g
    <2> QED
      BY <1>5, SumAppend
  <1>7. CASE n = 0
    <2>1. a = <<>> /\ g = <<>> /\ h = <<>>
      BY <1>1, <1>7
    <2>2. RiseTo(a, x) = 0
      BY <2>1 DEF RiseTo
    <2> HIDE DEF g, h, c
    <2> QED
      BY <1>2, <2>1, <2>2, SumOfNone DEF c
  <1>8. CASE n # 0
    <2> DEFINE r == RiseTo(a, x)
    <2>1. n \in 1..n /\ a # <<>> /\ Len(c) - 1 = n /\ (n - 1) + 1 = n /\ n - 1 \in Nat
      BY <1>1, <1>8
    <2>2. r = Rise(c, n)
      BY <1>1, <2>1 DEF RiseTo
    <2>3. r \in Nat
      <3> DEFINE y == a[n]
      <3>1. y \in Int /\ r = IF x > y THEN (x - y) \div 2 ELSE 0
        BY <1>1, <2>1 DEF RiseTo
      <3> HIDE DEF y, r
      <3> QED
        BY <1>3, <3>1
    <2>4. h = [i \in 1..n |-> Rise(c, i)]
      BY <2>1
    <2>5. Append(g, r) = h
      <3>1. Len(g) = n - 1 /\ g \in Seq(Nat)
        BY <1>5, <2>1
      <3>2. \A i \in 1..(n - 1) : g[i] = Rise(c, i)
        BY <1>4
      <3> DEFINE q == Append(g, r)
      <3>3. q = [i \in 1..n |-> IF i < n THEN g[i] ELSE r]
        <4> HIDE DEF g, r, n, c
        <4>1. n \in Nat /\ (n - 1) + 1 = n
          BY <1>1
        <4>2. q \in Seq(Nat) /\ Len(q) = n /\ q[n] = r /\ \A i \in 1..(n - 1) : q[i] = g[i]
          BY <2>3, <3>1, <4>1
        <4> HIDE DEF q
        <4>3. \A i \in 1..n : (i < n => i \in 1..(n - 1)) /\ (~(i < n) => i = n)
          BY <4>1
        <4>4. \A i \in 1..n : q[i] = IF i < n THEN g[i] ELSE r
          BY <4>2, <4>3
        <4> QED
          BY <4>1, <4>2, <4>4
      <3>4. \A i \in 1..n : q[i] = Rise(c, i)
        <4> HIDE DEF g, r, c, Rise, n
        <4>1. ASSUME NEW i \in 1..n, i < n PROVE i \in 1..(n - 1)
          BY <1>1, <4>1
        <4>2. ASSUME NEW i \in 1..n, ~(i < n) PROVE i = n
          BY <1>1, <4>2
        <4> QED
          BY <2>2, <3>2, <3>3, <4>1, <4>2
      <3>5. q = [i \in 1..n |-> q[i]]
        <4> HIDE DEF g, r
        <4> QED
          BY <3>3
      <3> HIDE DEF q, g, r, c, Rise, n, h
      <3>6. h = q
        BY <2>4, <3>4, <3>5
      <3> QED
        BY <3>6 DEF q
    <2> HIDE DEF g, r, h, c
    <2>6. SumOf(h) = SumOf(g) + r
      BY <1>5, <2>3, <2>5, SumAppend
    <2> QED
      BY <1>2, <1>6, <2>3, <2>6 DEF r, c
  <1> QED
    BY <1>7, <1>8

\* One reading does not rise.
LEMMA RisesOfOne ==
    ASSUME NEW a \in Seq(Int), Len(a) <= 1
    PROVE Rises(a) = 0
  <1>1. [i \in 1..(Len(a) - 1) |-> IF a[i + 1] > a[i] THEN (a[i + 1] - a[i]) \div 2 ELSE 0] = <<>>
    <2>1. 1..(Len(a) - 1) = {}
      OBVIOUS
    <2> QED
      BY <2>1
  <1> QED
    BY <1>1, SumOfNone DEF Rises

-----------------------------------------------------------------------------
\* Counters.

\* What increments add to the counter of a series.
Share(increment, s) == IF increment.series = s THEN increment.delta ELSE 0
Shares(increments, s) == [i \in 1..Len(increments) |-> Share(increments[i], s)]
Total(increments, s) == SumOf(Shares(increments, s))

\* What one increment adds is a number in range.
LEMMA ShareType ==
    ASSUME NEW increment \in Increment, NEW s
    PROVE Share(increment, s) \in 0..MaxExact
  BY MaxExactAssumption DEF Share, Increment

\* What each of the increments adds are as many numbers.
LEMMA SharesType ==
    ASSUME NEW increments \in Seq(Increment), NEW s
    PROVE /\ Shares(increments, s) \in Seq(Nat)
          /\ Len(Shares(increments, s)) = Len(increments)
          /\ \A i \in 1..Len(increments) : Shares(increments, s)[i] = Share(increments[i], s)
  <1> DEFINE n == Len(increments)
             g == [i \in 1..n |-> Share(increments[i], s)]
  <1>1. n \in Nat /\ \A i \in 1..n : increments[i] \in Increment
    OBVIOUS
  <1>2. \A i \in 1..n : Share(increments[i], s) \in Nat
    BY <1>1, ShareType
  <1>3. g \in Seq(Nat) /\ Len(g) = n /\ \A i \in 1..n : g[i] = Share(increments[i], s)
    <2> HIDE DEF n
    <2> QED
      BY <1>1, <1>2
  <1>4. Shares(increments, s) = g
    BY DEF Shares
  <1> HIDE DEF g
  <1> QED
    BY <1>3, <1>4

\* One more increment.
LEMMA TotalAppend ==
    ASSUME NEW increments \in Seq(Increment), NEW d \in Increment, NEW s
    PROVE /\ Total(increments, s) \in Nat
          /\ Total(Append(increments, d), s) = Total(increments, s) + Share(d, s)
  <1> DEFINE n == Len(increments)
             c == Append(increments, d)
             g == Shares(increments, s)
             h == Shares(c, s)
             x == Share(d, s)
             q == Append(g, x)
  <1>1. n \in Nat /\ c \in Seq(Increment) /\ Len(c) = n + 1 /\ c[n + 1] = d
        /\ \A i \in 1..n : c[i] = increments[i]
    OBVIOUS
  <1>2. x \in Nat
    BY ShareType
  <1>3. g \in Seq(Nat) /\ Len(g) = n /\ \A i \in 1..n : g[i] = Share(increments[i], s)
    BY SharesType
  <1> HIDE DEF c, n
  <1>4. h \in Seq(Nat) /\ Len(h) = n + 1 /\ \A i \in 1..(n + 1) : h[i] = Share(c[i], s)
    <2> DEFINE l == Len(c)
    <2>1. h \in Seq(Nat) /\ Len(h) = l /\ \A i \in 1..l : h[i] = Share(c[i], s)
      BY <1>1, SharesType
    <2>2. l = n + 1
      BY <1>1
    <2> HIDE DEF l, h
    <2> QED
      BY <2>1, <2>2
  <1> HIDE DEF g, h, x
  <1>5. q \in Seq(Nat) /\ Len(q) = n + 1 /\ q[n + 1] = x /\ \A i \in 1..n : q[i] = g[i]
    BY <1>1, <1>2, <1>3
  <1> HIDE DEF q
  <1>6. h[n + 1] = x /\ \A i \in 1..n : h[i] = g[i]
    <2>1. n + 1 \in 1..(n + 1) /\ \A i \in 1..n : i \in 1..(n + 1)
      BY <1>1
    <2> QED
      BY <1>1, <1>3, <1>4, <2>1 DEF x
  <1>7. \A i \in 1..(n + 1) : i = n + 1 \/ i \in 1..n
    BY <1>1
  <1>8. h = q
    BY <1>1, <1>4, <1>5, <1>6, <1>7
  <1>9. SumOf(g) \in Nat /\ SumOf(q) = SumOf(g) + x
    BY <1>2, <1>3, SumAppend DEF q
  <1> QED
    BY <1>8, <1>9 DEF Total, g, h, x, c

\* No increments add nothing.
LEMMA TotalOfNone == ASSUME NEW s PROVE Total(<<>>, s) = 0
  <1>1. Shares(<<>>, s) = <<>>
    BY DEF Shares
  <1> QED
    BY <1>1, SumOfNone DEF Total

(***************************************************************************)
(* A counter was last read at before, if at all, and told in this record:  *)
(* its baseline is the last of these readings, and the increments of the   *)
(* record add up to what the readings rise by.                             *)
(***************************************************************************)
BaselineIs(baselines, readings, s) ==
    IF readings = <<>> THEN s \notin DOMAIN baselines
    ELSE s \in DOMAIN baselines /\ 2 * baselines[s] = readings[Len(readings)]

CounterAfter(live, before, told, result, s) ==
    /\ BaselineIs(result.baselines, before \o told, s)
    /\ Total(result.increments, s) = IF live THEN Rises(before \o told) ELSE 0

\* An update of another series leaves a counter alone.
LEMMA OtherCounters ==
    ASSUME NEW live \in BOOLEAN, NEW result \in Applied, NEW s, NEW u \in CounterUpdate,
           u.series # s
    PROVE LET applied == ApplyCounter(live, result, u)
          IN  /\ \A readings : BaselineIs(result.baselines, readings, s)
                               => BaselineIs(applied.baselines, readings, s)
              /\ Total(applied.increments, s) = Total(result.increments, s)
  <1> DEFINE x == u.series
             v == u.value
             b == result.baselines
             put == Put(b, x, v)
             incs == result.increments
             applied == ApplyCounter(live, result, u)
             d == [series |-> x, delta |-> v - b[x]]
  <1>1. x \in CounterSeries /\ v \in 0..MaxExact
    BY DEF CounterUpdate
  <1>2. b \in Baselines /\ incs \in Seq(Increment)
    BY DEF Applied
  <1>3. applied.baselines = put
    BY DEF ApplyCounter
  <1>4. (s \in DOMAIN put <=> s \in DOMAIN b) /\ (s \in DOMAIN b => put[s] = b[s])
    BY DEF Put
  <1>5. ASSUME NEW readings, BaselineIs(b, readings, s)
        PROVE BaselineIs(put, readings, s)
    <2> HIDE DEF put, b
    <2>1. CASE readings = <<>>
      BY <1>4, <1>5, <2>1 DEF BaselineIs
    <2>2. CASE readings # <<>>
      BY <1>4, <1>5, <2>2 DEF BaselineIs
    <2> QED
      BY <2>1, <2>2
  <1>6. Total(applied.increments, s) = Total(incs, s)
    <2>1. CASE live /\ x \in DOMAIN b /\ v > b[x]
      <3>1. applied.increments = Append(incs, d)
        BY <2>1 DEF ApplyCounter
      <3>2. b[x] \in 0..MaxExact
        BY <1>2, <2>1, MapsOf DEF Baselines
      <3>3. v - b[x] \in 1..MaxExact
        <4> HIDE DEF x, v, b
        <4> QED
          BY <1>1, <2>1, <3>2, MaxExactAssumption
      <3>4. d \in Increment /\ d.series = x
        BY <1>1, <3>3 DEF Increment
      <3> HIDE DEF d, incs, x
      <3>5. Share(d, s) = 0
        BY <3>4 DEF Share, x
      <3>6. Total(incs, s) \in Nat /\ Total(Append(incs, d), s) = Total(incs, s) + Share(d, s)
        BY <1>2, <3>4, TotalAppend
      <3> QED
        BY <3>1, <3>5, <3>6
    <2>2. CASE ~(live /\ x \in DOMAIN b /\ v > b[x])
      <3>1. applied.increments = incs
        BY <2>2 DEF ApplyCounter
      <3> QED
        BY <3>1
    <2> QED
      BY <2>1, <2>2
  <1> HIDE DEF applied, put
  <1> QED
    BY <1>3, <1>5, <1>6 DEF applied

\* One more update of a counter.
LEMMA CounterAfterOne ==
    ASSUME NEW live \in BOOLEAN, NEW before \in Seq(Int), NEW told \in Seq(Int),
           NEW result \in Applied, NEW s \in CounterSeries, NEW u \in CounterUpdate,
           CounterAfter(live, before, told, result, s)
    PROVE CounterAfter(live, before, ToldNext(told, u, s), ApplyCounter(live, result, u), s)
  <1> DEFINE x == u.series
             v == u.value
             b == result.baselines
             incs == result.increments
             applied == ApplyCounter(live, result, u)
             next == ToldNext(told, u, s)
             all == before \o told
  <1>1. x \in CounterSeries /\ v \in 0..MaxExact
    BY DEF CounterUpdate
  <1>2. b \in Baselines /\ incs \in Seq(Increment)
    BY DEF Applied
  <1>3. CASE x # s
    <2>1. next = told
      BY <1>3 DEF ToldNext
    <2> HIDE DEF applied, next, all, b, incs
    <2>2. /\ \A readings : BaselineIs(b, readings, s) => BaselineIs(applied.baselines, readings, s)
          /\ Total(applied.increments, s) = Total(incs, s)
      BY <1>3, OtherCounters DEF applied, b, incs
    <2>3. CounterAfter(live, before, told, applied, s)
      BY <2>2 DEF CounterAfter, b, incs
    <2> QED
      BY <2>1, <2>3 DEF applied, next
  <1>4. CASE x = s
    <2> DEFINE e == 2 * v
               r == RiseTo(all, e)
               put == Put(b, s, v)
    <2>0. all \in Seq(Int) /\ e \in Int /\ MaxExact \in Nat /\ v \in Nat /\ v <= MaxExact
      BY <1>1, ConcatProperties, MaxExactAssumption
    <2>1. next = Append(told, e)
      <3>1. Halves(u) = e
        BY <1>1 DEF Halves
      <3> QED
        BY <1>4, <3>1 DEF ToldNext
    <2>2. before \o next = Append(all, e)
      <3> HIDE DEF e
      <3>1. Append(before \o told, e) = before \o Append(told, e)
        BY <2>0, AppendToConcat
      <3> QED
        BY <2>1, <3>1
    <2>3. applied.baselines = put /\ s \in DOMAIN put /\ put[s] = v
      BY <1>4 DEF ApplyCounter, Put
    <2>4. /\ BaselineIs(b, all, s)
          /\ Total(incs, s) = IF live THEN Rises(all) ELSE 0
      BY DEF CounterAfter
    <2> HIDE DEF all, put, next
    <2>5. Rises(all) \in Nat /\ r \in Nat /\ Rises(Append(all, e)) = Rises(all) + r
      <3> HIDE DEF e
      <3> QED
        BY <2>0, RisesAppend
    <2>6. BaselineIs(applied.baselines, before \o next, s)
      <3> DEFINE c == Append(all, e)
      <3>1. c # <<>> /\ c[Len(c)] = e
        <4> HIDE DEF e
        <4> QED
          BY <2>0
      <3> HIDE DEF c, applied
      <3>2. BaselineIs(applied.baselines, c, s)
        BY <2>3, <3>1 DEF BaselineIs
      <3> QED
        BY <2>2, <3>2 DEF c
    <2>7. Total(applied.increments, s) = IF live THEN Rises(all) + r ELSE 0
      <3>1. CASE live /\ s \in DOMAIN b /\ v > b[s]
        <4> DEFINE p == b[s]
                   d == [series |-> s, delta |-> v - p]
                   last == all[Len(all)]
        <4>1. applied.increments = Append(incs, d)
          BY <1>4, <3>1 DEF ApplyCounter
        <4>2. p \in 0..MaxExact
          BY <1>2, <3>1, MapsOf DEF Baselines
        <4>3. all # <<>> /\ 2 * p = last
          BY <2>4, <3>1 DEF BaselineIs
        <4>4. v - p \in 1..MaxExact /\ (e > last) /\ (e - last) \div 2 = v - p
          <5>1. v > p
            BY <3>1
          <5> HIDE DEF p, last, v
          <5>2. p \in Nat /\ v - p \in 1..MaxExact
            BY <2>0, <4>2, <5>1
          <5>3. last = 2 * p
            BY <4>3
          <5>4. e - last = 2 * (v - p)
            BY <2>0, <5>2, <5>3
          <5>5. (2 * (v - p)) \div 2 = v - p /\ 2 * v > 2 * p
            BY <2>0, <5>1, <5>2
          <5> QED
            BY <5>2, <5>3, <5>4, <5>5
        <4>5. r = v - p
          <5> HIDE DEF e, last, p
          <5> QED
            BY <4>3, <4>4 DEF RiseTo, last
        <4>6. d \in Increment /\ Share(d, s) = v - p
          BY <4>4 DEF Increment, Share
        <4> HIDE DEF d, incs, applied
        <4>7. Total(incs, s) \in Nat /\ Total(Append(incs, d), s) = Total(incs, s) + Share(d, s)
          BY <1>2, <4>6, TotalAppend
        <4> DEFINE t == Total(incs, s)
                   w == Total(applied.increments, s)
        <4>8. w = t + r /\ t = Rises(all)
          BY <2>4, <3>1, <4>1, <4>5, <4>6, <4>7
        <4> HIDE DEF t, w, r
        <4>9. w = Rises(all) + r
          BY <4>8
        <4> QED
          BY <3>1, <4>9 DEF w
      <3>2. CASE ~(live /\ s \in DOMAIN b /\ v > b[s])
        <4>1. applied.increments = incs
          BY <1>4, <3>2 DEF ApplyCounter
        <4>2. live => r = 0
          <5> SUFFICES ASSUME live PROVE r = 0
            OBVIOUS
          <5>1. CASE all = <<>>
            BY <5>1 DEF RiseTo
          <5>2. CASE all # <<>>
            <6> DEFINE p == b[s]
                       last == all[Len(all)]
            <6>1. s \in DOMAIN b /\ 2 * p = last
              BY <2>4, <5>2 DEF BaselineIs
            <6>2. p \in 0..MaxExact /\ ~(v > p)
              BY <1>2, <3>2, <6>1, MapsOf DEF Baselines
            <6>3. ~(e > last)
              <7> HIDE DEF p, last, v
              <7> QED
                BY <2>0, <6>1, <6>2
            <6> HIDE DEF e
            <6> QED
              BY <6>3 DEF RiseTo
          <5> QED
            BY <5>1, <5>2
        <4> DEFINE t == Total(incs, s)
                   w == Total(applied.increments, s)
        <4>4. w = t /\ t = IF live THEN Rises(all) ELSE 0
          BY <2>4, <4>1
        <4> HIDE DEF t, w, r
        <4>5. w = IF live THEN Rises(all) + r ELSE 0
          BY <2>5, <4>2, <4>4
        <4> QED
          BY <4>5 DEF w
      <3> QED
        BY <3>1, <3>2
    <2>9. Total(applied.increments, s) = IF live THEN Rises(before \o next) ELSE 0
      <3> HIDE DEF r, applied
      <3> QED
        BY <2>2, <2>5, <2>7
    <2> HIDE DEF applied
    <2>10. CounterAfter(live, before, next, applied, s)
      BY <2>6, <2>9 DEF CounterAfter
    <2> QED
      BY <2>10 DEF applied, next
  <1> QED
    BY <1>3, <1>4

\* ApplyCounters leaves a counter's baseline at what the updates tell last, and makes
\* increments of what they rise by.
LEMMA CountersFollow ==
    ASSUME NEW live \in BOOLEAN, NEW counters \in Seq(CounterUpdate),
           counterBaselines \in Baselines, NEW s \in CounterSeries,
           NEW before \in Seq(Int), Len(before) <= 1, BaselineIs(counterBaselines, before, s)
    PROVE CounterAfter(live, before, ToldBy(counters, s), ApplyCounters(live, counters), s)
  <1> DEFINE n == Len(counters)
             start == [baselines |-> counterBaselines, increments |-> <<>>]
  <1>1. n \in Nat /\ \A i \in 1..n : counters[i] \in CounterUpdate
    OBVIOUS
  <1>2. counters \in Seq(Update)
    BY DEF Update
  <1>3. PICK h \in [0..n -> Applied] :
              /\ h[0] = start
              /\ \A k \in 1..n : h[k] = ApplyCounter(live, h[k - 1], counters[k])
              /\ ApplyCounters(live, counters) = h[n]
    BY ApplyCountersSteps
  <1>4. PICK t \in [0..n -> Seq(Int)] :
              /\ t[0] = <<>>
              /\ \A k \in 1..n : t[k] = ToldNext(t[k - 1], counters[k], s)
              /\ ToldBy(counters, s) = t[n]
    BY <1>2, ToldSteps
  <1> HIDE DEF n
  <1> DEFINE S == {k \in Nat : k <= n => CounterAfter(live, before, t[k], h[k], s)}
  <1>5. 0 \in S
    <2>1. before \o <<>> = before
      BY ConcatEmptySeq
    <2>2. Rises(before) = 0 /\ Total(<<>>, s) = 0
      BY RisesOfOne, TotalOfNone
    <2>3. start.baselines = counterBaselines /\ start.increments = <<>>
      OBVIOUS
    <2> HIDE DEF start
    <2>4. CounterAfter(live, before, <<>>, start, s)
      <3>1. Total(start.increments, s) = 0
        BY <2>2, <2>3
      <3>2. Total(start.increments, s) = IF live THEN Rises(before) ELSE 0
        BY <2>2, <3>1
      <3> QED
        BY <2>1, <2>3, <3>2 DEF CounterAfter
    <2> QED
      BY <1>3, <1>4, <2>4
  <1>6. ASSUME NEW k \in Nat, k \in S PROVE k + 1 \in S
    <2> SUFFICES ASSUME k + 1 <= n PROVE CounterAfter(live, before, t[k + 1], h[k + 1], s)
      OBVIOUS
    <2> DEFINE e == k + 1
               a == t[k]
               m == h[k]
               u == counters[e]
    <2>1. e \in 1..n /\ e - 1 = k /\ k \in 0..n /\ CounterAfter(live, before, a, m, s)
      BY <1>1, <1>6
    <2> HIDE DEF e
    <2>2. u \in CounterUpdate /\ a \in Seq(Int) /\ m \in Applied
      BY <1>1, <2>1
    <2>3. h[e] = ApplyCounter(live, m, u) /\ t[e] = ToldNext(a, u, s)
      BY <1>3, <1>4, <2>1
    <2> HIDE DEF a, m, u
    <2>4. CounterAfter(live, before, ToldNext(a, u, s), ApplyCounter(live, m, u), s)
      BY <2>1, <2>2, CounterAfterOne
    <2> QED
      BY <2>3, <2>4 DEF e
  <1>7. CounterAfter(live, before, t[n], h[n], s)
    <2>1. Nat \subseteq S
      <3> HIDE DEF S
      <3> QED
        BY <1>5, <1>6, SetInduction
    <2> QED
      BY <1>1, <2>1
  <1> QED
    BY <1>3, <1>4, <1>7

\* A function takes a finite set to one that is no larger.
LEMMA ImageIsFinite ==
    ASSUME NEW F, F = [x \in DOMAIN F |-> F[x]], IsFiniteSet(DOMAIN F)
    PROVE LET T == {F[x] : x \in DOMAIN F}
          IN  IsFiniteSet(T) /\ Cardinality(T) <= Cardinality(DOMAIN F)
  <1> DEFINE T == {F[x] : x \in DOMAIN F}
             S == DOMAIN F
  <1>1. F \in Surjection(S, T)
    BY DEF Surjection
  <1> HIDE DEF S, T
  <1>2. IsFiniteSet(T) /\ Cardinality(T) <= Cardinality(S)
    BY <1>1, FS_Surjection DEF S
  <1> QED
    BY <1>2 DEF S, T

\* The tables are finite.
LEMMA CounterSeriesFinite == IsFiniteSet(CounterSeries)
  <1> DEFINE A == {AzStorageCounters[n] : n \in DOMAIN AzStorageCounters}
             L == {LibfuseCounters[n] : n \in Operation}
             C == {FileCacheCounters[n] : n \in DOMAIN FileCacheCounters}
  <1>1. IsFiniteSet(Operation)
    <2> DEFINE F == operationFields
    <2>1. F = [x \in DOMAIN F |-> F[x]] /\ DOMAIN F = 1..13
      <3>1. DOMAIN F = 1..13
        BY OperationsByName
      <3>2. F = [x \in DOMAIN F |-> F[x]]
        BY DEF operationFields
      <3> QED
        BY <3>1, <3>2
    <2>2. IsFiniteSet(1..13)
      <3> DEFINE a == 1
                 b == 13
      <3>1. a \in Int /\ b \in Int
        OBVIOUS
      <3> HIDE DEF a, b
      <3>2. IsFiniteSet(a..b)
        BY <3>1, FS_Interval
      <3> QED
        BY <3>2 DEF a, b
    <2>3. Operation = {F[x] : x \in DOMAIN F}
      BY DEF Operation
    <2> HIDE DEF F
    <2> QED
      BY <2>1, <2>2, <2>3, ImageIsFinite
  <1>2. \A a, b : IsFiniteSet({a, b})
    <2> SUFFICES ASSUME NEW a, NEW b PROVE IsFiniteSet({a, b})
      OBVIOUS
    <2>1. IsFiniteSet({a}) /\ IsFiniteSet({b}) /\ {a} \cup {b} = {a, b}
      BY FS_Singleton
    <2> QED
      BY <2>1, FS_Union
  <1>3. IsFiniteSet(A)
    <2> DEFINE F == AzStorageCounters
    <2>1. F = [x \in DOMAIN F |-> F[x]] /\ DOMAIN F = {"Bytes Downloaded", "Bytes Uploaded"}
      BY DEF AzStorageCounters
    <2>2. IsFiniteSet(DOMAIN F)
      BY <1>2, <2>1, Zenon
    <2> HIDE DEF F
    <2> QED
      BY <2>1, <2>2, ImageIsFinite DEF F
  <1>4. IsFiniteSet(L)
    <2> DEFINE F == LibfuseCounters
    <2>1. F = [x \in DOMAIN F |-> F[x]] /\ DOMAIN F = Operation
      BY DEF LibfuseCounters
    <2> HIDE DEF F
    <2> QED
      BY <1>1, <2>1, ImageIsFinite DEF F
  <1>5. IsFiniteSet(C)
    <2> DEFINE F == FileCacheCounters
    <2>1. F = [x \in DOMAIN F |-> F[x]]
          /\ DOMAIN F = {"Files Downloaded", "Files served from cache"}
      BY DEF FileCacheCounters
    <2>2. IsFiniteSet(DOMAIN F)
      BY <1>2, <2>1, Zenon
    <2> HIDE DEF F
    <2> QED
      BY <2>1, <2>2, ImageIsFinite DEF F
  <1> HIDE DEF A, L, C
  <1>6. IsFiniteSet((A \cup L) \cup C)
    BY <1>3, <1>4, <1>5, FS_Union
  <1> QED
    BY <1>6 DEF CounterSeries, A, L, C

\* There are as many attribute sets as series.
LEMMA DescribedFinite ==
    IsFiniteSet(Described) /\ Cardinality(Described) <= Cardinality(CounterSeries)
  <1> DEFINE F == [s \in CounterSeries |-> DescribeSeries(s)]
  <1>1. F = [x \in DOMAIN F |-> F[x]] /\ DOMAIN F = CounterSeries
        /\ Described = {F[x] : x \in DOMAIN F}
    BY DEF Described
  <1> HIDE DEF F
  <1> QED
    BY <1>1, CounterSeriesFinite, ImageIsFinite

\* The limit of attribute sets is never reached, so that each series has its point.
LEMMA PointIsKey ==
    ASSUME NEW sums, DOMAIN sums \subseteq Described, NEW key \in Described
    PROVE PointOf(sums, key) = key
  <1>1. CASE key \in DOMAIN sums
    BY <1>1 DEF PointOf
  <1>2. CASE key \notin DOMAIN sums
    <2> DEFINE K == {k \in DOMAIN sums : k[1] = key[1]}
               D == Described \ {key}
               c == Cardinality(CounterSeries)
    <2>1. K \in SUBSET D
      BY <1>2
    <2>2. IsFiniteSet(D) /\ Cardinality(D) = Cardinality(Described) - 1
      BY DescribedFinite, FS_RemoveElement
    <2>3. Cardinality(K) <= Cardinality(D) /\ IsFiniteSet(K)
      <3> HIDE DEF K, D
      <3> QED
        BY <2>1, <2>2, FS_Subset
    <2>4. Cardinality(K) \in Nat /\ Cardinality(Described) \in Nat /\ c \in Nat
      BY <2>3, DescribedFinite, CounterSeriesFinite, FS_CardinalityType
    <2>5. Cardinality(Described) <= c /\ c < CardinalityLimit /\ CardinalityLimit \in Nat
      BY DescribedFinite, CardinalityAssumption
    <2> HIDE DEF K, D, c
    <2>6. Cardinality(K) < CardinalityLimit - 1
      BY <2>2, <2>3, <2>4, <2>5
    <2> QED
      BY <2>6 DEF PointOf, K
  <1> QED
    BY <1>1, <1>2

-----------------------------------------------------------------------------
\* Sums of the recorder.

\* No two operations have the same name.
LEMMA OperationNamesDiffer ==
    ASSUME NEW n \in Operation, NEW o \in Operation, operationName[n] = operationName[o]
    PROVE n = o
  <1> DEFINE f == operationFields
             g(i) == operationName[f[i]]
  <1>1. /\ g(1) = "create_dir" /\ g(2) = "delete_dir" /\ g(3) = "stream_dir"
        /\ g(4) = "rename_dir" /\ g(5) = "create_file" /\ g(6) = "delete_file"
        /\ g(7) = "rename_file" /\ g(8) = "truncate_file" /\ g(9) = "create_link"
        /\ g(10) = "read_link" /\ g(11) = "sync_file" /\ g(12) = "sync_dir"
        /\ g(13) = "chmod"
    BY OperationsByName DEF operationName
  <1>2. DOMAIN f = 1..13 /\ 1..13 = {1, 2, 3, 4, 5, 6, 7, 8, 9, 10, 11, 12, 13}
    BY OperationsByName
  <1>3. PICK i \in DOMAIN f : n = f[i]
    BY DEF Operation
  <1>4. PICK j \in DOMAIN f : o = f[j]
    BY DEF Operation
  <1>5. g(i) = g(j)
    BY <1>3, <1>4
  <1> HIDE DEF g
  <1>6. i = j
    BY <1>1, <1>2, <1>5
  <1> QED
    BY <1>3, <1>4, <1>6

\* No two counters are exported under the same key.
LEMMA CounterKeysDiffer ==
    ASSUME NEW s \in CounterSeries, NEW t \in CounterSeries, DescribeSeries(s) = DescribeSeries(t)
    PROVE s = t
  <1> DEFINE a1 == AzStorageCounters["Bytes Downloaded"]
             a2 == AzStorageCounters["Bytes Uploaded"]
             c1 == FileCacheCounters["Files Downloaded"]
             c2 == FileCacheCounters["Files served from cache"]
             k1 == DescribeSeries(a1)
             k2 == DescribeSeries(a2)
             k3 == DescribeSeries(c1)
             k4 == DescribeSeries(c2)
             K(n) == DescribeSeries(LibfuseCounters[n])
             Others == {a1, a2, c1, c2}
             fs == "azure.blobfuse.fs.operations"
  <1>1. \A x \in CounterSeries : (\E n \in Operation : x = LibfuseCounters[n]) \/ x \in Others
    <2>1. DOMAIN AzStorageCounters = {"Bytes Downloaded", "Bytes Uploaded"}
          /\ DOMAIN FileCacheCounters = {"Files Downloaded", "Files served from cache"}
      BY DEF AzStorageCounters, FileCacheCounters
    <2> QED
      BY <2>1 DEF CounterSeries
  <1>2. /\ k1 = <<"azure.blobfuse.storage.io", <<"azure.blobfuse.io.direction", "read">>>>
        /\ k2 = <<"azure.blobfuse.storage.io", <<"azure.blobfuse.io.direction", "write">>>>
        /\ k3 = <<"azure.blobfuse.cache.file.downloads", <<>>>>
        /\ k4 = <<"azure.blobfuse.cache.hits", <<>>>>
    BY Descriptions
  <1>3. ASSUME NEW n \in Operation
        PROVE K(n)[1] = fs /\ K(n)[2][2] = operationName[n]
    <2> DEFINE name == operationName[n]
               v == <<"azure.blobfuse.operation.name", name>>
               k == K(n)
    <2>1. k = <<fs, v>>
      BY Descriptions
    <2>2. v[2] = name
      OBVIOUS
    <2> HIDE DEF k, v, name
    <2>3. k[1] = fs /\ k[2] = v
      BY <2>1
    <2> QED
      BY <2>2, <2>3 DEF k, name
  <1> HIDE DEF k1, k2, k3, k4, a1, a2, c1, c2, K
  <1>4. /\ k1[1] = "azure.blobfuse.storage.io" /\ k2[1] = "azure.blobfuse.storage.io"
        /\ k3[1] = "azure.blobfuse.cache.file.downloads" /\ k4[1] = "azure.blobfuse.cache.hits"
    BY <1>2
  <1>5. k1[2][2] = "read" /\ k2[2][2] = "write"
    <2> DEFINE v == <<"azure.blobfuse.io.direction", "read">>
               w == <<"azure.blobfuse.io.direction", "write">>
    <2>1. v[2] = "read" /\ w[2] = "write"
      OBVIOUS
    <2> HIDE DEF v, w
    <2>2. k1[2] = v /\ k2[2] = w
      BY <1>2 DEF v, w
    <2> QED
      BY <2>1, <2>2
  <1>6. k1 # k2 /\ k1 # k3 /\ k1 # k4 /\ k2 # k3 /\ k2 # k4 /\ k3 # k4
    BY <1>4, <1>5
  <1>7. CASE s \in Others /\ t \in Others
    BY <1>6, <1>7 DEF k1, k2, k3, k4
  <1>8. \A x \in Others : DescribeSeries(x)[1] # fs
    BY <1>4 DEF k1, k2, k3, k4
  <1> HIDE DEF Others
  <1>9. CASE \E n \in Operation : s = LibfuseCounters[n]
    <2>1. PICK n \in Operation : s = LibfuseCounters[n]
      BY <1>9
    <2>2. DescribeSeries(s) = K(n)
      BY <2>1 DEF K
    <2>3. t \notin Others
      BY <1>3, <1>8, <2>2
    <2>4. PICK o \in Operation : t = LibfuseCounters[o]
      BY <1>1, <2>3
    <2>5. DescribeSeries(t) = K(o)
      BY <2>4 DEF K
    <2>6. K(n)[2][2] = operationName[n] /\ K(o)[2][2] = operationName[o]
      BY <1>3
    <2>7. operationName[n] = operationName[o]
      BY <2>2, <2>5, <2>6
    <2>8. n = o
      BY <2>7, OperationNamesDiffer
    <2> QED
      BY <2>1, <2>4, <2>8
  <1>10. CASE \E n \in Operation : t = LibfuseCounters[n]
    <2>1. PICK n \in Operation : t = LibfuseCounters[n]
      BY <1>10
    <2>2. DescribeSeries(t) = K(n)
      BY <2>1 DEF K
    <2>3. s \notin Others
      BY <1>3, <1>8, <2>2
    <2> QED
      BY <1>1, <1>9, <2>3
  <1> QED
    BY <1>1, <1>7, <1>9, <1>10

\* Small numbers convert to int64 as they are.
LEMMA Int64Small ==
    ASSUME NEW n \in Nat, n < Int64Limit
    PROVE Int64(n) = n
  <1> DEFINE m == 2 * Int64Limit
  <1>1. m \in Nat /\ n < m /\ Int64Limit \in Nat
    BY MaxExactAssumption
  <1> HIDE DEF m
  <1>2. n % m = n
    BY <1>1
  <1> QED
    BY <1>1, <1>2 DEF Int64, Uint64, m

\* A number is a multiple and a rest, and only one of each.
LEMMA RestOf ==
    ASSUME NEW m \in Nat, m > 0, NEW a \in Nat
    PROVE \E q \in Int, r \in 0..(m - 1) : a = (m * q) + r /\ a % m = r
  <1> DEFINE q == a \div m
             r == a % m
  <1>1. q \in Int /\ r \in 0..(m - 1)
    OBVIOUS
  <1>2. a = (m * q) + r
    OBVIOUS
  <1> HIDE DEF q
  <1> QED
    BY <1>1, <1>2

LEMMA RestIsUnique ==
    ASSUME NEW m \in Nat, m > 0, NEW q \in Int, NEW r \in 0..(m - 1)
    PROVE ((m * q) + r) % m = r
  BY SMTT(30)

\* Sums wrap at 2^63: a sum that has wrapped goes on as if it had not.
LEMMA Int64Adds ==
    ASSUME NEW a \in Nat, NEW b \in Nat
    PROVE Int64(Int64(a) + b) = Int64(a + b)
  <1> DEFINE m == 2 * Int64Limit
             x == Int64(a) + b
             y == a + b
  <1>1. m \in Nat /\ m > 0 /\ Int64Limit \in Nat
    BY MaxExactAssumption
  <1> HIDE DEF m
  <1>2. PICK q \in Int, r \in 0..(m - 1) : a = (m * q) + r /\ a % m = r
    BY <1>1, RestOf
  <1>3. Int64(a) = r \/ Int64(a) = r - m
    BY <1>2 DEF Int64, Uint64, m
  <1>4. PICK p \in Int, s \in 0..(m - 1) : y = (m * p) + s /\ y % m = s
    <2>1. y \in Nat
      OBVIOUS
    <2> HIDE DEF y
    <2> QED
      BY <1>1, <2>1, RestOf
  <1>5. x % m = s
    <2> DEFINE e == p - q
               f == p - q - 1
    <2>1. e \in Int /\ f \in Int
      OBVIOUS
    <2>2. m * e = (m * p) - (m * q) /\ m * f = (m * e) - m
      BY <1>1
    <2>3. m * p \in Int /\ m * q \in Int /\ m * e \in Int /\ m * f \in Int
      BY <1>1
    <2> HIDE DEF e, f
    <2>4. CASE Int64(a) = r
      <3>1. x = (m * e) + s
        BY <1>1, <1>2, <1>4, <2>2, <2>3, <2>4
      <3> HIDE DEF x
      <3> QED
        BY <1>1, <2>1, <3>1, RestIsUnique
    <2>5. CASE Int64(a) = r - m
      <3>1. x = (m * f) + s
        BY <1>1, <1>2, <1>4, <2>2, <2>3, <2>5
      <3> HIDE DEF x
      <3> QED
        BY <1>1, <2>1, <3>1, RestIsUnique
    <2> QED
      BY <1>3, <2>4, <2>5
  <1>6. x % m = y % m
    BY <1>4, <1>5
  <1> HIDE DEF x, y
  <1>7. Int64(x) = Int64(y)
    BY <1>6 DEF Int64, Uint64, m
  <1> QED
    BY <1>7 DEF x, y

\* The exported sum of a series, and how much an increment adds to it.
SumOfSeries(sums, s) == Value(sums, DescribeSeries(s))

\* An increment adds its delta to the sum of its own series, modulo 2^64, and nothing
\* to the others (OTelRecorder.Record, the instrument's Add).
LEMMA RecordIncrementExact ==
    ASSUME NEW result \in Recorded, DOMAIN result.sums \subseteq Described,
           NEW d \in Increment, NEW s \in CounterSeries,
           NEW a \in Nat, SumOfSeries(result.sums, s) = Int64(a)
    PROVE LET next == RecordIncrement(result, d)
          IN  /\ DOMAIN next.sums \subseteq Described
              /\ SumOfSeries(next.sums, s) = Int64(a + Share(d, s))
  <1> DEFINE x == d.series
             kx == DescribeSeries(x)
             ks == DescribeSeries(s)
             sums == result.sums
             next == RecordIncrement(result, d)
             sum == Int64(Value(sums, kx) + Int64(d.delta))
             put == Put(sums, kx, sum)
  <1>1. x \in CounterSeries /\ d.delta \in 1..MaxExact
    BY DEF Increment
  <1>2. kx \in Described /\ ks \in Described
    BY <1>1 DEF Described
  <1>3. PointOf(sums, kx) = kx
    BY <1>2, PointIsKey
  <1>4. next.sums = put
    <2>1. next = [result EXCEPT !.sums = put]
      BY <1>1, <1>3, CountersAreRecordable DEF RecordIncrement, Add
    <2>2. \E s1, d1 : result = [sums |-> s1, dropped |-> d1]
      BY DEF Recorded
    <2> HIDE DEF put, next
    <2> QED
      BY <2>1, <2>2
  <1>5. DOMAIN put = DOMAIN sums \cup {kx} /\ put[kx] = sum
        /\ \A k \in DOMAIN sums : k # kx => put[k] = sums[k]
    BY DEF Put
  <1>6. DOMAIN next.sums \subseteq Described
    BY <1>2, <1>4, <1>5
  <1>7. CASE x = s
    <2> DEFINE v == Value(sums, ks)
               e == d.delta
    <2>1. Share(d, s) = e /\ v = Int64(a) /\ e \in Nat
      BY <1>1, <1>7, MaxExactAssumption DEF Share, SumOfSeries
    <2>2. kx = ks
      BY <1>7
    <2>3. Value(put, ks) = sum
      <3> HIDE DEF put, sum
      <3> QED
        BY <1>5, <2>2 DEF Value
    <2>4. sum = Int64(v + Int64(e))
      BY <2>2
    <2> HIDE DEF v, e, sum
    <2>5. e < Int64Limit
      BY <1>1, MaxExactAssumption DEF e
    <2>6. Int64(e) = e
      BY <2>1, <2>5, Int64Small
    <2>7. Int64(v + e) = Int64(a + e)
      BY <2>1, Int64Adds
    <2>8. Value(put, ks) = Int64(a + e)
      BY <2>3, <2>4, <2>6, <2>7
    <2> HIDE DEF put, next
    <2> QED
      BY <1>4, <1>6, <2>1, <2>8 DEF SumOfSeries, next
  <1>8. CASE x # s
    <2>1. kx # ks
      BY <1>1, <1>8, CounterKeysDiffer
    <2> HIDE DEF put, sum, kx, ks, sums, next
    <2>2. Value(put, ks) = Value(sums, ks)
      <3>1. CASE ks \in DOMAIN sums
        BY <1>5, <2>1, <3>1 DEF Value
      <3>2. CASE ks \notin DOMAIN sums
        BY <1>5, <2>1, <3>2 DEF Value
      <3> QED
        BY <3>1, <3>2
    <2>3. Share(d, s) = 0
      BY <1>8 DEF Share
    <2>4. SumOfSeries(next.sums, s) = SumOfSeries(sums, s)
      BY <1>4, <2>2 DEF SumOfSeries, ks
    <2>5. SumOfSeries(sums, s) = Int64(a) /\ a + 0 = a
      BY DEF sums
    <2>6. SumOfSeries(next.sums, s) = Int64(a + Share(d, s))
      BY <2>3, <2>4, <2>5
    <2> QED
      BY <1>6, <2>6 DEF sums, next
  <1> QED
    BY <1>7, <1>8

\* Record adds to the sum of a series what the increments of that series add up to.
LEMMA RecordAdds ==
    ASSUME NEW increments \in Seq(Increment), cumulative \in Sums64, droppedInvalidSeries = 0,
           DOMAIN cumulative \subseteq Described, NEW s \in CounterSeries,
           NEW v \in Nat, SumOfSeries(cumulative, s) = Int64(v)
    PROVE /\ DOMAIN Record(increments).sums \subseteq Described
          /\ SumOfSeries(Record(increments).sums, s) = Int64(v + Total(increments, s))
  <1> DEFINE n == Len(increments)
             start == [sums |-> cumulative, dropped |-> droppedInvalidSeries]
             g == Shares(increments, s)
  <1>1. n \in Nat /\ \A i \in 1..n : increments[i] \in Increment
    OBVIOUS
  <1>2. PICK h \in [0..n -> Recorded] :
              /\ h[0] = start
              /\ \A k \in 1..n : h[k] = RecordIncrement(h[k - 1], increments[k])
              /\ Record(increments) = h[n]
    BY RecordSteps
  <1> HIDE DEF n
  <1>3. g \in Seq(Nat) /\ Len(g) = n /\ \A i \in 1..n : g[i] = Share(increments[i], s)
    BY SharesType DEF n
  <1> HIDE DEF g
  <1>4. PICK t \in [0..n -> Nat] :
              /\ t[0] = 0
              /\ \A k \in 1..n : t[k] = t[k - 1] + g[k]
              /\ Total(increments, s) = t[n]
    <2> DEFINE l == Len(g)
    <2>1. \E t \in [0..l -> Nat] :
              /\ t[0] = 0
              /\ \A k \in 1..l : t[k] = t[k - 1] + g[k]
              /\ SumOf(g) = t[l]
      BY <1>3, SumSteps
    <2>2. l = n
      BY <1>3
    <2> HIDE DEF l
    <2> QED
      BY <2>1, <2>2 DEF Total, g
  <1> DEFINE Adds(k) == /\ DOMAIN h[k].sums \subseteq Described
                        /\ SumOfSeries(h[k].sums, s) = Int64(v + t[k])
             S == {k \in Nat : k <= n => Adds(k)}
  <1>7. 0 \in S
    <2>1. h[0].sums = cumulative /\ t[0] = 0
      BY <1>2, <1>4
    <2>2. v + 0 = v
      OBVIOUS
    <2>3. Adds(0)
      BY <1>2, <2>1, <2>2
    <2> HIDE DEF Adds
    <2> QED
      BY <2>3
  <1>8. ASSUME NEW k \in Nat, k \in S PROVE k + 1 \in S
    <2> SUFFICES ASSUME k + 1 <= n PROVE Adds(k + 1)
      OBVIOUS
    <2> DEFINE e == k + 1
               m == h[k]
               d == increments[e]
    <2>1. e \in 1..n /\ e \in 0..n /\ e - 1 = k /\ k \in 0..n /\ n \in 0..n /\ Adds(k)
      BY <1>1, <1>8
    <2> HIDE DEF e
    <2>2. d \in Increment /\ m \in Recorded /\ h[e] = RecordIncrement(m, d)
      BY <1>1, <1>2, <2>1
    <2>3. g[e] = Share(d, s) /\ t[e] = t[k] + g[e]
      BY <1>3, <1>4, <2>1
    <2>4. t[k] \in Nat /\ t[e] \in Nat
      BY <2>1
    <2>5. DOMAIN m.sums \subseteq Described /\ SumOfSeries(m.sums, s) = Int64(v + t[k])
      BY <2>1
    <2> HIDE DEF m, d
    <2> DEFINE a == v + t[k]
               b == Share(d, s)
    <2>6. a \in Nat /\ SumOfSeries(m.sums, s) = Int64(a)
      BY <2>4, <2>5
    <2>7. a + b = v + t[e]
      <3>1. b \in Nat
        BY <2>2, ShareType, MaxExactAssumption
      <3> HIDE DEF b
      <3> QED
        BY <2>3, <2>4, <3>1 DEF b
    <2> HIDE DEF a, b
    <2>11. /\ DOMAIN RecordIncrement(m, d).sums \subseteq Described
           /\ SumOfSeries(RecordIncrement(m, d).sums, s) = Int64(a + Share(d, s))
      BY <2>2, <2>5, <2>6, RecordIncrementExact
    <2>13. SumOfSeries(h[e].sums, s) = Int64(v + t[e]) /\ DOMAIN h[e].sums \subseteq Described
      BY <2>2, <2>7, <2>11 DEF b
    <2> QED
      BY <2>13 DEF e
  <1>9. Adds(n)
    <2>1. Nat \subseteq S
      <3> HIDE DEF S
      <3> QED
        BY <1>7, <1>8, SetInduction
    <2> QED
      BY <1>1, <2>1
  <1> QED
    BY <1>2, <1>4, <1>9

-----------------------------------------------------------------------------
\* The counter invariant.

\* A history keeps the last of the readings, which is all that a baseline is.
LEMMA LatestKeepsBaseline ==
    ASSUME NEW before \in Seq(Int), Len(before) <= 1, NEW told \in Seq(Int),
           NEW baselines, NEW s, BaselineIs(baselines, before \o told, s)
    PROVE /\ BaselineIs(baselines, Latest(before, told), s)
          /\ Latest(before, told) \in Seq(Int)
          /\ Len(Latest(before, told)) <= 1
  <1>1. CASE told = <<>>
    <2>1. before \o told = before
      BY <1>1, ConcatEmptySeq
    <2>2. Latest(before, told) = before
      BY <1>1 DEF Latest
    <2> QED
      BY <2>1, <2>2
  <1>2. CASE told # <<>>
    <2> DEFINE x == told[Len(told)]
               all == before \o told
               one == <<x>>
    <2>1. x \in Int /\ Len(told) > 0
      BY <1>2
    <2>2. Latest(before, told) = one
      BY <1>2 DEF Latest, Last
    <2>3. all # <<>> /\ all[Len(all)] = x
      <3>1. Len(all) = Len(before) + Len(told) /\ Len(told) \in Nat /\ Len(before) \in Nat
        OBVIOUS
      <3>2. all[Len(before) + Len(told)] = told[Len(told)]
        BY <2>1, ConcatProperties
      <3> HIDE DEF all, x
      <3> QED
        BY <2>1, <3>1, <3>2 DEF x
    <2>4. s \in DOMAIN baselines /\ 2 * baselines[s] = x
      <3> HIDE DEF all, x
      <3> QED
        BY <2>3 DEF BaselineIs, all
    <2> HIDE DEF x
    <2>5. one \in Seq(Int) /\ Len(one) = 1 /\ one # <<>> /\ one[1] = x
      BY <2>1
    <2> HIDE DEF one
    <2>6. BaselineIs(baselines, one, s)
      BY <2>4, <2>5 DEF BaselineIs
    <2> QED
      BY <2>2, <2>5, <2>6
  <1> QED
    BY <1>1, <1>2

\* Each counter is that of a field.
LEMMA CountersOfFields == \A s \in CounterSeries : \E f \in CounterFields : s = FieldSeries(f)
  <1> SUFFICES ASSUME NEW s \in CounterSeries PROVE \E f \in CounterFields : s = FieldSeries(f)
    OBVIOUS
  <1>1. DOMAIN AzStorageCounters = {"Bytes Downloaded", "Bytes Uploaded"}
        /\ DOMAIN FileCacheCounters = {"Files Downloaded", "Files served from cache"}
    BY DEF AzStorageCounters, FileCacheCounters
  <1>2. CASE \E name \in DOMAIN AzStorageCounters : s = AzStorageCounters[name]
    <2>1. PICK name \in DOMAIN AzStorageCounters : s = AzStorageCounters[name]
      BY <1>2
    <2> DEFINE f == <<"azstorage", name>>
    <2>2. f \in CounterFields /\ f[1] = "azstorage" /\ f[2] = name
      BY <2>1 DEF CounterFields
    <2> HIDE DEF f
    <2>3. FieldSeries(f) = AzStorageCounters[name]
      BY <1>1, <2>1, <2>2, SeriesByName DEF FieldSeries
    <2> QED
      BY <2>1, <2>2, <2>3
  <1>3. CASE \E name \in Operation : s = LibfuseCounters[name]
    <2>1. PICK name \in Operation : s = LibfuseCounters[name]
      BY <1>3
    <2> DEFINE f == <<"libfuse", name>>
    <2>2. f \in CounterFields /\ f[1] = "libfuse" /\ f[2] = name
      BY <2>1 DEF CounterFields
    <2> HIDE DEF f
    <2>3. FieldSeries(f) = LibfuseCounters[name]
      BY <2>1, <2>2, SeriesByName, OperationsAreApart DEF FieldSeries
    <2> QED
      BY <2>1, <2>2, <2>3
  <1>4. CASE \E name \in DOMAIN FileCacheCounters : s = FileCacheCounters[name]
    <2>1. PICK name \in DOMAIN FileCacheCounters : s = FileCacheCounters[name]
      BY <1>4
    <2> DEFINE f == <<"file_cache", name>>
    <2>2. f \in CounterFields /\ f[1] = "file_cache" /\ f[2] = name
      BY <2>1 DEF CounterFields
    <2> HIDE DEF f
    <2>3. FieldSeries(f) = FileCacheCounters[name]
      BY <1>1, <2>1, <2>2, SeriesByName DEF FieldSeries
    <2> QED
      BY <2>1, <2>2, <2>3
  <1>5. \/ \E name \in DOMAIN AzStorageCounters : s = AzStorageCounters[name]
        \/ \E name \in Operation : s = LibfuseCounters[name]
        \/ \E name \in DOMAIN FileCacheCounters : s = FileCacheCounters[name]
    BY DEF CounterSeries
  <1> QED
    BY <1>2, <1>3, <1>4, <1>5

(***************************************************************************)
(* Counters: the baseline of each is the last readable value of its field, *)
(* if there was one, and the sum exported for it is what the field rose by *)
(* since the cutover, modulo 2^64.                                         *)
(***************************************************************************)
CounterIsRisen(f) ==
    /\ Len(seen[f]) <= 1
    /\ BaselineIs(counterBaselines, seen[f], FieldSeries(f))
    /\ mode = "baseline" => risen[f] = 0
    /\ SumOfSeries(cumulative, FieldSeries(f)) = Int64(risen[f])

CounterInv ==
    /\ risen \in [CounterFields -> Nat]
    /\ DOMAIN cumulative \subseteq Described
    /\ \A f \in CounterFields : CounterIsRisen(f)

\* It holds at the start.
LEMMA CounterInvInit == ExportInit => CounterInv
  <1> SUFFICES ASSUME ExportInit PROVE CounterInv
    OBVIOUS
  <1>1. /\ seen = [f \in Fields |-> <<>>] /\ risen = [f \in CounterFields |-> 0]
        /\ counterBaselines = Empty /\ cumulative = Empty /\ records = 0
    BY DEF ExportInit, Fields
  <1>2. DOMAIN Empty = {}
    BY DEF Empty
  <1>3. ASSUME NEW f \in CounterFields PROVE CounterIsRisen(f)
    <2>1. f \in Fields
      BY DEF Fields
    <2>2. seen[f] = <<>> /\ risen[f] = 0
      BY <1>1, <2>1
    <2>3. Len(seen[f]) = 0 /\ BaselineIs(counterBaselines, seen[f], FieldSeries(f))
      BY <1>1, <1>2, <2>2 DEF BaselineIs
    <2>4. SumOfSeries(cumulative, FieldSeries(f)) = 0
      BY <1>1, <1>2 DEF SumOfSeries, Value
    <2>5. Int64(0) = 0
      BY Int64Small, MaxExactAssumption
    <2> QED
      BY <2>2, <2>3, <2>4, <2>5 DEF CounterIsRisen
  <1>4. risen \in [CounterFields -> Nat] /\ DOMAIN cumulative \subseteq Described
    BY <1>1, <1>2
  <1> QED
    BY <1>3, <1>4 DEF CounterInv

\* A record keeps what is said of one counter: ApplyCounters makes increments of what its
\* field rose by, and Record adds them (State.Apply, OTelRecorder.Record).
LEMMA ProcessKeepsCounter ==
    ASSUME ExportInv, GaugeInv, CounterInv, NEW record \in SourceRecords, Process(record),
           NEW f \in CounterFields
    PROVE /\ CounterIsRisen(f)'
          /\ risen'[f] \in Nat
          /\ DOMAIN cumulative' \subseteq Described
  <1> DEFINE v == NormalizeRecord(record)
             live == mode = "live"
             applied == ApplyCounters(live, v.counters)
             incs == applied.increments
             recorded == Record(incs)
             s == FieldSeries(f)
             before == seen[f]
             told == Readings(record, f)
             total == Total(incs, s)
             r == risen[f]
  <1>1. IsRecord(record) /\ f \in Fields
    BY SourceRecordsAssumption DEF Fields
  <1>2. /\ mode' = mode /\ records' = records + 1 /\ records < MaxRecords
        /\ counterBaselines' = applied.baselines /\ cumulative' = recorded.sums
    BY DEF Process
  <1>3. seen'[f] = Latest(before, told)
    BY <1>1 DEF Process, GaugeInv
  <1>4. risen'[f] = IF live THEN r + Rises(before \o told) ELSE 0
    BY DEF Process, CounterInv
  <1>5. s \in CounterSeries
    BY FieldSeriesType
  <1>6. v.counters \in Seq(CounterUpdate)
    BY <1>1, RecordCounts DEF Normalized
  <1>7. told \in Seq(Int) /\ ToldBy(v.counters, s) = told
    BY <1>1, <1>5, RecordTells DEF Told
  <1>8. before \in Seq(Int) /\ CounterIsRisen(f)
    BY <1>1 DEF GaugeInv, CounterInv
  <1>9. Len(before) <= 1 /\ BaselineIs(counterBaselines, before, s)
    BY <1>8 DEF CounterIsRisen
  <1> DEFINE counters == v.counters
  <1>10. counterBaselines \in Baselines /\ live \in BOOLEAN
    BY DEF ExportInv
  <1>11. CounterAfter(live, before, told, applied, s)
    <2> HIDE DEF counters, live, before, told, s
    <2>1. CounterAfter(live, before, ToldBy(counters, s), ApplyCounters(live, counters), s)
      BY <1>5, <1>6, <1>8, <1>9, <1>10, CountersFollow DEF counters
    <2> QED
      BY <1>7, <2>1 DEF counters
  <1>12. applied \in Applied
    <2> HIDE DEF counters, live
    <2>1. PICK h \in [0..Len(counters) -> Applied] :
              ApplyCounters(live, counters) = h[Len(counters)]
      BY <1>6, <1>10, ApplyCountersSteps DEF counters
    <2>2. Len(counters) \in 0..Len(counters)
      BY <1>6 DEF counters
    <2> QED
      BY <2>1, <2>2 DEF counters
  <1> HIDE DEF applied
  <1>13. incs \in Seq(Increment)
    BY <1>12 DEF Applied
  <1>14. /\ BaselineIs(applied.baselines, before \o told, s)
         /\ total = IF live THEN Rises(before \o told) ELSE 0
    BY <1>11 DEF CounterAfter
  <1>15. total \in Nat
    <2> HIDE DEF incs, s, total
    <2>1. before \o told \in Seq(Int)
      BY <1>7, <1>8, ConcatProperties
    <2> DEFINE all == before \o told
    <2> HIDE DEF all
    <2>2. Rises(all) \in Nat
      <3>1. 0 \in Int
        OBVIOUS
      <3> QED
        BY <2>1, <3>1, RisesAppend DEF all
    <2> QED
      BY <1>14, <2>2 DEF all
  <1>17. r \in Nat /\ (~live => r = 0) /\ SumOfSeries(cumulative, s) = Int64(r)
    <2>1. mode \in {"baseline", "live"}
      BY DEF Process
    <2> QED
      BY <1>8, <2>1 DEF CounterInv, CounterIsRisen
  <1> HIDE DEF v, live, incs, recorded, s, before, told, total, r
  <1>20. /\ DOMAIN recorded.sums \subseteq Described
         /\ SumOfSeries(recorded.sums, s) = Int64(r + total)
    <2>1. cumulative \in Sums64 /\ droppedInvalidSeries = 0 /\ DOMAIN cumulative \subseteq Described
      BY DEF ExportInv, CounterInv
    <2>2. /\ DOMAIN Record(incs).sums \subseteq Described
          /\ SumOfSeries(Record(incs).sums, s) = Int64(r + Total(incs, s))
      BY <1>5, <1>13, <1>17, <2>1, RecordAdds
    <2> QED
      BY <2>2 DEF recorded, total
  <1>21. risen'[f] = r + total
    <2>1. CASE live
      BY <1>4, <1>14, <2>1
    <2>2. CASE ~live
      BY <1>4, <1>14, <1>17, <2>2
    <2> QED
      BY <2>1, <2>2
  <1>22. /\ BaselineIs(applied.baselines, Latest(before, told), s)
         /\ Len(Latest(before, told)) <= 1
    <2> DEFINE b == applied.baselines
    <2>1. BaselineIs(b, before \o told, s) /\ Len(before) <= 1
      BY <1>9, <1>14
    <2> HIDE DEF b
    <2>2. BaselineIs(b, Latest(before, told), s) /\ Len(Latest(before, told)) <= 1
      BY <1>7, <1>8, <2>1, LatestKeepsBaseline
    <2> QED
      BY <2>2 DEF b
  <1>23. mode' = "baseline" => risen'[f] = 0
    <2> SUFFICES ASSUME mode = "baseline" PROVE risen'[f] = 0
      BY <1>2
    <2>1. ~live
      BY DEF live
    <2> QED
      BY <1>4, <2>1
  <1>24. CounterIsRisen(f)'
    BY <1>2, <1>3, <1>20, <1>21, <1>22, <1>23 DEF CounterIsRisen, s
  <1>25. risen'[f] \in Nat
    BY <1>15, <1>17, <1>21
  <1> QED
    BY <1>2, <1>20, <1>24, <1>25

\* A record keeps it, whatever it tells of the other counters (Processor.Process).
LEMMA ProcessKeepsCounters ==
    ASSUME ExportInv, GaugeInv, CounterInv, NEW record \in SourceRecords, Process(record)
    PROVE CounterInv'
  <1>1. /\ \A f \in CounterFields : CounterIsRisen(f)' /\ risen'[f] \in Nat
        /\ (\E f \in CounterFields : TRUE) => DOMAIN cumulative' \subseteq Described
    BY ProcessKeepsCounter
  <1>2. \E f \in CounterFields : TRUE
    <2>1. <<"azstorage", "Bytes Downloaded">> \in CounterFields
      BY DEF CounterFields, AzStorageCounters
    <2> QED
      BY <2>1
  <1>3. risen' \in [CounterFields -> Nat]
    <2>1. risen \in [CounterFields -> Nat]
      BY DEF CounterInv
    <2> DEFINE R(f) == IF mode = "live" THEN risen[f] + Rises(seen[f] \o Readings(record, f)) ELSE 0
    <2>2. risen' = [f \in CounterFields |-> R(f)]
      BY <2>1 DEF Process
    <2> HIDE DEF R
    <2> QED
      BY <1>1, <2>2
  <1> QED
    BY <1>1, <1>2, <1>3 DEF CounterInv

\* Every step keeps it.
LEMMA CounterInvNext ==
    ExportInv /\ GaugeInv /\ CounterInv /\ [ExportNext]_exportVars => CounterInv'
  <1> SUFFICES ASSUME ExportInv, GaugeInv, CounterInv, [ExportNext]_exportVars
               PROVE CounterInv'
    OBVIOUS
  <1>1. ASSUME NEW record \in SourceRecords, Process(record)
        PROVE CounterInv'
    BY <1>1, ProcessKeepsCounters
  <1>2. CASE Cutover
    BY <1>2 DEF Cutover, CounterInv, CounterIsRisen
  <1>3. CASE SourceEnded
    BY <1>3 DEF SourceEnded, CounterInv, CounterIsRisen
  <1>4. CASE Collect
    BY <1>4 DEF Collect, CounterInv, CounterIsRisen
  <1>5. CASE UNCHANGED exportVars
    BY <1>5 DEF exportVars, CounterInv, CounterIsRisen
  <1> QED
    BY <1>1, <1>2, <1>3, <1>4, <1>5 DEF ExportNext

\* The sum exported for each counter is what its own source field rose by between the
\* readings it had since the cutover, modulo 2^64, for any number of records with any
\* number of messages: no increase is counted twice, lost to a value that cannot be read,
\* mixed with another field's or changed by a conversion (NormalizeRecord,
\* State.applyCounter, OTelRecorder.Record).
THEOREM ExportExact == ExportSpec => []ExportedIsExact
  <1>1. CounterInv => ExportedIsExact
    <2> SUFFICES ASSUME CounterInv PROVE ExportedIsExact
      OBVIOUS
    <2>1. ASSUME NEW f \in CounterFields PROVE Value(cumulative, KeyOf(f)) = Int64(risen[f])
      <3>1. f \in Fields /\ CounterIsRisen(f)
        BY DEF Fields, CounterInv
      <3>2. DescribeSeries(FieldSeries(f)) = KeyOf(f)
        BY <3>1, KeysOfFields
      <3> QED
        BY <3>1, <3>2 DEF CounterIsRisen, SumOfSeries
    <2>2. ASSUME NEW key \in DOMAIN cumulative
          PROVE key \in {KeyOf(f) : f \in CounterFields}
      <3>1. PICK s \in CounterSeries : key = DescribeSeries(s)
        BY DEF CounterInv, Described
      <3>2. PICK f \in CounterFields : s = FieldSeries(f)
        BY CountersOfFields
      <3>3. DescribeSeries(FieldSeries(f)) = KeyOf(f)
        BY KeysOfFields DEF Fields
      <3> QED
        BY <3>1, <3>2, <3>3
    <2> QED
      BY <2>1, <2>2 DEF ExportedIsExact
  <1>2. ExportInit => ExportInv /\ GaugeInv /\ CounterInv
    BY ExportInvInit, GaugeInvInit, CounterInvInit
  <1>3. ExportInv /\ GaugeInv /\ CounterInv /\ [ExportNext]_exportVars
          => (ExportInv /\ GaugeInv /\ CounterInv)'
    BY ExportInvNext, GaugeInvNext, CounterInvNext
  <1> QED
    BY <1>1, <1>2, <1>3, PTL DEF ExportSpec
=============================================================================
