-------------------------- MODULE MetricsLogProofs --------------------------
(***************************************************************************)
(* Proofs about MetricsLog, for any goroutines, names, values, capacity    *)
(* and number of reports: every metric is in one place, and the figures of *)
(* a counter are those of the metrics it stands for.                       *)
(***************************************************************************)
EXTENDS MetricsLog, FiniteSetTheorems, SequenceTheorems, WellFoundedInduction, TLAPS

-----------------------------------------------------------------------------
(* Sums, smallest and largest values.                                      *)

\* A non-empty set of numbers has a least one: what the inductions below rest on.
LEMMA LeastNat ==
  ASSUME NEW S, S \subseteq Nat, S # {}
  PROVE  \E n \in S : \A m \in S : n <= m
<1>1. \E n \in S : \A m \in S : <<m, n>> \notin OpToRel(<, Nat)
  BY WFMin, NatLessThanWellFounded, Zenon
<1>2. \A m, n \in Nat : <<m, n>> \notin OpToRel(<, Nat) => ~(m < n)
  BY Zenon DEF OpToRel
<1>3. \E n \in S : \A m \in S : ~(m < n)
  BY <1>1, <1>2, Zenon
<1> QED
  BY <1>3, SMT

\* What report k adds to the sum of some metrics.
Term(metrics, reports, k) == IF k \in metrics THEN reports[k].value ELSE 0

\* f[k] is the sum of those among the first k, for k up to n.
SumIn(f, metrics, reports, n) ==
  f[0] = 0 /\ \A k \in 1 .. n : f[k] = f[k - 1] + Term(metrics, reports, k)

Reports == Seq([name : Name, value : Value])

\* What one report adds to a figure is a number.
LEMMA TermType ==
  ASSUME NEW reports \in Reports, NEW metrics, NEW k \in 1 .. Len(reports)
  PROVE  Term(metrics, reports, k) \in Int
<1>1. reports[k] \in [name : Name, value : Value]
  BY ElementOfSeq DEF Reports
<1>2. reports[k].value \in Int
  BY <1>1, MetricsAssumption, Zenon
<1> QED
  BY <1>2, SMT DEF Term

\* There is such an f.
LEMMA SumExists ==
  ASSUME NEW reports \in Reports, NEW metrics, NEW n \in 0 .. Len(reports)
  PROVE  \E f \in [0 .. n -> Int] : SumIn(f, metrics, reports, n)
<1> DEFINE Missing == {k \in 0 .. Len(reports) :
                         ~\E f \in [0 .. k -> Int] : SumIn(f, metrics, reports, k)}
<1> SUFFICES ASSUME Missing # {} PROVE FALSE
  OBVIOUS
<1>0. Len(reports) \in Nat
  BY LenProperties DEF Reports
<1>1. PICK k \in Missing : \A m \in Missing : k <= m
  <2>1. Missing \subseteq Nat
    BY SMT
  <2> QED
    BY <2>1, LeastNat
<1>2. k # 0
  <2> DEFINE f == [j \in 0 .. 0 |-> 0]
  <2>1. f \in [0 .. 0 -> Int] /\ SumIn(f, metrics, reports, 0)
    BY SMT DEF SumIn
  <2> QED
    BY <2>1
<1>3. k - 1 \in 0 .. Len(reports) /\ k - 1 \notin Missing /\ k \in 1 .. Len(reports)
  <2>1. k \in 0 .. Len(reports)
    OBVIOUS
  <2>2. k - 1 \in 0 .. Len(reports) /\ k \in 1 .. Len(reports) /\ ~(k <= k - 1)
    BY <1>0, <1>2, <2>1, SMT
  <2> QED
    BY <1>1, <2>2, Zenon
<1>4. PICK g \in [0 .. k - 1 -> Int] : SumIn(g, metrics, reports, k - 1)
  BY <1>3
<1> DEFINE t == Term(metrics, reports, k)
           f == [j \in 0 .. k |-> IF j = k THEN g[k - 1] + t ELSE g[j]]
<1>5. t \in Int
  BY <1>3, TermType
<1>6. f \in [0 .. k -> Int]
  <2> HIDE DEF t
  <2> QED
    BY <1>3, <1>5, SMT
<1>7. SumIn(f, metrics, reports, k)
  <2>1. f[0] = 0
    BY <1>3, <1>4, SMT DEF SumIn
  <2>2. \A j \in 1 .. k - 1 : f[j] = f[j - 1] + Term(metrics, reports, j)
    BY <1>3, <1>4, SMT DEF SumIn
  <2>3. f[k] = f[k - 1] + Term(metrics, reports, k)
    BY <1>3, SMT
  <2> HIDE DEF f, t
  <2> SUFFICES ASSUME NEW j \in 1 .. k PROVE f[j] = f[j - 1] + Term(metrics, reports, j)
    BY <2>1, Zenon DEF SumIn
  <2>4. j = k \/ j \in 1 .. k - 1
    BY <1>3, SMT
  <2> QED
    BY <2>2, <2>3, <2>4, Zenon
<1> QED
  BY <1>1, <1>6, <1>7

\* f and g are sums with the same first n terms.
Alike(f, m1, r1, g, m2, r2, n) ==
  /\ SumIn(f, m1, r1, n) /\ SumIn(g, m2, r2, n)
  /\ \A k \in 1 .. n : Term(m1, r1, k) = Term(m2, r2, k)

\* Two of them agree as far as their terms do.
LEMMA SumUnique ==
  ASSUME NEW m1, NEW m2, NEW r1, NEW r2, NEW n \in Nat,
         NEW f, NEW g, Alike(f, m1, r1, g, m2, r2, n)
  PROVE  \A k \in 0 .. n : f[k] = g[k]
<1> DEFINE Differ == {k \in 0 .. n : f[k] # g[k]}
<1> SUFFICES ASSUME Differ # {} PROVE FALSE
  OBVIOUS
<1>1. PICK k \in Differ : \A m \in Differ : k <= m
  <2>1. Differ \subseteq Nat
    BY SMT
  <2> QED
    BY <2>1, LeastNat
<1>2. k # 0
  BY DEF Alike, SumIn
<1>3. k \in 1 .. n /\ k - 1 \in 0 .. n /\ f[k - 1] = g[k - 1]
  BY <1>1, <1>2, SMT
<1> QED
  BY <1>1, <1>3, Zenon DEF SumIn, Alike

\* Of the first n terms of two sums the p-th differs by d, the others do not differ.
ButOne(m1, r1, m2, r2, n, p, d) ==
  \A k \in 1 .. n : /\ Term(m2, r2, k) \in Int
                    /\ Term(m1, r1, k) = Term(m2, r2, k) + (IF k = p THEN d ELSE 0)

\* Then the sums differ by d from p on.
LEMMA SumShift ==
  ASSUME NEW m1, NEW m2, NEW r1, NEW r2, NEW n \in Nat, NEW p \in Nat \ {0}, NEW d \in Int,
         NEW f, NEW g, SumIn(f, m1, r1, n), SumIn(g, m2, r2, n),
         \A k \in 0 .. n : g[k] \in Int,
         ButOne(m1, r1, m2, r2, n, p, d)
  PROVE  p <= n => f[n] = g[n] + d
<1> DEFINE Differ == {k \in 0 .. n : f[k] # g[k] + (IF k >= p THEN d ELSE 0)}
<1>a. SUFFICES ASSUME Differ # {} PROVE FALSE
  <2>1. CASE Differ = {}
    <3>1. n \in 0 .. n
      BY SMT
    <3>2. f[n] = g[n] + (IF n >= p THEN d ELSE 0)
      BY <2>1, <3>1, Zenon
    <3> QED
      BY <3>2, SMT
  <2> QED
    BY <2>1
<1>1. PICK k \in Differ : \A m \in Differ : k <= m
  <2>1. Differ \subseteq Nat
    BY SMT
  <2> QED
    BY <1>a, <2>1, LeastNat
<1>2. k # 0
  <2>1. f[0] = 0 /\ g[0] = 0
    BY DEF SumIn
  <2> QED
    BY <2>1, SMT
<1>3. k \in 1 .. n /\ k - 1 \in 0 .. n /\ f[k - 1] = g[k - 1] + (IF k - 1 >= p THEN d ELSE 0)
  <2>1. k \in 0 .. n
    OBVIOUS
  <2>2. k \in 1 .. n /\ k - 1 \in 0 .. n /\ ~(k <= k - 1)
    BY <1>2, <2>1, SMT
  <2> QED
    BY <1>1, <2>2, Zenon
<1>4. f[k] = f[k - 1] + Term(m1, r1, k) /\ g[k] = g[k - 1] + Term(m2, r2, k)
  BY <1>3, Zenon DEF SumIn
<1>5. f[k] = g[k] + (IF k >= p THEN d ELSE 0)
  <2>1. Term(m1, r1, k) = Term(m2, r2, k) + (IF k = p THEN d ELSE 0)
    BY <1>3 DEF ButOne
  <2>2. g[k - 1] \in Int /\ Term(m2, r2, k) \in Int
    BY <1>3 DEF ButOne
  <2> QED
    BY <1>3, <1>4, <2>1, <2>2, SMT
<1> QED
  BY <1>1, <1>5, Zenon

\* What SumOf returns.
LEMMA SumOfIs ==
  ASSUME NEW reports \in Reports, NEW metrics
  PROVE  \E f \in [0 .. Len(reports) -> Int] :
           SumIn(f, metrics, reports, Len(reports)) /\ SumOf(metrics, reports) = f[Len(reports)]
<1> DEFINE n == Len(reports)
           Is(f) == f = [k \in 0 .. Len(reports) |->
                           IF k = 0 THEN 0
                           ELSE f[k - 1] + (IF k \in metrics THEN reports[k].value ELSE 0)]
           upTo == CHOOSE f : Is(f)
<1>0. n \in Nat
  BY LenProperties DEF Reports
<1>1. PICK f \in [0 .. n -> Int] : SumIn(f, metrics, reports, n)
  <2>1. n \in 0 .. Len(reports)
    BY <1>0, SMT
  <2> QED
    BY <2>1, SumExists, Zenon
<1>2. Is(f)
  <2>1. \A k \in 0 .. n :
          f[k] = IF k = 0 THEN 0
                 ELSE f[k - 1] + (IF k \in metrics THEN reports[k].value ELSE 0)
    BY <1>0, <1>1, SMT DEF SumIn, Term
  <2> QED
    BY <2>1, Zenon
<1>3. Is(upTo)
  BY <1>2, Zenon
<1>4. SumOf(metrics, reports) = upTo[n]
  BY Zenon DEF SumOf
<1>5. SumIn(upTo, metrics, reports, n)
  <2>1. \A k \in 0 .. n : upTo[k] = IF k = 0 THEN 0
                                    ELSE upTo[k - 1] + Term(metrics, reports, k)
    BY <1>3, Zenon DEF Term
  <2> HIDE DEF upTo
  <2> QED
    BY <1>0, <2>1, SMT DEF SumIn
<1>6. upTo[n] = f[n]
  <2>1. \A k \in 0 .. n : upTo[k] = f[k]
    <3> HIDE DEF upTo
    <3>1. Alike(upTo, metrics, reports, f, metrics, reports, n)
      BY <1>1, <1>5 DEF Alike
    <3> QED
      BY <1>0, <3>1, SumUnique, SMT
  <2> QED
    BY <1>0, <2>1, SMT
<1> QED
  BY <1>1, <1>4, <1>6, Zenon

\* Another metric.
LEMMA SumOfAdds ==
  ASSUME NEW reports \in Reports, NEW metrics, NEW i \in 1 .. Len(reports), i \notin metrics
  PROVE  SumOf(metrics \cup {i}, reports) = SumOf(metrics, reports) + reports[i].value
<1> DEFINE n == Len(reports)
           d == reports[i].value
           more == metrics \cup {i}
<1>0. n \in Nat /\ i \in 1 .. n /\ i \in Nat \ {0}
  BY LenProperties, SMT DEF Reports
<1>1. PICK g \in [0 .. n -> Int] : SumIn(g, metrics, reports, n) /\ SumOf(metrics, reports) = g[n]
  BY SumOfIs
<1>2. PICK f \in [0 .. n -> Int] : SumIn(f, more, reports, n) /\ SumOf(more, reports) = f[n]
  BY SumOfIs
<1>3. d \in Int
  <2>1. Term({i}, reports, i) \in Int
    BY TermType
  <2> QED
    BY <2>1 DEF Term
<1>4. ButOne(more, reports, metrics, reports, n, i, d)
  <2> SUFFICES ASSUME NEW k \in 1 .. n
               PROVE  /\ Term(metrics, reports, k) \in Int
                      /\ Term(more, reports, k)
                           = Term(metrics, reports, k) + (IF k = i THEN d ELSE 0)
    BY DEF ButOne
  <2>1. Term(metrics, reports, k) \in Int
    BY TermType
  <2>2. CASE k = i
    BY <1>3, <2>2, SMT DEF Term
  <2>3. CASE k # i
    <3>1. Term(more, reports, k) = Term(metrics, reports, k)
      BY <2>3, Zenon DEF Term
    <3> QED
      BY <2>1, <2>3, <3>1, SMT
  <2> QED
    BY <2>1, <2>2, <2>3
<1> HIDE DEF n, d, more
<1>6. f[n] = g[n] + d
  <2>1. \A k \in 0 .. n : g[k] \in Int
    BY <1>1
  <2>2. i <= n
    BY <1>0, SMT
  <2> QED
    BY <1>0, <1>1, <1>2, <1>3, <1>4, <2>1, <2>2, SumShift, SMTT(40)
<1> QED
  BY <1>1, <1>2, <1>6 DEF n, d, more

\* Another report, which is none of the metrics.
LEMMA SumOfAppend ==
  ASSUME NEW reports \in Reports, NEW metrics, metrics \subseteq 1 .. Len(reports),
         NEW report \in [name : Name, value : Value]
  PROVE  SumOf(metrics, Append(reports, report)) = SumOf(metrics, reports)
<1> DEFINE n == Len(reports)
           more == Append(reports, report)
<1>0. /\ n \in Nat /\ more \in Reports /\ Len(more) = n + 1
      /\ \A k \in 1 .. n : more[k] = reports[k]
  BY LenProperties, AppendProperties, SMT DEF Reports
<1>1. PICK g \in [0 .. n -> Int] : SumIn(g, metrics, reports, n) /\ SumOf(metrics, reports) = g[n]
  BY SumOfIs
<1>2. PICK f \in [0 .. n + 1 -> Int] :
        SumIn(f, metrics, more, n + 1) /\ SumOf(metrics, more) = f[n + 1]
  BY <1>0, SumOfIs, Zenon
<1>3. \A k \in 1 .. n : Term(metrics, more, k) = Term(metrics, reports, k)
  BY <1>0, Zenon DEF Term
<1>4. SumIn(f, metrics, more, n)
  BY <1>0, <1>2, SMT DEF SumIn
<1>5. f[n + 1] = f[n] + 0
  <2>1. n + 1 \notin metrics /\ n + 1 \in 1 .. n + 1 /\ (n + 1) - 1 = n
    BY <1>0, SMT
  <2>2. Term(metrics, more, n + 1) = 0
    BY <2>1 DEF Term
  <2> QED
    BY <1>2, <2>1, <2>2, Zenon DEF SumIn
<1> HIDE DEF n, more
<1>6. \A k \in 0 .. n : f[k] = g[k]
  <2>1. n \in Nat /\ Alike(f, metrics, more, g, metrics, reports, n)
    BY <1>0, <1>1, <1>3, <1>4, Zenon DEF Alike
  <2> QED
    BY <2>1, SumUnique, SMTT(40)
<1>7. f[n + 1] = g[n]
  <2>1. f[n] = g[n] /\ g[n] \in Int
    BY <1>0, <1>1, <1>6, SMT
  <2> QED
    BY <1>5, <2>1, SMT
<1> QED
  BY <1>1, <1>2, <1>7 DEF n, more

\* No metrics.
LEMMA SumOfNone ==
  ASSUME NEW reports \in Reports
  PROVE  SumOf({}, reports) = 0
<1> DEFINE n == Len(reports)
           zero == [k \in 0 .. n |-> 0]
<1>0. n \in Nat
  BY LenProperties DEF Reports
<1>1. PICK g \in [0 .. n -> Int] : SumIn(g, {}, reports, n) /\ SumOf({}, reports) = g[n]
  BY SumOfIs
<1>2. SumIn(zero, {}, reports, n)
  BY <1>0, SMT DEF SumIn, Term
<1> HIDE DEF n, zero
<1>3. \A k \in 0 .. n : g[k] = zero[k]
  <2>1. Alike(g, {}, reports, zero, {}, reports, n)
    BY <1>1, <1>2 DEF Alike
  <2> QED
    BY <1>0, <2>1, SumUnique, SMTT(40)
<1>4. n \in 0 .. n /\ zero[n] = 0
  BY <1>0, SMT DEF zero
<1> QED
  BY <1>1, <1>3, <1>4, Zenon DEF n

\* m is the smallest, or the largest, of some values.
Smallest(m, values) == m \in values /\ \A v \in values : m <= v
Largest(m, values) == m \in values /\ \A v \in values : m >= v

\* Min and Max choose them.
LEMMA MinMaxAre ==
  ASSUME NEW values \in SUBSET Int, NEW m
  PROVE  /\ Smallest(m, values) => m = Min(values)
         /\ Largest(m, values) => m = Max(values)
<1>1. ASSUME Smallest(m, values) PROVE m = Min(values)
  <2>1. \E x \in values : \A y \in values : x <= y
    BY <1>1 DEF Smallest
  <2>2. PICK x \in values : x = Min(values) /\ \A y \in values : x <= y
    BY <2>1, Zenon DEF Min
  <2>3. x \in Int /\ m \in Int /\ x <= m /\ m <= x
    BY <1>1, <2>2 DEF Smallest
  <2>4. x = m
    BY <2>3, SMT
  <2> QED
    BY <2>2, <2>4
<1>2. ASSUME Largest(m, values) PROVE m = Max(values)
  <2>1. \E x \in values : \A y \in values : x >= y
    BY <1>2 DEF Largest
  <2>2. PICK x \in values : x = Max(values) /\ \A y \in values : x >= y
    BY <2>1, Zenon DEF Max
  <2>3. x \in Int /\ m \in Int /\ x >= m /\ m >= x
    BY <1>2, <2>2 DEF Largest
  <2>4. x = m
    BY <2>3, SMT
  <2> QED
    BY <2>2, <2>4
<1> QED
  BY <1>1, <1>2

\* The smaller and the larger of two values.
LEMMA MinMaxOfTwo ==
  ASSUME NEW a \in Int, NEW b \in Int
  PROVE  /\ Min({a, b}) = IF a <= b THEN a ELSE b
         /\ Max({a, b}) = IF a >= b THEN a ELSE b
<1>1. Smallest(IF a <= b THEN a ELSE b, {a, b}) /\ Largest(IF a >= b THEN a ELSE b, {a, b})
  BY SMT DEF Smallest, Largest
<1> QED
  BY <1>1, MinMaxAre, Zenon
-----------------------------------------------------------------------------
(* The inductive invariant.                                                *)

AtSending(i) == {r \in Reporter : sending[r] = i}
AtNotify(i) == {k \in 1 .. Len(notify) : notify[k] = i}
AtCounters(i) == {n \in Name : i \in counters[n].of}
AtBatch(i) == {n \in Name : i \in batch[n].of}

One(S) == \E x \in S : S = {x}

\* Metric i is with one goroutine, at one place in the channel, in one counter, in one
\* counter being logged, or logged.
OnePlace(i) ==
  \/ /\ One(AtSending(i)) /\ AtNotify(i) = {} /\ AtCounters(i) = {} /\ AtBatch(i) = {}
     /\ i \notin logged
  \/ /\ AtSending(i) = {} /\ One(AtNotify(i)) /\ AtCounters(i) = {} /\ AtBatch(i) = {}
     /\ i \notin logged
  \/ /\ AtSending(i) = {} /\ AtNotify(i) = {} /\ One(AtCounters(i)) /\ AtBatch(i) = {}
     /\ i \notin logged
  \/ /\ AtSending(i) = {} /\ AtNotify(i) = {} /\ AtCounters(i) = {} /\ One(AtBatch(i))
     /\ i \notin logged
  \/ /\ AtSending(i) = {} /\ AtNotify(i) = {} /\ AtCounters(i) = {} /\ AtBatch(i) = {}
     /\ i \in logged

InOnePlace == \A i \in 1 .. Len(reported) : OnePlace(i)

ValuesOf(c) == {reported[i].value : i \in c.of}

\* The figures of a counter are right.
Right(c) ==
  /\ c.count = Cardinality(c.of)
  /\ c.sum = SumOf(c.of, reported)
  /\ c.of # {} => Smallest(c.min, ValuesOf(c)) /\ Largest(c.max, ValuesOf(c))

\* A counter under name n: its metrics were reported, and under that name.
Named(c, n) == \A i \in c.of : i \in 1 .. Len(reported) /\ reported[i].name = n

CountersInOrder ==
  /\ \A n \in Name : /\ Right(counters[n]) /\ Named(counters[n], n)
                     /\ Right(batch[n]) /\ Named(batch[n], n)
  /\ ~logging => \A n \in Name : batch[n] = Empty

IInv == TypeOK /\ InOnePlace /\ CountersInOrder

-----------------------------------------------------------------------------
(* Counters.                                                               *)

\* A new counter is one, and in order.
LEMMA EmptyInOrder ==
  ASSUME TypeOK
  PROVE  Empty \in Counter /\ Right(Empty) /\ \A n : Named(Empty, n)
<1>1. Empty \in Counter
  BY MetricsAssumption, SMT DEF Empty, Counter
<1>2. Right(Empty)
  BY FS_EmptySet, SumOfNone DEF Right, Empty, TypeOK, Reports
<1> QED
  BY <1>1, <1>2 DEF Named, Empty

\* A set of metrics reported is finite.
LEMMA MetricsFinite ==
  ASSUME NEW n \in Nat, NEW S, S \subseteq 1 .. n
  PROVE  IsFiniteSet(S) /\ Cardinality(S) \in 0 .. n
<1>1. IsFiniteSet(1 .. n) /\ Cardinality(1 .. n) = n
  <2>1. 1 \in Int /\ n \in Int /\ (IF 1 > n THEN 0 ELSE n - 1 + 1) = n
    BY SMT
  <2> QED
    BY <2>1, FS_Interval, Zenon
<1>2. IsFiniteSet(S) /\ Cardinality(S) <= n
  BY <1>1, FS_Subset
<1> QED
  BY <1>2, FS_CardinalityType, SMT

\* A counter with one more metric.
LEMMA IncrByRight ==
  ASSUME TypeOK, NEW c \in Counter, Right(c), NEW name \in Name, Named(c, name),
         NEW i \in 1 .. Len(reported), i \notin c.of, reported[i].name = name
  PROVE  /\ IncrBy(c, i) \in Counter /\ IncrBy(c, i).of = c.of \cup {i}
         /\ Right(IncrBy(c, i)) /\ Named(IncrBy(c, i), name)
<1> DEFINE d == IncrBy(c, i)
           val == reported[i].value
<1>0. reported \in Reports /\ Len(reported) \in Nat /\ Len(reported) <= MaxReports
  BY LenProperties DEF TypeOK, Reports
<1>1. val \in Int /\ i \in Metric
  <2>1. reported[i] \in [name : Name, value : Value]
    BY <1>0, ElementOfSeq DEF Reports
  <2>2. val \in Value
    BY <2>1
  <2> QED
    <3>1. val \in Int
      BY <2>2, MetricsAssumption, Zenon
    <3>2. i \in Metric
      BY <1>0, MetricsAssumption, SMT DEF Metric
    <3> QED
      BY <3>1, <3>2
<1>2. c.of \subseteq 1 .. Len(reported) /\ c.of \subseteq Metric
  BY <1>0, Zenon DEF Named, Counter
<1>3. IsFiniteSet(c.of) /\ Cardinality(c.of) \in Nat
  BY <1>0, <1>2, MetricsFinite, FS_CardinalityType
<1>4. c.count = 0 <=> c.of = {}
  BY <1>3, FS_EmptySet DEF Right
<1>5. c.min \in Int /\ c.max \in Int /\ c.sum \in Int /\ c.count \in Nat
  BY SMT DEF Counter
<1>6. /\ d.of = c.of \cup {i}
      /\ d.count = Cardinality(c.of) + 1
      /\ d.sum = SumOf(c.of, reported) + val
      /\ d.min = IF c.of = {} THEN val ELSE Min({c.min, val})
      /\ d.max = IF c.of = {} THEN val ELSE Max({c.max, val})
  <2>1. CASE c.count = 0
    <3>1. d = [min |-> val, max |-> val, sum |-> val, count |-> 1, of |-> {i}]
      BY <2>1 DEF IncrBy
    <3>2. c.of = {} /\ Cardinality(c.of) = 0 /\ SumOf(c.of, reported) = 0
      BY <1>0, <1>4, <2>1, SumOfNone DEF Right
    <3> HIDE DEF d, val
    <3> QED
      BY <1>1, <3>1, <3>2, SMT
  <2>2. CASE c.count # 0
    <3>1. d = [min |-> Min({c.min, val}), max |-> Max({c.max, val}),
               sum |-> c.sum + val, count |-> c.count + 1, of |-> c.of \cup {i}]
      BY <2>2 DEF IncrBy
    <3>2. c.of # {}
      BY <1>4, <2>2
    <3> HIDE DEF d, val
    <3> QED
      BY <3>1, <3>2 DEF Right
  <2> QED
    BY <2>1, <2>2
<1>7. d = [min |-> d.min, max |-> d.max, sum |-> d.sum, count |-> d.count, of |-> d.of]
  BY DEF IncrBy
<1>8. d.count = Cardinality(d.of) /\ d.count \in 0 .. MaxReports
  <2>1. Cardinality(d.of) = Cardinality(c.of) + 1
    BY <1>3, <1>6, FS_AddElement
  <2>2. Cardinality(d.of) \in 0 .. Len(reported)
    <3>1. d.of \subseteq 1 .. Len(reported)
      BY <1>2, <1>6
    <3> QED
      BY <1>0, <3>1, MetricsFinite
  <2> QED
    BY <1>0, <1>6, <2>1, <2>2, MetricsAssumption, SMT
<1>9. d.sum = SumOf(d.of, reported)
  BY <1>0, <1>2, <1>6, SumOfAdds
<1>10. ValuesOf(d) = ValuesOf(c) \cup {val}
  BY <1>6, Zenon DEF ValuesOf
<1>11. /\ d.min \in Int /\ d.max \in Int
       /\ Smallest(d.min, ValuesOf(d)) /\ Largest(d.max, ValuesOf(d))
  <2>1. CASE c.of = {}
    <3>1. ValuesOf(d) = {val} /\ d.min = val /\ d.max = val
      BY <1>6, <1>10, <2>1 DEF ValuesOf
    <3> HIDE DEF d, val
    <3> QED
      BY <1>1, <3>1, SMT DEF Smallest, Largest
  <2>2. CASE c.of # {}
    <3>1. /\ d.min = IF c.min <= val THEN c.min ELSE val
          /\ d.max = IF c.max >= val THEN c.max ELSE val
      BY <1>1, <1>5, <1>6, <2>2, MinMaxOfTwo, Zenon
    <3>2. Smallest(c.min, ValuesOf(c)) /\ Largest(c.max, ValuesOf(c))
      BY <2>2 DEF Right
    <3>3. ValuesOf(c) \subseteq Int
      <4> SUFFICES ASSUME NEW j \in c.of PROVE reported[j].value \in Int
        BY DEF ValuesOf
      <4>1. reported[j] \in [name : Name, value : Value]
        BY <1>0, <1>2, ElementOfSeq DEF Reports
      <4> QED
        BY <4>1, MetricsAssumption, Zenon
    <3> HIDE DEF d, val
    <3> QED
      BY <1>1, <1>5, <1>10, <3>1, <3>2, <3>3, SMT DEF Smallest, Largest
  <2> QED
    BY <2>1, <2>2
<1>12. d.sum \in Int /\ d.of \subseteq Metric
  <2>1. SumOf(c.of, reported) \in Int
    BY <1>5 DEF Right
  <2> HIDE DEF d, val
  <2> QED
    BY <1>1, <1>2, <1>6, <2>1, SMT
<1>13. d \in Counter
  <2> HIDE DEF d
  <2> QED
    BY <1>7, <1>8, <1>11, <1>12, Zenon DEF Counter
<1>14. Named(d, name)
  BY <1>6, Zenon DEF Named
<1> QED
  BY <1>6, <1>8, <1>9, <1>11, <1>13, <1>14 DEF Right

\* A report makes no figure wrong.
LEMMA ReportKeepsRight ==
  ASSUME TypeOK, NEW r \in Reporter, Report(r), NEW c \in Counter, NEW n,
         Right(c), Named(c, n)
  PROVE  Right(c)' /\ Named(c, n)'
<1>0. reported \in Reports /\ Len(reported) \in Nat
  BY LenProperties DEF TypeOK, Reports
<1>1. PICK report \in [name : Name, value : Value] : reported' = Append(reported, report)
  BY Zenon DEF Report
<1>2. c.of \subseteq 1 .. Len(reported)
  BY DEF Named
<1>3. SumOf(c.of, reported') = SumOf(c.of, reported)
  BY <1>0, <1>1, <1>2, SumOfAppend
<1>4. \A i \in c.of : reported'[i] = reported[i] /\ i \in 1 .. Len(reported')
  <2>1. /\ Len(reported') = Len(reported) + 1
        /\ \A i \in 1 .. Len(reported) : reported'[i] = reported[i]
    BY <1>0, <1>1, AppendProperties DEF Reports
  <2> QED
    BY <1>0, <1>2, <2>1, SMT
<1>5. ValuesOf(c)' = ValuesOf(c)
  BY <1>4, Zenon DEF ValuesOf
<1>6. Right(c)'
  BY <1>3, <1>5, Zenon DEF Right
<1> QED
  BY <1>4, <1>6, Zenon DEF Named
-----------------------------------------------------------------------------
(* The steps.                                                              *)

\* What does not change is in order still.
LEMMA SameInOrder ==
  /\ TypeOK /\ UNCHANGED <<reported, counters, batch, logging>> /\ CountersInOrder
       => CountersInOrder'
  /\ UNCHANGED <<reported, sending, notify, counters, batch, logged>> /\ InOnePlace
       => InOnePlace'
<1>1. ASSUME UNCHANGED <<reported, counters, batch, logging>>, CountersInOrder
      PROVE  CountersInOrder'
  <2>1. reported' = reported /\ counters' = counters /\ batch' = batch /\ logging' = logging
    BY <1>1
  <2> QED
    <3>1. \A c, n : (Right(c) => Right(c)') /\ (Named(c, n) => Named(c, n)')
      BY <2>1, Zenon DEF Right, Named, ValuesOf
    <3>2. \A n \in Name : /\ Right(counters'[n]) /\ Named(counters'[n], n)
                          /\ Right(batch'[n]) /\ Named(batch'[n], n)
      BY <1>1, <2>1, Zenon DEF CountersInOrder
    <3>3. ASSUME ~logging' PROVE \A n \in Name : batch'[n] = Empty
      <4>1. ~logging
        BY <2>1, <3>3
      <4> QED
        BY <1>1, <2>1, <4>1, Zenon DEF CountersInOrder
    <3> QED
      BY <3>1, <3>2, <3>3, Zenon DEF CountersInOrder
<1>2. ASSUME UNCHANGED <<reported, sending, notify, counters, batch, logged>>, InOnePlace
      PROVE  InOnePlace'
  <2>1. /\ reported' = reported /\ sending' = sending /\ notify' = notify
        /\ counters' = counters /\ batch' = batch /\ logged' = logged
    BY <1>2
  <2> SUFFICES ASSUME NEW i \in 1 .. Len(reported) PROVE OnePlace(i)'
    BY <2>1, Zenon DEF InOnePlace
  <2>2. /\ AtSending(i)' = AtSending(i) /\ AtNotify(i)' = AtNotify(i)
        /\ AtCounters(i)' = AtCounters(i) /\ AtBatch(i)' = AtBatch(i)
    BY <2>1 DEF AtSending, AtNotify, AtCounters, AtBatch
  <2>3. OnePlace(i)
    BY <1>2, Zenon DEF InOnePlace
  <2> QED
    BY <2>1, <2>2, <2>3, Zenon DEF OnePlace
<1> QED
  BY <1>1, <1>2

\* Report keeps the invariant.
LEMMA ReportStep ==
  ASSUME IInv, NEW r \in Reporter, Report(r)
  PROVE  IInv'
<1> USE DEF IInv
<1>0. reported \in Reports /\ Len(reported) \in Nat /\ Len(reported) < MaxReports
  BY LenProperties DEF TypeOK, Reports, Report
<1>1. PICK report \in [name : Name, value : Value] : reported' = Append(reported, report)
  BY Zenon DEF Report
<1>2. /\ reported' \in Reports /\ Len(reported') = Len(reported) + 1
      /\ \A i \in 1 .. Len(reported) : reported'[i] = reported[i]
  BY <1>0, <1>1, AppendProperties DEF Reports
<1>3. /\ UNCHANGED <<notify, counters, batch, logging, tick, queueFull, logged>>
      /\ sending' = [sending EXCEPT ![r] = Len(reported) + 1] /\ sending[r] = 0
  BY DEF Report
<1>4. TypeOK'
  <2>1. sending' \in [Reporter -> 0 .. Len(reported')]
    BY <1>0, <1>2, <1>3, SMT DEF TypeOK
  <2>2. notify' \in Seq(1 .. Len(reported')) /\ logged' \subseteq 1 .. Len(reported')
    BY <1>0, <1>2, <1>3, SMT DEF TypeOK
  <2>3. Len(reported') <= MaxReports
    BY <1>0, <1>2, MetricsAssumption, SMT
  <2> QED
    BY <1>2, <1>3, <2>1, <2>2, <2>3, Zenon DEF TypeOK, Reports
<1>5. CountersInOrder'
  <2>1. \A n \in Name : counters[n] \in Counter /\ batch[n] \in Counter
    BY DEF TypeOK
  <2>2. \A n \in Name : /\ Right(counters[n])' /\ Named(counters[n], n)'
                        /\ Right(batch[n])' /\ Named(batch[n], n)'
    <3> SUFFICES ASSUME NEW n \in Name
                 PROVE  /\ Right(counters[n])' /\ Named(counters[n], n)'
                        /\ Right(batch[n])' /\ Named(batch[n], n)'
      OBVIOUS
    <3>1. counters'[n] = counters[n] /\ batch'[n] = batch[n]
      BY <1>3
    <3> QED
      BY <2>1, <3>1, ReportKeepsRight, Zenon DEF CountersInOrder
  <2> QED
    BY <1>3, <2>2, Zenon DEF CountersInOrder
<1>6. ASSUME NEW i \in 1 .. Len(reported)
      PROVE  OnePlace(i)'
  <2>1. i # 0 /\ i # Len(reported) + 1 /\ OnePlace(i)
    BY <1>0, SMT DEF InOnePlace
  <2>2. AtSending(i)' = AtSending(i)
    BY <1>3, <2>1, SMT DEF AtSending, TypeOK
  <2>3. AtNotify(i)' = AtNotify(i) /\ AtCounters(i)' = AtCounters(i) /\ AtBatch(i)' = AtBatch(i)
    BY <1>3 DEF AtNotify, AtCounters, AtBatch
  <2> QED
    BY <1>3, <2>1, <2>2, <2>3, Zenon DEF OnePlace
<1>7. ASSUME NEW i, i = Len(reported) + 1
      PROVE  OnePlace(i)'
  <2>0. i \notin 1 .. Len(reported) /\ i \notin 0 .. Len(reported)
    BY <1>0, <1>7, SMT
  <2>1. \A q \in Reporter : sending'[q] = i <=> q = r
    BY <1>3, <1>7, <2>0, SMT DEF TypeOK
  <2>2. \A k \in 1 .. Len(notify') : notify'[k] # i
    <3>1. \A k \in 1 .. Len(notify) : notify[k] \in 1 .. Len(reported)
      BY ElementOfSeq DEF TypeOK
    <3> QED
      BY <1>3, <2>0, <3>1, Zenon
  <2>3. \A n \in Name : i \notin counters'[n].of /\ i \notin batch'[n].of
    <3>1. counters' = counters /\ batch' = batch
      BY <1>3
    <3> QED
      BY <2>0, <3>1, Zenon DEF CountersInOrder, Named
  <2>4. i \notin logged'
    BY <1>3, <2>0 DEF TypeOK
  <2>5. One({q \in Reporter : sending'[q] = i})
    <3>1. {q \in Reporter : sending'[q] = i} = {r}
      BY <2>1
    <3> QED
      BY <3>1 DEF One
  <2>6. /\ {k \in 1 .. Len(notify') : notify'[k] = i} = {}
        /\ {n \in Name : i \in counters'[n].of} = {} /\ {n \in Name : i \in batch'[n].of} = {}
    BY <2>2, <2>3, Zenon
  <2> QED
    BY <2>4, <2>5, <2>6, Zenon DEF OnePlace, AtSending, AtNotify, AtCounters, AtBatch
<1>8. InOnePlace'
  <2>1. ASSUME NEW i \in 1 .. Len(reported')
        PROVE  i \in 1 .. Len(reported) \/ i = Len(reported) + 1
    BY <1>0, <1>2, SMT
  <2> QED
    BY <1>6, <1>7, <2>1, Zenon DEF InOnePlace
<1> QED
  BY <1>4, <1>5, <1>8
\* Send moves a metric into the channel.
LEMMA SendStep ==
  ASSUME IInv, NEW r \in Reporter, Send(r)
  PROVE  IInv'
<1> USE DEF IInv
<1>1. /\ UNCHANGED <<reported, counters, batch, logging, tick, queueFull, logged>>
      /\ sending' = [sending EXCEPT ![r] = 0] /\ sending[r] # 0
      /\ notify' = Append(notify, sending[r]) /\ Len(notify) < Cap
  BY DEF Send
<1>2. /\ Len(reported) \in Nat /\ sending[r] \in 1 .. Len(reported)
      /\ notify \in Seq(1 .. Len(reported)) /\ Len(notify) \in Nat
  <2>1. Len(reported) \in Nat /\ Len(notify) \in Nat
    BY LenProperties DEF TypeOK
  <2> QED
    BY <1>1, <2>1, SMT DEF TypeOK
<1>3. /\ notify' \in Seq(1 .. Len(reported)) /\ Len(notify') = Len(notify) + 1
      /\ notify'[Len(notify) + 1] = sending[r]
      /\ \A k \in 1 .. Len(notify) : notify'[k] = notify[k]
  BY <1>1, <1>2, AppendProperties
<1>4. TypeOK'
  <2>1. sending' \in [Reporter -> 0 .. Len(reported)]
    BY <1>1, <1>2, SMT DEF TypeOK
  <2>2. Len(notify') <= Cap
    BY <1>1, <1>2, <1>3, MetricsAssumption, SMT
  <2> QED
    BY <1>1, <1>3, <2>1, <2>2, Zenon DEF TypeOK
<1>5. CountersInOrder'
  BY <1>1, SameInOrder
<1>6. ASSUME NEW i \in 1 .. Len(reported)
      PROVE  OnePlace(i)'
  <2>0. OnePlace(i) /\ i # 0
    BY <1>2, SMT DEF InOnePlace
  <2>1. /\ AtCounters(i)' = AtCounters(i) /\ AtBatch(i)' = AtBatch(i)
        /\ i \in logged' <=> i \in logged
    BY <1>1 DEF AtCounters, AtBatch
  <2>2. CASE i # sending[r]
    <3>1. AtSending(i)' = AtSending(i)
      BY <1>1, <2>0, <2>2, SMT DEF AtSending, TypeOK
    <3>2. AtNotify(i)' = AtNotify(i)
      <4>1. \A k : k \in 1 .. Len(notify') <=> k \in 1 .. Len(notify) \/ k = Len(notify) + 1
        BY <1>2, <1>3, SMT
      <4>2. \A k : k \in 1 .. Len(notify') /\ notify'[k] = i
                     <=> k \in 1 .. Len(notify) /\ notify[k] = i
        BY <1>3, <2>2, <4>1, Zenon
      <4> QED
        BY <4>2, Zenon DEF AtNotify
    <3> QED
      BY <2>0, <2>1, <3>1, <3>2, Zenon DEF OnePlace
  <2>3. CASE i = sending[r]
    <3>1. r \in AtSending(i)
      BY <2>3 DEF AtSending
    <3>2. /\ AtSending(i) = {r} /\ AtNotify(i) = {} /\ AtCounters(i) = {} /\ AtBatch(i) = {}
          /\ i \notin logged
      BY <2>0, <3>1, Zenon DEF OnePlace, One
    <3>3. AtSending(i)' = {}
      <4>1. \A q \in Reporter : sending[q] = i => q = r
        BY <3>2, Zenon DEF AtSending
      <4>2. \A q \in Reporter : sending'[q] # i
        BY <1>1, <2>0, <4>1, SMT DEF TypeOK
      <4> QED
        BY <4>2, Zenon DEF AtSending
    <3>4. AtNotify(i)' = {Len(notify) + 1}
      <4>1. \A k : k \in 1 .. Len(notify') <=> k \in 1 .. Len(notify) \/ k = Len(notify) + 1
        BY <1>2, <1>3, SMT
      <4>2. \A k \in 1 .. Len(notify) : notify[k] # i
        BY <3>2, Zenon DEF AtNotify
      <4>3. \A k : k \in 1 .. Len(notify') /\ notify'[k] = i <=> k = Len(notify) + 1
        BY <1>3, <2>3, <4>1, <4>2, Zenon
      <4> QED
        BY <4>3, Zenon DEF AtNotify
    <3>5. One(AtNotify(i)')
      BY <3>4, Zenon DEF One
    <3> QED
      BY <2>1, <3>2, <3>3, <3>5, Zenon DEF OnePlace, One
  <2> QED
    BY <2>2, <2>3
<1>7. InOnePlace'
  BY <1>1, <1>6, Zenon DEF InOnePlace
<1> QED
  BY <1>4, <1>5, <1>7

\* TakeMetric moves a metric from the channel into the counter of its name.
LEMMA TakeMetricStep ==
  ASSUME IInv, TakeMetric
  PROVE  IInv'
<1> USE DEF IInv
<1> DEFINE h == Head(notify)
           name == reported[h].name
<1>1. /\ UNCHANGED <<reported, sending, batch, logging, tick, queueFull, logged>>
      /\ notify # <<>> /\ notify' = Tail(notify)
      /\ counters' = [counters EXCEPT ![name] = IncrBy(counters[name], h)]
  BY DEF TakeMetric
<1>2. /\ Len(reported) \in Nat /\ notify \in Seq(1 .. Len(reported)) /\ Len(notify) \in Nat
      /\ Len(notify) > 0
  <2>1. Len(reported) \in Nat /\ Len(notify) \in Nat /\ notify \in Seq(1 .. Len(reported))
    BY LenProperties DEF TypeOK
  <2> QED
    BY <1>1, <2>1, EmptySeq, SMT
<1>3. /\ h = notify[1] /\ h \in 1 .. Len(reported)
      /\ notify' \in Seq(1 .. Len(reported)) /\ Len(notify') = Len(notify) - 1
      /\ \A k \in 1 .. Len(notify') : notify'[k] = notify[k + 1]
  BY <1>1, <1>2, HeadTailProperties, SMT
<1>4. name \in Name
  <2>1. reported[h] \in [name : Name, value : Value]
    BY <1>3, ElementOfSeq DEF TypeOK
  <2> QED
    BY <2>1
<1> HIDE DEF h
<1>5. /\ AtNotify(h) = {1} /\ AtSending(h) = {} /\ AtCounters(h) = {} /\ AtBatch(h) = {}
      /\ h \notin logged
  <2>1. 1 \in AtNotify(h)
    BY <1>2, <1>3, SMT DEF AtNotify
  <2>2. OnePlace(h)
    BY <1>3 DEF InOnePlace
  <2> QED
    BY <2>1, <2>2, Zenon DEF OnePlace, One
<1>6. h \notin counters[name].of
  BY <1>4, <1>5 DEF AtCounters
<1> DEFINE c == IncrBy(counters[name], h)
<1>7. /\ c \in Counter /\ c.of = counters[name].of \cup {h}
      /\ Right(c) /\ Named(c, name)
  <2>1. counters[name] \in Counter /\ Right(counters[name]) /\ Named(counters[name], name)
    BY <1>4 DEF TypeOK, CountersInOrder
  <2> QED
    BY <1>3, <1>4, <1>6, <2>1, IncrByRight, ZenonT(40)
<1> HIDE DEF c, name
<1>8. \A n \in Name : counters'[n] = IF n = name THEN c ELSE counters[n]
  BY <1>1, <1>4, Zenon DEF TypeOK, c, name
<1>9. TypeOK'
  <2>1. counters' \in [Name -> Counter]
    BY <1>1, <1>7, Zenon DEF TypeOK, c, name
  <2>2. Len(notify') <= Cap
    BY <1>2, <1>3, MetricsAssumption, SMT DEF TypeOK
  <2> QED
    BY <1>1, <1>3, <2>1, <2>2, Zenon DEF TypeOK
<1>10. CountersInOrder'
  <2>1. \A d, n : (Right(d) => Right(d)') /\ (Named(d, n) => Named(d, n)')
    BY <1>1, Zenon DEF Right, Named, ValuesOf
  <2>2. \A n \in Name : Right(counters'[n]) /\ Named(counters'[n], n)
    BY <1>7, <1>8, Zenon DEF CountersInOrder
  <2>3. batch' = batch /\ logging' = logging
    BY <1>1
  <2> QED
    BY <2>1, <2>2, <2>3, Zenon DEF CountersInOrder
<1>11. ASSUME NEW i \in 1 .. Len(reported)
       PROVE  OnePlace(i)'
  <2>1. /\ AtSending(i)' = AtSending(i) /\ AtBatch(i)' = AtBatch(i)
        /\ i \in logged' <=> i \in logged
    BY <1>1 DEF AtSending, AtBatch
  <2>2. \A k : k \in AtNotify(i)' <=> k \in Nat \ {0} /\ k + 1 \in AtNotify(i)
    <3>1. \A k : k \in 1 .. Len(notify') <=> k \in Nat \ {0} /\ k + 1 \in 1 .. Len(notify)
      BY <1>2, <1>3, SMTT(40)
    <3> QED
      BY <1>3, <3>1, Zenon DEF AtNotify
  <2>3. \A k \in AtNotify(i) : k \in Nat \ {0}
    BY <1>2, SMT DEF AtNotify
  <2>4. CASE i = h
    <3>1. AtNotify(i)' = {}
      <4>1. \A k \in Nat \ {0} : k + 1 # 1
        BY SMT
      <4> QED
        BY <1>5, <2>2, <2>4, <4>1, Zenon
    <3>2. AtCounters(i)' = {name}
      <4>1. \A n \in Name : i \in counters'[n].of <=> n = name
        BY <1>5, <1>7, <1>8, <2>4, Zenon DEF AtCounters
      <4> QED
        BY <1>4, <4>1, Zenon DEF AtCounters, name
    <3>3. One(AtCounters(i)')
      BY <3>2, Zenon DEF One
    <3> QED
      BY <1>5, <2>1, <2>4, <3>1, <3>3, Zenon DEF OnePlace, One
  <2>5. CASE i # h
    <3>1. AtCounters(i)' = AtCounters(i)
      BY <1>7, <1>8, <2>5, Zenon DEF AtCounters
    <3>2. 1 \notin AtNotify(i)
      BY <1>3, <2>5 DEF AtNotify
    <3>3. AtNotify(i) = {} => AtNotify(i)' = {}
      BY <2>2, Zenon
    <3>4. ASSUME NEW x, AtNotify(i) = {x}
          PROVE  AtNotify(i)' = {x - 1}
      <4>1. x \in Nat \ {0} /\ x # 1
        BY <2>3, <3>2, <3>4
      <4>2. \A k : k \in Nat \ {0} /\ k + 1 = x <=> k = x - 1
        BY <4>1, SMT
      <4>3. \A k : k \in AtNotify(i)' <=> k = x - 1
        BY <2>2, <3>4, <4>2, Zenon
      <4> QED
        BY <4>3, SMT
    <3>5. One(AtNotify(i)) => One(AtNotify(i)')
      BY <3>4, Zenon DEF One
    <3> QED
      BY <2>1, <3>1, <3>3, <3>5, <1>11, Zenon DEF InOnePlace, OnePlace, One
  <2> QED
    BY <2>4, <2>5
<1>12. InOnePlace'
  BY <1>1, <1>11, Zenon DEF InOnePlace
<1> QED
  BY <1>9, <1>10, <1>12

\* A minute ends: the counters become the batch.
LEMMA TakeTickStep ==
  ASSUME IInv, TakeTick
  PROVE  IInv'
<1> USE DEF IInv
<1>1. /\ UNCHANGED <<reported, sending, notify, queueFull, logged>>
      /\ ~logging /\ tick' = FALSE /\ logging' = TRUE
      /\ batch' = counters /\ counters' = [n \in Name |-> Empty]
  BY DEF TakeTick
<1>2. Empty \in Counter /\ Right(Empty) /\ \A n : Named(Empty, n)
  BY EmptyInOrder
<1>3. TypeOK'
  <2>1. counters' \in [Name -> Counter] /\ batch' \in [Name -> Counter]
    BY <1>1, <1>2 DEF TypeOK
  <2> QED
    BY <1>1, <2>1 DEF TypeOK
<1>4. CountersInOrder'
  <2>1. \A c, n : (Right(c) => Right(c)') /\ (Named(c, n) => Named(c, n)')
    BY <1>1, Zenon DEF Right, Named, ValuesOf
  <2>2. \A n \in Name : /\ Right(counters'[n]) /\ Named(counters'[n], n)
                        /\ Right(batch'[n]) /\ Named(batch'[n], n)
    <3>1. \A n \in Name : counters'[n] = Empty /\ batch'[n] = counters[n]
      BY <1>1
    <3> QED
      BY <1>2, <3>1, Zenon DEF CountersInOrder
  <2> QED
    BY <1>1, <2>1, <2>2, Zenon DEF CountersInOrder
<1>5. ASSUME NEW i \in 1 .. Len(reported)
      PROVE  OnePlace(i)'
  <2>1. \A n \in Name : i \notin batch[n].of
    <3>1. \A n \in Name : batch[n] = Empty
      BY <1>1, Zenon DEF CountersInOrder
    <3> QED
      BY <3>1 DEF Empty
  <2>2. AtBatch(i) = {}
    BY <2>1, Zenon DEF AtBatch
  <2>3. AtCounters(i)' = {}
    <3>1. \A n \in Name : i \notin counters'[n].of
      BY <1>1 DEF Empty
    <3> QED
      BY <3>1, Zenon DEF AtCounters
  <2>4. AtBatch(i)' = AtCounters(i)
    BY <1>1, Zenon DEF AtBatch, AtCounters
  <2>5. AtSending(i)' = AtSending(i) /\ AtNotify(i)' = AtNotify(i) /\ (i \in logged' <=> i \in logged)
    BY <1>1 DEF AtSending, AtNotify
  <2>6. OnePlace(i) /\ ~One({})
    BY DEF InOnePlace, One
  <2> QED
    BY <2>2, <2>3, <2>4, <2>5, <2>6, Zenon DEF OnePlace
<1>6. InOnePlace'
  BY <1>1, <1>5, Zenon DEF InOnePlace
<1> QED
  BY <1>3, <1>4, <1>6

\* A line of the log: the metrics of a counter are logged.
LEMMA LogLineStep ==
  ASSUME IInv, NEW n \in Name, LogLine(n)
  PROVE  IInv'
<1> USE DEF IInv
<1>1. /\ UNCHANGED <<reported, sending, notify, counters, logging, tick, queueFull>>
      /\ logging /\ logged' = logged \cup batch[n].of
      /\ batch' = [batch EXCEPT ![n] = Empty]
  BY DEF LogLine
<1>2. Empty \in Counter /\ Right(Empty) /\ \A m : Named(Empty, m)
  BY EmptyInOrder
<1>3. \A m \in Name : batch'[m] = IF m = n THEN Empty ELSE batch[m]
  BY <1>1 DEF TypeOK
<1>4. TypeOK'
  <2>1. batch' \in [Name -> Counter]
    BY <1>1, <1>2, Zenon DEF TypeOK
  <2>2. logged' \subseteq 1 .. Len(reported)
    BY <1>1, Zenon DEF TypeOK, CountersInOrder, Named
  <2> QED
    BY <1>1, <2>1, <2>2, Zenon DEF TypeOK
<1>5. CountersInOrder'
  <2>1. \A c, m : (Right(c) => Right(c)') /\ (Named(c, m) => Named(c, m)')
    BY <1>1, Zenon DEF Right, Named, ValuesOf
  <2>2. \A m \in Name : /\ Right(counters'[m]) /\ Named(counters'[m], m)
                        /\ Right(batch'[m]) /\ Named(batch'[m], m)
    BY <1>1, <1>2, <1>3, Zenon DEF CountersInOrder
  <2>3. logging'
    BY <1>1
  <2> QED
    BY <2>1, <2>2, <2>3, Zenon DEF CountersInOrder
<1>6. ASSUME NEW i \in 1 .. Len(reported)
      PROVE  OnePlace(i)'
  <2>0. OnePlace(i)
    BY DEF InOnePlace
  <2>1. /\ AtSending(i)' = AtSending(i) /\ AtNotify(i)' = AtNotify(i)
        /\ AtCounters(i)' = AtCounters(i)
    BY <1>1 DEF AtSending, AtNotify, AtCounters
  <2>2. CASE i \in batch[n].of
    <3>1. n \in AtBatch(i)
      BY <2>2 DEF AtBatch
    <3>2. /\ AtSending(i) = {} /\ AtNotify(i) = {} /\ AtCounters(i) = {} /\ AtBatch(i) = {n}
      BY <2>0, <3>1, Zenon DEF OnePlace, One
    <3>3. AtBatch(i)' = {}
      <4>1. \A m \in Name : i \notin batch'[m].of
        <5>1. \A m \in Name : i \in batch[m].of => m = n
          BY <3>2, Zenon DEF AtBatch
        <5>2. i \notin Empty.of
          BY DEF Empty
        <5> QED
          BY <1>3, <5>1, <5>2, Zenon
      <4> QED
        BY <4>1, Zenon DEF AtBatch
    <3>4. i \in logged'
      BY <1>1, <2>2, Zenon
    <3> QED
      BY <2>1, <3>2, <3>3, <3>4, Zenon DEF OnePlace
  <2>3. CASE i \notin batch[n].of
    <3>1. AtBatch(i)' = AtBatch(i)
      <4>1. \A m \in Name : i \in batch'[m].of <=> i \in batch[m].of
        <5>1. i \notin Empty.of
          BY DEF Empty
        <5> QED
          BY <1>3, <2>3, <5>1, Zenon
      <4> QED
        BY <4>1, Zenon DEF AtBatch
    <3>2. i \in logged' <=> i \in logged
      BY <1>1, <2>3, Zenon
    <3> QED
      BY <2>0, <2>1, <3>1, <3>2, Zenon DEF OnePlace
  <2> QED
    BY <2>2, <2>3
<1>7. InOnePlace'
  BY <1>1, <1>6, Zenon DEF InOnePlace
<1> QED
  BY <1>4, <1>5, <1>7

\* The steps that move no metric: the end of a batch, a minute, the log writer.
LEMMA StillSteps ==
  ASSUME IInv, \/ LogDone \/ Minute \/ LogQueue \/ UNCHANGED vars
  PROVE  IInv'
<1> USE DEF IInv
<1>1. UNCHANGED <<reported, sending, notify, counters, batch, logged>>
  BY DEF LogDone, Minute, LogQueue, vars
<1>2. InOnePlace'
  BY <1>1, SameInOrder
<1>3. CASE LogDone
  <2>1. logging' = FALSE /\ tick' = tick /\ queueFull' = queueFull /\ \A n \in Name : batch[n] = Empty
    BY <1>3 DEF LogDone
  <2>2. TypeOK'
    BY <1>1, <2>1 DEF TypeOK
  <2>3. \A c, n : (Right(c) => Right(c)') /\ (Named(c, n) => Named(c, n)')
    BY <1>1, Zenon DEF Right, Named, ValuesOf
  <2>4. \A n \in Name : /\ Right(counters'[n]) /\ Named(counters'[n], n)
                        /\ Right(batch'[n]) /\ Named(batch'[n], n) /\ batch'[n] = Empty
    BY <1>1, <2>1, Zenon DEF CountersInOrder
  <2>5. CountersInOrder'
    BY <2>3, <2>4, Zenon DEF CountersInOrder
  <2> QED
    BY <1>2, <2>2, <2>5
<1>4. CASE \/ Minute \/ LogQueue \/ UNCHANGED vars
  <2>1. logging' = logging
    BY <1>4 DEF Minute, LogQueue, vars
  <2>2. TypeOK'
    <3>1. tick' \in BOOLEAN /\ queueFull' \in BOOLEAN
      BY <1>4 DEF Minute, LogQueue, vars, TypeOK
    <3> QED
      BY <1>1, <2>1, <3>1 DEF TypeOK
  <2>3. CountersInOrder'
    BY <1>1, <2>1, SameInOrder
  <2> QED
    BY <1>2, <2>2, <2>3
<1> QED
  BY <1>3, <1>4

\* Nothing has been reported.
LEMMA InitInvariant == Init => IInv
<1> SUFFICES ASSUME Init PROVE IInv
  OBVIOUS
<1>1. reported = <<>> /\ notify = <<>> /\ Len(reported) = 0 /\ Len(notify) = 0
  BY EmptySeq DEF Init
<1>2. /\ sending = [r \in Reporter |-> 0] /\ logged = {}
      /\ counters = [n \in Name |-> Empty] /\ batch = [n \in Name |-> Empty]
      /\ logging = FALSE /\ tick = FALSE /\ queueFull = FALSE
  BY DEF Init
<1>3. /\ reported \in Seq([name : Name, value : Value]) /\ notify \in Seq(1 .. Len(reported))
      /\ Len(reported) <= MaxReports /\ Len(notify) <= Cap /\ 0 \in 0 .. Len(reported)
  BY <1>1, EmptySeq, MetricsAssumption, SMT
<1>4. Empty \in Counter
  BY MetricsAssumption, SMT DEF Empty, Counter
<1>5. TypeOK
  BY <1>2, <1>3, <1>4, Zenon DEF TypeOK
<1>6. CountersInOrder
  <2>1. \A n \in Name : counters[n] = Empty /\ batch[n] = Empty
    BY <1>2
  <2> QED
    BY <1>5, <2>1, EmptyInOrder, Zenon DEF CountersInOrder
<1>7. InOnePlace
  <2>1. 1 .. Len(reported) = {}
    BY <1>1, SMT
  <2> QED
    BY <2>1, Zenon DEF InOnePlace
<1> QED
  BY <1>5, <1>6, <1>7 DEF IInv

\* Every action keeps the invariant.
LEMMA StepInvariant == IInv /\ [Next]_vars => IInv'
<1> SUFFICES ASSUME IInv, [Next]_vars PROVE IInv'
  OBVIOUS
<1>1. CASE Minute \/ LogQueue \/ LogDone \/ UNCHANGED vars
  BY <1>1, StillSteps, Zenon
<1>2. CASE TakeMetric
  BY <1>2, TakeMetricStep, Zenon
<1>3. CASE TakeTick
  BY <1>3, TakeTickStep, Zenon
<1>4. CASE \E n \in Name : LogLine(n)
  BY <1>4, LogLineStep, Zenon
<1>5. CASE \E r \in Reporter : Report(r) \/ Send(r)
  BY <1>5, ReportStep, SendStep, Zenon
<1> QED
  BY <1>1, <1>2, <1>3, <1>4, <1>5, Zenon DEF Next, Logging

-----------------------------------------------------------------------------
(* The theorems.                                                           *)

\* Every metric reported is in one place, every counter is right and its metrics bear
\* its name, and between two batches nothing waits to be logged.
THEOREM Invariance == Spec => []IInv
  BY InitInvariant, StepInvariant, PTL DEF Spec

\* Every variable keeps its type and the channel its capacity (metrics_log.go:55).
THEOREM TypeCorrect == Spec => []TypeOK
<1>1. IInv => TypeOK
  BY DEF IInv
<1> QED
  BY <1>1, Invariance, PTL

\* However many goroutines report and whenever the minute ends, no metric is lost, and
\* none is counted twice or under another name (metrics_log.go:71-103).
THEOREM MetricCountedOnce == Spec => []CountedOnce
<1>1. IInv => CountedOnce
  <2> SUFFICES ASSUME IInv, NEW i \in 1 .. Len(reported)
               PROVE  /\ Cardinality(Places(i)) = 1
                      /\ \A n \in Name : i \in counters[n].of \cup batch[n].of
                                          => reported[i].name = n
    BY DEF CountedOnce
  <2>1. \E p : Places(i) = {p}
    <3>0. OnePlace(i)
      BY DEF IInv, InOnePlace
    <3>1. Places(i) = {<<"sending", r>> : r \in AtSending(i)}
                        \cup {<<"notify", k>> : k \in AtNotify(i)}
                        \cup {<<"counted", n>> : n \in AtCounters(i)}
                        \cup {<<"batch", n>> : n \in AtBatch(i)}
                        \cup {<<"logged", 0>> : x \in {y \in {i} : y \in logged}}
      BY Zenon DEF Places, AtSending, AtNotify, AtCounters, AtBatch
    <3>2. \A S, x : S = {x} => /\ {<<"sending", r>> : r \in S} = {<<"sending", x>>}
                              /\ {<<"notify", k>> : k \in S} = {<<"notify", x>>}
                              /\ {<<"counted", n>> : n \in S} = {<<"counted", x>>}
                              /\ {<<"batch", n>> : n \in S} = {<<"batch", x>>}
      BY Zenon
    <3>3. \A S : S = {} => /\ {<<"sending", r>> : r \in S} = {}
                           /\ {<<"notify", k>> : k \in S} = {}
                           /\ {<<"counted", n>> : n \in S} = {}
                           /\ {<<"batch", n>> : n \in S} = {}
      BY Zenon
    <3>4. {<<"logged", 0>> : x \in {y \in {i} : y \in logged}}
            = IF i \in logged THEN {<<"logged", 0>>} ELSE {}
      BY Zenon
    <3>5. CASE One(AtSending(i)) /\ AtNotify(i) = {} /\ AtCounters(i) = {} /\ AtBatch(i) = {}
               /\ i \notin logged
      <4>1. PICK x : AtSending(i) = {x}
        BY <3>5 DEF One
      <4>2. Places(i) = {<<"sending", x>>} \cup {} \cup {} \cup {} \cup {}
        BY <3>1, <3>2, <3>3, <3>4, <3>5, <4>1, Zenon
      <4> QED
        BY <4>2
    <3>6. CASE AtSending(i) = {} /\ One(AtNotify(i)) /\ AtCounters(i) = {} /\ AtBatch(i) = {}
               /\ i \notin logged
      <4>1. PICK x : AtNotify(i) = {x}
        BY <3>6 DEF One
      <4>2. Places(i) = {} \cup {<<"notify", x>>} \cup {} \cup {} \cup {}
        BY <3>1, <3>2, <3>3, <3>4, <3>6, <4>1, Zenon
      <4> QED
        BY <4>2
    <3>7. CASE AtSending(i) = {} /\ AtNotify(i) = {} /\ One(AtCounters(i)) /\ AtBatch(i) = {}
               /\ i \notin logged
      <4>1. PICK x : AtCounters(i) = {x}
        BY <3>7 DEF One
      <4>2. Places(i) = {} \cup {} \cup {<<"counted", x>>} \cup {} \cup {}
        BY <3>1, <3>2, <3>3, <3>4, <3>7, <4>1, Zenon
      <4> QED
        BY <4>2
    <3>8. CASE AtSending(i) = {} /\ AtNotify(i) = {} /\ AtCounters(i) = {} /\ One(AtBatch(i))
               /\ i \notin logged
      <4>1. PICK x : AtBatch(i) = {x}
        BY <3>8 DEF One
      <4>2. Places(i) = {} \cup {} \cup {} \cup {<<"batch", x>>} \cup {}
        BY <3>1, <3>2, <3>3, <3>4, <3>8, <4>1, Zenon
      <4> QED
        BY <4>2
    <3>9. CASE AtSending(i) = {} /\ AtNotify(i) = {} /\ AtCounters(i) = {} /\ AtBatch(i) = {}
               /\ i \in logged
      <4>1. Places(i) = {} \cup {} \cup {} \cup {} \cup {<<"logged", 0>>}
        BY <3>1, <3>3, <3>4, <3>9, Zenon
      <4> QED
        BY <4>1
    <3> QED
      BY <3>0, <3>5, <3>6, <3>7, <3>8, <3>9, Zenon DEF OnePlace
  <2>2. \A n \in Name : i \in counters[n].of \cup batch[n].of => reported[i].name = n
    BY Zenon DEF IInv, CountersInOrder, Named
  <2> QED
    BY <2>1, <2>2, FS_Singleton, Zenon
<1> QED
  BY <1>1, Invariance, PTL

\* The figures of a counter, kept up one value at a time, are the count, sum, smallest and
\* largest of the values it stands for (internal_counter.go:17-53).
THEOREM FiguresAreRight == Spec => []FiguresRight
<1>1. IInv => FiguresRight
  <2> SUFFICES ASSUME IInv, NEW c \in {counters[n] : n \in Name} \cup {batch[n] : n \in Name}
               PROVE  /\ c.count = Cardinality(c.of)
                      /\ c.sum = SumOf(c.of, reported)
                      /\ c.of # {} => /\ c.min = Min({reported[i].value : i \in c.of})
                                      /\ c.max = Max({reported[i].value : i \in c.of})
    BY Zenon DEF FiguresRight
  <2>1. Right(c)
    BY Zenon DEF IInv, CountersInOrder
  <2>2. \A i \in c.of : i \in 1 .. Len(reported)
    BY ZenonT(40) DEF IInv, CountersInOrder, Named
  <2>3. ValuesOf(c) \in SUBSET Int
    <3> SUFFICES ASSUME NEW i \in c.of PROVE reported[i].value \in Int
      BY DEF ValuesOf
    <3>1. reported[i] \in [name : Name, value : Value]
      BY <2>2, ElementOfSeq DEF IInv, TypeOK
    <3> QED
      BY <3>1, MetricsAssumption, Zenon
  <2> QED
    BY <2>1, <2>3, MinMaxAre, Zenon DEF Right, ValuesOf
<1> QED
  BY <1>1, Invariance, PTL
=============================================================================
