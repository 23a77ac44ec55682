-------------------------- MODULE ConcurrentProofs --------------------------
(***************************************************************************)
(* Proofs about Detach and Logger, for any tasks, options, goroutines and  *)
(* fields: what is done for a task's panic, and what a line of the log     *)
(* shows, whatever is shared.                                              *)
(***************************************************************************)
EXTENDS Detach, Logger, SequenceTheorems, WellFoundedInduction, TLAPS

\* A non-empty set of numbers has a least one: what the inductions below rest on.
LEMMA LeastNat ==
  ASSUME NEW S, S \subseteq Nat, S # {}
  PROVE  \E n \in S : \A m \in S : n <= m
<1>1. \E n \in S : \A m \in S : <<m, n>> \notin OpToRel(<, Nat)
  BY WFMin, NatLessThanWellFounded, Zenon
<1>2. \A m, n \in Nat : <<m, n>> \notin OpToRel(<, Nat) => ~(m < n)
  BY Zenon DEF OpToRel
<1>3. \E n \in S : \A m \in S : ~(m < n)
  BY <1>1, <1>2, Zenon
<1> QED
  BY <1>3, SMT

-----------------------------------------------------------------------------
(* Options.                                                                *)

\* Max of a set is the member no other exceeds.
LEMMA MaxIs ==
  ASSUME NEW S, S \subseteq Nat, NEW x \in S, \A y \in S : y <= x
  PROVE  Max(S) = x
<1> DEFINE Is(z) == z \in S /\ \A y \in S : z >= y
           m == CHOOSE z : Is(z)
<1>1. Is(x)
  BY SMT
<1>2. Is(m)
  BY <1>1, Zenon
<1>3. Max(S) = CHOOSE z \in S : \A y \in S : z >= y
  BY Zenon DEF Max
<1>4. Max(S) = m
  BY <1>3, Zenon
<1> HIDE DEF m
<1>5. m \in S /\ m >= x /\ x >= m
  BY <1>1, <1>2, Zenon
<1> QED
  BY <1>4, <1>5, SMT

\* Min of a set is the member that exceeds no other.
LEMMA MinIs ==
  ASSUME NEW S, S \subseteq Nat, NEW x \in S, \A y \in S : x <= y
  PROVE  Min(S) = x
<1> DEFINE Is(z) == z \in S /\ \A y \in S : z <= y
           m == CHOOSE z : Is(z)
<1>1. Is(x)
  BY SMT
<1>2. Is(m)
  BY <1>1, Zenon
<1>3. Min(S) = CHOOSE z \in S : \A y \in S : z <= y
  BY Zenon DEF Min
<1>4. Min(S) = m
  BY <1>3, Zenon
<1> HIDE DEF m
<1>5. m \in S /\ m <= x /\ x <= m
  BY <1>1, <1>2, Zenon
<1> QED
  BY <1>4, <1>5, SMT

\* What CatchPanic can be given.
Kinds == {"context", "errorLog", "metrics", "callback", "nil"}

Options(opts) ==
  \E S : opts \in Seq(S) /\ \A i \in DOMAIN opts : opts[i].kind \in Kinds

\* The last option of a kind among the first n.
Under(opts, n, kind) == {i \in 1 .. n : opts[i].kind = kind}
LastOf(opts, n, kind) ==
  IF Under(opts, n, kind) = {} THEN None ELSE opts[Max(Under(opts, n, kind))].arg

\* The n-th option counts if it is of that kind, else the last before it does.
LEMMA LastStep ==
  ASSUME NEW opts, NEW n \in Nat \ {0}, NEW kind
  PROVE  LastOf(opts, n, kind)
           = IF opts[n].kind = kind THEN opts[n].arg ELSE LastOf(opts, n - 1, kind)
<1>1. CASE opts[n].kind = kind
  <2> DEFINE S == Under(opts, n, kind)
  <2>1. n \in S /\ S \subseteq Nat /\ \A y \in S : y <= n
    BY <1>1, SMT DEF Under
  <2> HIDE DEF S
  <2>2. Max(S) = n
    BY <2>1, MaxIs
  <2>3. S # {}
    BY <2>1
  <2> QED
    BY <1>1, <2>2, <2>3, Zenon DEF S, LastOf
<1>2. CASE opts[n].kind # kind
  <2>1. \A i : i \in Under(opts, n, kind) <=> i \in Under(opts, n - 1, kind)
    BY <1>2, SMT DEF Under
  <2>2. Under(opts, n, kind) = Under(opts, n - 1, kind)
    BY <2>1, Zenon
  <2> QED
    BY <1>2, <2>2, Zenon DEF LastOf
<1> QED
  BY <1>1, <1>2

\* The options after the first n.
Merged(opts, n) ==
  [context  |-> LastOf(opts, n, "context"),
   errorLog |-> Under(opts, n, "errorLog") # {},
   metrics  |-> LastOf(opts, n, "metrics"),
   callback |-> LastOf(opts, n, "callback")]

\* What the boolean field is set to; under a name of its own, since the provers take no
\* TRUE for an argument.
Yes == TRUE

Fields(a, b, c, d) == [context |-> a, errorLog |-> b, metrics |-> c, callback |-> d]

\* Setting one field of the option record leaves the others.
LEMMA SetField ==
  ASSUME NEW a, NEW b, NEW c, NEW d, NEW x
  PROVE  /\ [Fields(a, b, c, d) EXCEPT !.context = x] = Fields(x, b, c, d)
         /\ [Fields(a, b, c, d) EXCEPT !.errorLog = x] = Fields(a, x, c, d)
         /\ [Fields(a, b, c, d) EXCEPT !.metrics = x] = Fields(a, b, x, d)
         /\ [Fields(a, b, c, d) EXCEPT !.callback = x] = Fields(a, b, c, x)
  BY SMT DEF Fields

\* What each kind of option does to the four fields (recovery/options.go:12-41).
LEMMA ApplyIs ==
  ASSUME NEW a, NEW b, NEW c, NEW d, NEW o
  PROVE  /\ o.kind = "context" => Apply(Fields(a, b, c, d), o) = Fields(o.arg, b, c, d)
         /\ o.kind = "errorLog" => Apply(Fields(a, b, c, d), o) = Fields(a, Yes, c, d)
         /\ o.kind = "metrics" => Apply(Fields(a, b, c, d), o) = Fields(a, b, o.arg, d)
         /\ o.kind = "callback" => Apply(Fields(a, b, c, d), o) = Fields(a, b, c, o.arg)
         /\ o.kind = "nil" => Apply(Fields(a, b, c, d), o) = Fields(a, b, c, d)
<1> DEFINE opt == Fields(a, b, c, d)
<1> HIDE DEF opt
<1>1. /\ o.kind = "context" => Apply(opt, o) = [opt EXCEPT !.context = o.arg]
      /\ o.kind = "errorLog" => Apply(opt, o) = [opt EXCEPT !.errorLog = Yes]
      /\ o.kind = "metrics" => Apply(opt, o) = [opt EXCEPT !.metrics = o.arg]
      /\ o.kind = "callback" => Apply(opt, o) = [opt EXCEPT !.callback = o.arg]
      /\ o.kind = "nil" => Apply(opt, o) = opt
  <2>1. /\ o.kind = "context" => Apply(opt, o) = [opt EXCEPT !.context = o.arg]
        /\ o.kind = "errorLog" => Apply(opt, o) = [opt EXCEPT !.errorLog = TRUE]
        /\ o.kind = "metrics" => Apply(opt, o) = [opt EXCEPT !.metrics = o.arg]
        /\ o.kind = "callback" => Apply(opt, o) = [opt EXCEPT !.callback = o.arg]
        /\ o.kind = "nil" => Apply(opt, o) = opt
    BY SMT DEF Apply
  <2> QED
    BY <2>1, Zenon DEF Yes
<1>2. \A x : /\ [opt EXCEPT !.context = x] = Fields(x, b, c, d)
             /\ [opt EXCEPT !.errorLog = x] = Fields(a, x, c, d)
             /\ [opt EXCEPT !.metrics = x] = Fields(a, b, x, d)
             /\ [opt EXCEPT !.callback = x] = Fields(a, b, c, x)
  BY SetField DEF opt
<1> QED
  BY <1>1, <1>2, Zenon DEF opt

\* Merging one option more is applying it to what the ones before it gave.
LEMMA MergedStep ==
  ASSUME NEW opts, NEW n \in Nat \ {0}, opts[n].kind \in Kinds
  PROVE  Merged(opts, n) = Apply(Merged(opts, n - 1), opts[n])
<1> DEFINE Now(kind) == LastOf(opts, n, kind)
           Before(kind) == LastOf(opts, n - 1, kind)
           Log == Under(opts, n, "errorLog") # {}
           LogBefore == Under(opts, n - 1, "errorLog") # {}
           o == opts[n]
<1>1. \A kind : Now(kind) = IF o.kind = kind THEN o.arg ELSE Before(kind)
  BY LastStep
<1>2. Log = IF o.kind = "errorLog" THEN Yes ELSE LogBefore
  <2>1. Log <=> o.kind = "errorLog" \/ LogBefore
    BY SMT DEF Under
  <2> QED
    BY <2>1 DEF Yes
<1>3. /\ Merged(opts, n) = Fields(Now("context"), Log, Now("metrics"), Now("callback"))
      /\ Merged(opts, n - 1)
           = Fields(Before("context"), LogBefore, Before("metrics"), Before("callback"))
  BY Zenon DEF Merged, Fields
<1> HIDE DEF Now, Before, Log, LogBefore
<1> DEFINE opt == Fields(Before("context"), LogBefore, Before("metrics"), Before("callback"))
<1>4. /\ o.kind = "context" => Apply(opt, o)
           = Fields(o.arg, LogBefore, Before("metrics"), Before("callback"))
      /\ o.kind = "errorLog" => Apply(opt, o)
           = Fields(Before("context"), Yes, Before("metrics"), Before("callback"))
      /\ o.kind = "metrics" => Apply(opt, o)
           = Fields(Before("context"), LogBefore, o.arg, Before("callback"))
      /\ o.kind = "callback" => Apply(opt, o)
           = Fields(Before("context"), LogBefore, Before("metrics"), o.arg)
      /\ o.kind = "nil" => Apply(opt, o)
           = Fields(Before("context"), LogBefore, Before("metrics"), Before("callback"))
  BY ApplyIs
<1> HIDE DEF opt
<1>5. CASE o.kind = "context"
  <2>1. Now("context") = o.arg /\ Now("metrics") = Before("metrics")
          /\ Now("callback") = Before("callback") /\ Log = LogBefore
    BY <1>1, <1>2, <1>5, SMT
  <2> QED
    BY <1>3, <1>4, <1>5, <2>1, Zenon DEF opt
<1>6. CASE o.kind = "errorLog"
  <2>1. Now("context") = Before("context") /\ Now("metrics") = Before("metrics")
          /\ Now("callback") = Before("callback") /\ Log = Yes
    BY <1>1, <1>2, <1>6, SMT
  <2> QED
    BY <1>3, <1>4, <1>6, <2>1, Zenon DEF opt
<1>7. CASE o.kind = "metrics"
  <2>1. Now("context") = Before("context") /\ Now("metrics") = o.arg
          /\ Now("callback") = Before("callback") /\ Log = LogBefore
    BY <1>1, <1>2, <1>7, SMT
  <2> QED
    BY <1>3, <1>4, <1>7, <2>1, Zenon DEF opt
<1>8. CASE o.kind = "callback"
  <2>1. Now("context") = Before("context") /\ Now("metrics") = Before("metrics")
          /\ Now("callback") = o.arg /\ Log = LogBefore
    BY <1>1, <1>2, <1>8, SMT
  <2> QED
    BY <1>3, <1>4, <1>8, <2>1, Zenon DEF opt
<1>9. CASE o.kind = "nil"
  <2>1. Now("context") = Before("context") /\ Now("metrics") = Before("metrics")
          /\ Now("callback") = Before("callback") /\ Log = LogBefore
    BY <1>1, <1>2, <1>9, SMT
  <2> QED
    BY <1>3, <1>4, <1>9, <2>1, Zenon DEF opt
<1> QED
  <2>1. \/ o.kind = "context" \/ o.kind = "errorLog" \/ o.kind = "metrics"
        \/ o.kind = "callback" \/ o.kind = "nil"
    BY DEF Kinds
  <2> QED
    BY <1>5, <1>6, <1>7, <1>8, <1>9, <2>1, Zenon

\* The first n options merged, for n up to the length.
MergedIn(f, opts, n) ==
  f[0] = NoOption /\ \A k \in 1 .. n : f[k] = Apply(f[k - 1], opts[k])

\* What MergeOptions returns.
LEMMA MergeOptionsIs ==
  ASSUME NEW opts, Options(opts)
  PROVE  MergeOptions(opts) = Merged(opts, Len(opts))
<1> DEFINE n == Len(opts)
           Is(f) == f = [k \in 0 .. Len(opts) |->
                           IF k = 0 THEN NoOption ELSE Apply(f[k - 1], opts[k])]
           upTo == CHOOSE f : Is(f)
           m == [k \in 0 .. n |-> Merged(opts, k)]
<1>0. n \in Nat /\ \A k \in 1 .. n : opts[k].kind \in Kinds
  BY LenProperties, SMT DEF Options
<1>1. \A k \in 0 .. n : m[k] = IF k = 0 THEN NoOption ELSE Apply(m[k - 1], opts[k])
  <2> SUFFICES ASSUME NEW k \in 0 .. n
               PROVE  m[k] = IF k = 0 THEN NoOption ELSE Apply(m[k - 1], opts[k])
    OBVIOUS
  <2>0. m[k] = Merged(opts, k)
    BY Zenon
  <2>1. CASE k = 0
    <3>1. \A kind : Under(opts, 0, kind) = {}
      BY SMT DEF Under
    <3>2. Merged(opts, 0) = NoOption
      BY <3>1, Zenon DEF Merged, LastOf, NoOption
    <3> QED
      BY <2>0, <2>1, <3>2, Zenon
  <2>2. CASE k # 0
    <3>1. k \in Nat \ {0} /\ k - 1 \in 0 .. n /\ k \in 1 .. n
      BY <1>0, <2>2, SMT
    <3>2. m[k - 1] = Merged(opts, k - 1)
      BY <3>1, Zenon
    <3>3. Merged(opts, k) = Apply(Merged(opts, k - 1), opts[k])
      BY <1>0, <3>1, MergedStep
    <3> QED
      BY <2>0, <2>2, <3>2, <3>3, Zenon
  <2> QED
    BY <2>1, <2>2
<1>2. Is(m)
  BY <1>1, Zenon
<1>3. Is(upTo)
  BY <1>2, Zenon
<1>4. MergeOptions(opts) = upTo[n]
  BY Zenon DEF MergeOptions
<1>5. \A k \in 0 .. n : upTo[k] = IF k = 0 THEN NoOption ELSE Apply(upTo[k - 1], opts[k])
  BY <1>3, Zenon
<1>6. \A k \in 0 .. n : upTo[k] = m[k]
  <2> HIDE DEF m, upTo, n
  <2> DEFINE Differ == {k \in 0 .. n : upTo[k] # m[k]}
  <2> SUFFICES ASSUME Differ # {} PROVE FALSE
    OBVIOUS
  <2>1. PICK k \in Differ : \A j \in Differ : k <= j
    <3>1. Differ \subseteq Nat
      BY SMT
    <3> QED
      BY <3>1, LeastNat
  <2>2. k \in 0 .. n /\ upTo[k] # m[k]
    OBVIOUS
  <2>3. k # 0
    BY <1>1, <1>5, <2>2, Zenon
  <2>4. k - 1 \in 0 .. n /\ ~(k <= k - 1)
    BY <1>0, <2>2, <2>3, SMT
  <2>5. upTo[k - 1] = m[k - 1]
    BY <2>1, <2>4, Zenon
  <2> QED
    BY <1>1, <1>5, <2>2, <2>3, <2>5, Zenon
<1> QED
  <2>1. n \in 0 .. n
    BY <1>0, SMT
  <2> QED
    BY <1>4, <1>6, <2>1, Zenon
-----------------------------------------------------------------------------
(* What is done for a panic.                                               *)

\* Whether e, and nothing else of its kind, is in r exactly when c.
OnceIf(r, c, e) ==
  LET of == {i \in DOMAIN r : r[i].did = e.did}
  IN IF c THEN \E i \in of : of = {i} /\ r[i] = e ELSE of = {}

\* One more effect, of a kind not there yet, on a condition.
LEMMA OneMore ==
  ASSUME NEW S, NEW r \in Seq(S), NEW c \in BOOLEAN, NEW e \in S, OnceIf(r, FALSE, e)
  PROVE  /\ r \o If(c, e) \in Seq(S)
         /\ OnceIf(r \o If(c, e), c, e)
         /\ \A b, x : b \in BOOLEAN /\ x.did # e.did /\ OnceIf(r, b, x)
                        => OnceIf(r \o If(c, e), b, x)
<1>1. CASE c
  <2> DEFINE t == r \o If(c, e)
             n == Len(r)
  <2>0. n \in Nat /\ DOMAIN r = 1 .. n
    BY LenProperties
  <2>1. <<e>> \in Seq(S) /\ Len(<<e>>) = 1 /\ <<e>>[1] = e
    BY SMT
  <2>2. t = r \o <<e>>
    BY <1>1, Zenon DEF If
  <2>3. t \in Seq(S) /\ Len(t) = n + 1
          /\ \A i \in 1 .. n + 1 : t[i] = IF i <= n THEN r[i] ELSE <<e>>[i - n]
    BY <2>1, <2>2, ConcatProperties
  <2>4. DOMAIN t = 1 .. n + 1 /\ \A i \in 1 .. n : t[i] = r[i]
    BY <2>0, <2>3, LenProperties, SMT
  <2>5. t[n + 1] = e
    BY <2>0, <2>1, <2>3, SMT
  <2> HIDE DEF t, n
  <2>6. OnceIf(t, c, e)
    <3> DEFINE of == {i \in DOMAIN t : t[i].did = e.did}
    <3>1. \A i \in 1 .. n : r[i].did # e.did
      BY <2>0, Zenon DEF OnceIf
    <3>2. n + 1 \in of /\ \A i \in of : i = n + 1
      BY <2>0, <2>4, <2>5, <3>1, SMT
    <3>3. of = {n + 1}
      BY <3>2
    <3> QED
      BY <1>1, <2>5, <3>2, <3>3, Zenon DEF OnceIf
  <2>7. ASSUME NEW b \in BOOLEAN, NEW x, x.did # e.did, OnceIf(r, b, x)
        PROVE  OnceIf(t, b, x)
    <3> DEFINE of == {i \in DOMAIN t : t[i].did = x.did}
               old == {i \in DOMAIN r : r[i].did = x.did}
    <3>1. \A i : i \in of <=> i \in old
      BY <2>0, <2>4, <2>5, <2>7, SMT
    <3>2. of = old /\ \A i \in old : t[i] = r[i]
      BY <2>0, <2>4, <3>1, Zenon
    <3>3. IF b THEN \E i \in old : old = {i} /\ r[i] = x ELSE old = {}
      BY <2>7, Zenon DEF OnceIf
    <3>4. IF b THEN \E i \in of : of = {i} /\ t[i] = x ELSE of = {}
      <4> HIDE DEF of, old
      <4> QED
        BY <3>2, <3>3, Zenon
    <3> QED
      BY <3>4, Zenon DEF OnceIf
  <2> QED
    BY <2>3, <2>6, <2>7 DEF t
<1>2. CASE ~c
  <2>1. r \o If(c, e) = r
    BY <1>2, ConcatEmptySeq DEF If
  <2>2. OnceIf(r, c, e)
    BY <1>2, Zenon DEF OnceIf
  <2> QED
    BY <2>1, <2>2
<1> QED
  BY <1>1, <1>2

\* Three effects of different kinds, each there under its own condition, are each there
\* once if it holds and not at all otherwise.
LEMMA ThreeEffects ==
  ASSUME NEW c1 \in BOOLEAN, NEW c2 \in BOOLEAN, NEW c3 \in BOOLEAN,
         NEW e1, NEW e2, NEW e3,
         e1.did # e2.did, e1.did # e3.did, e2.did # e3.did,
         NEW r, r = If(c1, e1) \o If(c2, e2) \o If(c3, e3)
  PROVE  /\ r \in Seq({e1, e2, e3})
         /\ OnceIf(r, c1, e1) /\ OnceIf(r, c2, e2) /\ OnceIf(r, c3, e3)
<1> DEFINE S == {e1, e2, e3}
           s1 == <<>> \o If(c1, e1)
           s2 == s1 \o If(c2, e2)
           s3 == s2 \o If(c3, e3)
<1>0. e1 \in S /\ e2 \in S /\ e3 \in S
  OBVIOUS
<1>1. If(c1, e1) \in Seq(S)
  <2>1. <<e1>> \in Seq(S) /\ <<>> \in Seq(S)
    BY <1>0, EmptySeq, SMT
  <2> QED
    BY <2>1, Zenon DEF If
<1>2. r = s3
  BY <1>1, ConcatEmptySeq
<1>3. <<>> \in Seq(S) /\ \A x : OnceIf(<<>>, FALSE, x)
  BY DEF OnceIf
<1> HIDE DEF S
<1>4. s1 \in Seq(S) /\ OnceIf(s1, c1, e1) /\ OnceIf(s1, FALSE, e2) /\ OnceIf(s1, FALSE, e3)
  BY <1>0, <1>3, OneMore
<1> HIDE DEF s1
<1>5. s2 \in Seq(S) /\ OnceIf(s2, c1, e1) /\ OnceIf(s2, c2, e2) /\ OnceIf(s2, FALSE, e3)
  BY <1>0, <1>4, OneMore
<1> HIDE DEF s2
<1>6. s3 \in Seq(S) /\ OnceIf(s3, c1, e1) /\ OnceIf(s3, c2, e2) /\ OnceIf(s3, c3, e3)
  BY <1>0, <1>5, OneMore
<1> QED
  BY <1>2, <1>6 DEF S
-----------------------------------------------------------------------------
(* Detach.                                                                 *)

\* What the assumption says of the options of a task.
LEMMA GivenIsSeq ==
  ASSUME NEW t \in Task
  PROVE  /\ Given[t] \in Seq(Range(Given[t]))
         /\ Len(Given[t]) \in Nat /\ DOMAIN Given[t] = 1 .. Len(Given[t])
         /\ \A i \in DOMAIN Given[t] : Given[t][i].kind \in Kinds
<1>1. Given[t] \in Seq(Range(Given[t])) /\ \A o \in Range(Given[t]) : o.kind \in Kinds
  BY DetachAssumption, Zenon DEF Kinds
<1>2. Len(Given[t]) \in Nat /\ DOMAIN Given[t] = 1 .. Len(Given[t])
        /\ \A i \in 1 .. Len(Given[t]) : Given[t][i] \in Range(Given[t])
  BY <1>1, LenProperties, ElementOfSeq, Zenon
<1> QED
  BY <1>1, <1>2, Zenon

WithContext(c) == [kind |-> "context", arg |-> c]

\* Options that hold a context and what was given to t.
OptionsOf(opt, t, c) ==
  /\ opt.context = c
  /\ opt.errorLog \in BOOLEAN
  /\ opt.errorLog <=> \E i \in DOMAIN Given[t] : Given[t][i].kind = "errorLog"
  /\ opt.metrics = LastGiven(t, "metrics")
  /\ opt.callback = LastGiven(t, "callback")

\* The options CatchPanic works with: the context that was appended, and what was given.
LEMMA PanicOptions ==
  ASSUME NEW t \in Task, NEW c, NEW opts,
         opts = Append(Given[t], WithContext(c))
  PROVE  OptionsOf(MergeOptions(opts), t, c)
<1> DEFINE n == Len(Given[t])
           o == WithContext(c)
           S == Range(Given[t]) \cup {o}
<1>0. n \in Nat /\ DOMAIN Given[t] = 1 .. n
        /\ \A i \in DOMAIN Given[t] : Given[t][i].kind \in Kinds
  BY GivenIsSeq
<1>1. Given[t] \in Seq(S)
  <2>1. Given[t] \in Seq(Range(Given[t])) /\ Range(Given[t]) \subseteq S
    BY GivenIsSeq
  <2> QED
    BY <2>1, SMT
<1>2. o \in S /\ o.kind = "context" /\ o.arg = c
  BY SMT DEF WithContext
<1> HIDE DEF o
<1>3. /\ opts \in Seq(S) /\ Len(opts) = n + 1
      /\ \A i \in 1 .. n : opts[i] = Given[t][i]
      /\ opts[n + 1] = o
  <2> HIDE DEF S
  <2>1. opts = Append(Given[t], o)
    BY DEF o
  <2> QED
    BY <1>1, <1>2, <2>1, AppendProperties
<1> HIDE DEF S, n
<1>4. DOMAIN opts = 1 .. n + 1
  BY <1>3, LenProperties, Zenon
<1>5. Options(opts)
  <2>1. \A i \in DOMAIN opts : opts[i].kind \in Kinds
    BY <1>0, <1>2, <1>3, <1>4, SMT DEF Kinds
  <2> QED
    BY <1>3, <2>1, Zenon DEF Options
<1>6. MergeOptions(opts) = Merged(opts, n + 1)
  BY <1>3, <1>5, MergeOptionsIs, Zenon
<1>7. n + 1 \in Nat \ {0} /\ (n + 1) - 1 = n
  BY <1>0, SMT
<1>8. ASSUME NEW kind, kind # "context"
      PROVE  LastOf(opts, n + 1, kind) = LastGiven(t, kind)
  <2> DEFINE of == {i \in DOMAIN Given[t] : Given[t][i].kind = kind}
  <2>1. LastOf(opts, n + 1, kind) = LastOf(opts, n, kind)
    <3>1. LastOf(opts, n + 1, kind)
            = IF opts[n + 1].kind = kind THEN opts[n + 1].arg
              ELSE LastOf(opts, (n + 1) - 1, kind)
      BY <1>7, LastStep
    <3> QED
      BY <1>2, <1>3, <1>7, <1>8, <3>1, Zenon
  <2>2. Under(opts, n, kind) = of
    <3>1. \A i : i \in Under(opts, n, kind) <=> i \in of
      BY <1>0, <1>3, Zenon DEF Under
    <3> QED
      BY <3>1, Zenon
  <2>3. of # {} => opts[Max(of)].arg = Given[t][Max(of)].arg
    <3> SUFFICES ASSUME of # {} PROVE Max(of) \in of
      BY <1>0, <1>3, Zenon
    <3>1. of \subseteq 1 .. n
      BY <1>0
    <3> HIDE DEF of
    <3> DEFINE S2 == {n - i : i \in of}
    <3>2. S2 \subseteq Nat /\ S2 # {}
      <4>1. PICK y \in of : TRUE
        OBVIOUS
      <4>2. n - y \in S2
        BY <4>1
      <4>3. S2 \subseteq Nat
        BY <1>0, <3>1, SMT
      <4> QED
        BY <4>2, <4>3
    <3>3. PICK m \in S2 : \A k \in S2 : m <= k
      <4> HIDE DEF S2
      <4> QED
        BY <3>2, LeastNat
    <3>4. PICK x \in of : m = n - x
      OBVIOUS
    <3>5. \A y \in of : y <= x
      <4> SUFFICES ASSUME NEW y \in of PROVE y <= x
        OBVIOUS
      <4>1. m <= n - y
        BY <3>3
      <4> QED
        BY <1>0, <3>1, <3>4, <4>1, SMT
    <3>6. of \subseteq Nat
      BY <3>1, SMT
    <3> QED
      BY <3>5, <3>6, MaxIs
  <2> HIDE DEF of
  <2>4. LastGiven(t, kind) = IF of = {} THEN None ELSE Given[t][Max(of)].arg
    BY Zenon DEF LastGiven, of
  <2> QED
    BY <2>1, <2>2, <2>3, <2>4, Zenon DEF LastOf
<1>9. LastOf(opts, n + 1, "context") = c
  <2>1. LastOf(opts, n + 1, "context")
          = IF opts[n + 1].kind = "context" THEN opts[n + 1].arg
            ELSE LastOf(opts, (n + 1) - 1, "context")
    BY <1>7, LastStep
  <2> QED
    BY <1>2, <1>3, <2>1, Zenon
<1>10. Under(opts, n + 1, "errorLog") # {}
         <=> \E i \in DOMAIN Given[t] : Given[t][i].kind = "errorLog"
  BY <1>0, <1>2, <1>3, SMT DEF Under
<1>11. "metrics" # "context" /\ "callback" # "context"
  OBVIOUS
<1> DEFINE Log == Under(opts, n + 1, "errorLog") # {}
<1>a. MergeOptions(opts) = Fields(LastOf(opts, n + 1, "context"), Log,
                             LastOf(opts, n + 1, "metrics"), LastOf(opts, n + 1, "callback"))
  BY <1>6, Zenon DEF Merged, Fields
<1> HIDE DEF Log
<1>12. /\ MergeOptions(opts).context = LastOf(opts, n + 1, "context")
       /\ MergeOptions(opts).errorLog = Log
       /\ MergeOptions(opts).metrics = LastOf(opts, n + 1, "metrics")
       /\ MergeOptions(opts).callback = LastOf(opts, n + 1, "callback")
  <2>1. \A a, b, c1, d : Fields(a, b, c1, d).context = a /\ Fields(a, b, c1, d).errorLog = b
                          /\ Fields(a, b, c1, d).metrics = c1 /\ Fields(a, b, c1, d).callback = d
    BY SMT DEF Fields
  <2> QED
    BY <1>a, <2>1
<1>13. Log \in BOOLEAN
  BY DEF Log
<1> QED
  BY <1>8, <1>9, <1>10, <1>11, <1>12, <1>13, Zenon DEF Log, OptionsOf
\* The context t's panic is told with: the one in the shared slot, or its own.
ContextOf(t) == IF options[t] = "shared" THEN slot ELSE t

\* r holds what was asked of t's panic.
AsAsked(t, r) ==
  LET done(did) == {i \in DOMAIN r : r[i].did = did}
  IN /\ \A kind \in {"metrics", "callback"} :
          IF LastGiven(t, kind) = None THEN done(kind) = {}
          ELSE \E i \in done(kind) : done(kind) = {i} /\ r[i].with = LastGiven(t, kind)
     /\ IF \E i \in DOMAIN Given[t] : Given[t][i].kind = "errorLog"
        THEN \E i \in done("log") : done("log") = {i}
        ELSE done("log") = {}

\* What one CatchPanic does.
LEMMA CatchPanicTells ==
  ASSUME NEW t \in Task, DetachTypeOK, CatchPanic(t)
  PROVE  /\ \A i \in DOMAIN recovered'[t] : recovered'[t][i].did # "metrics"
               => recovered'[t][i].context = ContextOf(t)
         /\ AsAsked(t, recovered'[t])
<1> DEFINE opt == MergeOptions(RecoveryOpts(t))
           c1 == opt.metrics # None
           c2 == opt.errorLog
           c3 == opt.callback # None
           e1 == Effect("metrics", opt.metrics, None)
           e2 == Effect("log", None, opt.context)
           e3 == Effect("callback", opt.callback, opt.context)
           r == recovered'[t]
<1>1. r = If(c1, e1) \o If(c2, e2) \o If(c3, e3)
  BY Zenon DEF CatchPanic, DetachTypeOK
<1>2. /\ opt.context = ContextOf(t)
      /\ opt.errorLog \in BOOLEAN
      /\ opt.errorLog <=> \E i \in DOMAIN Given[t] : Given[t][i].kind = "errorLog"
      /\ opt.metrics = LastGiven(t, "metrics")
      /\ opt.callback = LastGiven(t, "callback")
  <2>1. RecoveryOpts(t) = Append(Given[t], WithContext(ContextOf(t)))
    BY Zenon DEF RecoveryOpts, ContextOf, WithContext
  <2>2. OptionsOf(opt, t, ContextOf(t))
    BY <2>1, PanicOptions
  <2> QED
    BY <2>2, Zenon DEF OptionsOf
<1>3. /\ e1.did = "metrics" /\ e1.with = opt.metrics
      /\ e2.did = "log" /\ e2.context = opt.context
      /\ e3.did = "callback" /\ e3.with = opt.callback /\ e3.context = opt.context
  BY SMT DEF Effect
<1>4. c1 \in BOOLEAN /\ c2 \in BOOLEAN /\ c3 \in BOOLEAN
  BY <1>2, Zenon
<1> HIDE DEF c1, c2, c3, e1, e2, e3, r
<1>5. /\ r \in Seq({e1, e2, e3})
      /\ OnceIf(r, c1, e1) /\ OnceIf(r, c2, e2) /\ OnceIf(r, c3, e3)
  <2>1. e1.did # e2.did /\ e1.did # e3.did /\ e2.did # e3.did
    BY <1>3, SMT
  <2> QED
    BY <1>1, <1>4, <2>1, ThreeEffects
<1>6. \A i \in DOMAIN r : r[i].did # "metrics" => r[i].context = ContextOf(t)
  <2> SUFFICES ASSUME NEW i \in DOMAIN r, r[i].did # "metrics"
               PROVE  r[i].context = ContextOf(t)
    OBVIOUS
  <2>1. r[i] \in {e1, e2, e3}
    BY <1>5, LenProperties, ElementOfSeq
  <2> QED
    BY <1>2, <1>3, <2>1, Zenon
<1> DEFINE done(did) == {i \in DOMAIN r : r[i].did = did}
<1>7. /\ IF c1 THEN \E i \in done("metrics") : done("metrics") = {i} /\ r[i] = e1
         ELSE done("metrics") = {}
      /\ IF c2 THEN \E i \in done("log") : done("log") = {i} /\ r[i] = e2
         ELSE done("log") = {}
      /\ IF c3 THEN \E i \in done("callback") : done("callback") = {i} /\ r[i] = e3
         ELSE done("callback") = {}
  <2>1. done(e1.did) = done("metrics") /\ done(e2.did) = done("log")
        /\ done(e3.did) = done("callback")
    BY <1>3
  <2>2. IF c1 THEN \E i \in done(e1.did) : done(e1.did) = {i} /\ r[i] = e1 ELSE done(e1.did) = {}
    BY <1>5, Zenon DEF OnceIf
  <2>3. IF c2 THEN \E i \in done(e2.did) : done(e2.did) = {i} /\ r[i] = e2 ELSE done(e2.did) = {}
    BY <1>5, Zenon DEF OnceIf
  <2>4. IF c3 THEN \E i \in done(e3.did) : done(e3.did) = {i} /\ r[i] = e3 ELSE done(e3.did) = {}
    BY <1>5, Zenon DEF OnceIf
  <2> HIDE DEF done
  <2> QED
    BY <2>1, <2>2, <2>3, <2>4, Zenon
<1> HIDE DEF done
<1>8. IF LastGiven(t, "metrics") = None THEN done("metrics") = {}
      ELSE \E i \in done("metrics") : done("metrics") = {i} /\ r[i].with = LastGiven(t, "metrics")
  BY <1>2, <1>3, <1>7, Zenon DEF c1
<1>9. IF LastGiven(t, "callback") = None THEN done("callback") = {}
      ELSE \E i \in done("callback") :
             done("callback") = {i} /\ r[i].with = LastGiven(t, "callback")
  BY <1>2, <1>3, <1>7, Zenon DEF c3
<1>10. IF \E i \in DOMAIN Given[t] : Given[t][i].kind = "errorLog"
       THEN \E i \in done("log") : done("log") = {i}
       ELSE done("log") = {}
  <2> DEFINE asked == \E i \in DOMAIN Given[t] : Given[t][i].kind = "errorLog"
  <2>1. c2 <=> asked
    BY <1>2, Zenon DEF c2
  <2> HIDE DEF asked
  <2>2. IF asked THEN \E i \in done("log") : done("log") = {i} ELSE done("log") = {}
    BY <1>7, <2>1, Zenon
  <2> QED
    BY <2>2, Zenon DEF asked
<1>11. AsAsked(t, r)
  BY <1>8, <1>9, <1>10, Zenon DEF AsAsked, done
<1> QED
  BY <1>6, <1>11 DEF r
\* A task whose call has not come has its options to itself; one whose call has come is
\* among the calls.
CallsRemembered ==
  \A t \in Task : IF task[t] = "new" THEN options[t] = "own"
                  ELSE \E i \in DOMAIN detached : detached[i] = t

\* u's call came after t's.
After(t, u) == \E i, j \in DOMAIN detached : i < j /\ detached[i] = t /\ detached[j] = u

\* What is in the slot of a shared array was put there by t itself, or later.
SlotIsLater ==
  \A t \in Task : options[t] = "shared" =>
    /\ spare /\ t \in Sharing /\ slot \in Sharing
    /\ slot = t \/ After(t, slot)

DetachIInv ==
  /\ DetachTypeOK /\ CallsRemembered /\ SlotIsLater /\ PanicContext /\ PanicToldAsAsked

\* A task that is detached comes after all detached before it, and no order changes.
LEMMA AfterGrows ==
  ASSUME NEW t, NEW u, NEW v \in Task, detached \in Seq(Task),
         detached' = Append(detached, v)
  PROVE  /\ DOMAIN detached \subseteq DOMAIN detached'
         /\ \A i \in DOMAIN detached : detached'[i] = detached[i]
         /\ After(t, u) => After(t, u)'
         /\ (\E i \in DOMAIN detached : detached[i] = t) => After(t, v)'
<1> DEFINE n == Len(detached)
           d == detached'
<1>1. n \in Nat /\ DOMAIN detached = 1 .. n
  BY LenProperties
<1>2. /\ d \in Seq(Task) /\ Len(d) = n + 1
      /\ \A i \in 1 .. n : d[i] = detached[i]
      /\ d[n + 1] = v
  BY AppendProperties
<1>3. DOMAIN d = 1 .. n + 1
  BY <1>2, LenProperties
<1> HIDE DEF n, d
<1>4. \A i \in 1 .. n : i \in 1 .. n + 1 /\ i < n + 1
  BY <1>1, SMT
<1>5. n + 1 \in 1 .. n + 1
  BY <1>1, SMT
<1>6. After(t, u) => After(t, u)'
  BY <1>1, <1>2, <1>3, <1>4, Zenon DEF After, d
<1>7. (\E i \in DOMAIN detached : detached[i] = t) => After(t, v)'
  BY <1>1, <1>2, <1>3, <1>4, <1>5, Zenon DEF After, d
<1> QED
  BY <1>1, <1>2, <1>3, <1>4, <1>6, <1>7, Zenon DEF d

\* PanicToldAsAsked, task by task, in this state and the next.
LEMMA AllAsAsked ==
  /\ PanicToldAsAsked <=>
       \A t \in Task : IF task[t] = "caught" THEN AsAsked(t, recovered[t])
                       ELSE recovered[t] = <<>>
  /\ PanicToldAsAsked' <=>
       \A t \in Task : IF task'[t] = "caught" THEN AsAsked(t, recovered'[t])
                       ELSE recovered'[t] = <<>>
  BY Zenon DEF PanicToldAsAsked, AsAsked, Done

\* Where no panic is caught nothing is told.
LEMMA NothingCaught ==
  ASSUME PanicToldAsAsked, UNCHANGED recovered,
         \A u \in Task : task'[u] = "caught" <=> task[u] = "caught"
  PROVE  PanicToldAsAsked'
  BY AllAsAsked, Zenon

\* Before any call the invariant holds.
LEMMA DetachInitially ==
  DetachInit => DetachIInv
<1> SUFFICES ASSUME DetachInit PROVE DetachIInv
  OBVIOUS
<1>1. DetachTypeOK
  BY EmptySeq, SMT DEF DetachInit, DetachTypeOK
<1>2. CallsRemembered /\ SlotIsLater
  BY Zenon DEF DetachInit, CallsRemembered, SlotIsLater
<1>3. PanicContext /\ PanicToldAsAsked
  <2>1. \A t \in Task : /\ recovered[t] = <<>> /\ DOMAIN recovered[t] = {}
                         /\ task[t] # "caught"
    BY SMT DEF DetachInit
  <2> QED
    BY <2>1, Zenon DEF PanicContext, ToldWith, PanicToldAsAsked
<1> QED
  BY <1>1, <1>2, <1>3 DEF DetachIInv

\* A call of Detach may overwrite the shared slot, with the context of a later task.
LEMMA DetachTaskStep ==
  ASSUME DetachIInv, NEW t \in Task, DetachTask(t)
  PROVE  DetachIInv'
<1>1. /\ task[t] = "new" /\ task' = [task EXCEPT ![t] = "running"]
      /\ detached' = Append(detached, t) /\ spare' = spare /\ recovered' = recovered
  BY Zenon DEF DetachTask, Call
<1>2. /\ detached \in Seq(Task) /\ slot \in Task \cup {None}
      /\ task \in [Task -> {"new", "running", "ended", "panicking", "caught"}]
      /\ options \in [Task -> {"own", "shared"}] /\ spare \in BOOLEAN
      /\ DOMAIN recovered = Task
  BY DEF DetachIInv, DetachTypeOK
<1>3. IF t \in Sharing /\ spare
      THEN slot' = t /\ options' = [options EXCEPT ![t] = "shared"]
      ELSE slot' = slot /\ options' = options
  BY Zenon DEF DetachTask
<1>4. \A u, v : /\ DOMAIN detached \subseteq DOMAIN detached'
                /\ \A i \in DOMAIN detached : detached'[i] = detached[i]
                /\ After(u, v) => After(u, v)'
                /\ (\E i \in DOMAIN detached : detached[i] = u) => After(u, t)'
  BY <1>1, <1>2, AfterGrows
<1>5. DetachTypeOK'
  <2>1. detached' \in Seq(Task)
    BY <1>1, <1>2, AppendProperties
  <2>2. task' \in [Task -> {"new", "running", "ended", "panicking", "caught"}]
    BY <1>1, <1>2, SMT
  <2>3. slot' \in Task \cup {None} /\ options' \in [Task -> {"own", "shared"}]
    BY <1>2, <1>3, SMT
  <2> QED
    BY <1>1, <1>2, <2>1, <2>2, <2>3, Zenon DEF DetachTypeOK
<1>6. /\ task'[t] = "running" /\ \A u \in Task \ {t} : task'[u] = task[u]
      /\ \A u \in Task \ {t} : options'[u] = options[u]
  BY <1>1, <1>2, <1>3, SMT
<1>7. \E i \in DOMAIN detached' : detached'[i] = t
  <2>1. Len(detached) + 1 \in DOMAIN detached' /\ detached'[Len(detached) + 1] = t
    BY <1>1, <1>2, AppendProperties, LenProperties, SMT
  <2> QED
    BY <2>1
<1>8. CallsRemembered'
  <2> SUFFICES ASSUME NEW u \in Task
               PROVE  IF task'[u] = "new" THEN options'[u] = "own"
                      ELSE \E i \in DOMAIN detached' : detached'[i] = u
    BY Zenon DEF CallsRemembered
  <2>1. CASE u = t
    BY <1>6, <1>7, <2>1, SMT
  <2>2. CASE u # t
    <3>1. IF task[u] = "new" THEN options[u] = "own"
          ELSE \E i \in DOMAIN detached : detached[i] = u
      BY DEF DetachIInv, CallsRemembered
    <3> QED
      BY <1>4, <1>6, <2>2, <3>1, Zenon
  <2> QED
    BY <2>1, <2>2
<1>9. SlotIsLater'
  <2> SUFFICES ASSUME NEW u \in Task, options'[u] = "shared"
               PROVE  /\ spare' /\ u \in Sharing /\ slot' \in Sharing
                      /\ slot' = u \/ After(u, slot)'
    BY Zenon DEF SlotIsLater
  <2>1. CASE t \in Sharing /\ spare
    <3>1. slot' = t
      BY <1>3, <2>1
    <3>2. CASE u = t
      BY <1>1, <2>1, <3>1, <3>2
    <3>3. CASE u # t
      <4>1. options[u] = "shared"
        BY <1>6, <3>3
      <4>2. u \in Sharing /\ task[u] # "new"
        BY <4>1, SMT DEF DetachIInv, CallsRemembered, SlotIsLater
      <4>3. \E i \in DOMAIN detached : detached[i] = u
        BY <4>2, Zenon DEF DetachIInv, CallsRemembered
      <4>4. \E i, j \in DOMAIN detached' : i < j /\ detached'[i] = u /\ detached'[j] = t
        BY <1>4, <4>3, Zenon DEF After
      <4>5. After(u, slot)'
        BY <3>1, <4>4, Zenon DEF After
      <4> QED
        BY <1>1, <2>1, <3>1, <4>2, <4>5
    <3> QED
      BY <3>2, <3>3
  <2>2. CASE ~(t \in Sharing /\ spare)
    <3>1. slot' = slot /\ options' = options
      BY <1>3, <2>2, Zenon
    <3>2. spare /\ u \in Sharing /\ slot \in Sharing /\ (slot = u \/ After(u, slot))
      BY <3>1, Zenon DEF DetachIInv, SlotIsLater
    <3>3. After(u, slot) => After(u, slot)'
      <4>1. After(u, slot) => \E i, j \in DOMAIN detached' :
                                i < j /\ detached'[i] = u /\ detached'[j] = slot
        BY <1>4, Zenon DEF After
      <4> QED
        BY <3>1, <4>1, Zenon DEF After
    <3> QED
      BY <1>1, <3>1, <3>2, <3>3
  <2> QED
    BY <2>1, <2>2
<1>10. PanicContext'
  <2> SUFFICES ASSUME NEW u \in Task, NEW v \in Task \cup {Outer, None}, ToldWith(u, v)'
               PROVE  \/ v = u
                      \/ /\ spare' /\ {u, v} \subseteq Sharing
                         /\ \E i, j \in DOMAIN detached' :
                              i < j /\ detached'[i] = u /\ detached'[j] = v
    BY Zenon DEF PanicContext
  <2>1. ToldWith(u, v)
    BY <1>1, Zenon DEF ToldWith
  <2>2. v = u \/ (spare /\ {u, v} \subseteq Sharing /\ After(u, v))
    BY <2>1, Zenon DEF DetachIInv, PanicContext, After
  <2>3. After(u, v) => \E i, j \in DOMAIN detached' :
                         i < j /\ detached'[i] = u /\ detached'[j] = v
    BY <1>4, Zenon DEF After
  <2> QED
    BY <1>1, <2>2, <2>3
<1>11. PanicToldAsAsked'
  <2>1. \A u \in Task : task'[u] = "caught" <=> task[u] = "caught"
    BY <1>1, <1>6
  <2> QED
    BY <1>1, <2>1, NothingCaught DEF DetachIInv
<1> QED
  BY <1>5, <1>8, <1>9, <1>10, <1>11 DEF DetachIInv

\* Nothing is called, nothing is written into the array.
LEMMA NoCall ==
  ASSUME CallsRemembered, SlotIsLater, UNCHANGED <<spare, slot, detached, options>>,
         \A u \in Task : task'[u] = "new" <=> task[u] = "new"
  PROVE  CallsRemembered' /\ SlotIsLater'
<1>1. CallsRemembered'
  <2> SUFFICES ASSUME NEW u \in Task
               PROVE  IF task'[u] = "new" THEN options[u] = "own"
                      ELSE \E i \in DOMAIN detached : detached[i] = u
    BY Zenon DEF CallsRemembered
  <2>1. IF task[u] = "new" THEN options[u] = "own"
        ELSE \E i \in DOMAIN detached : detached[i] = u
    BY Zenon DEF CallsRemembered
  <2> QED
    BY <2>1, Zenon
<1>2. SlotIsLater'
  <2> SUFFICES ASSUME NEW u \in Task, options'[u] = "shared"
               PROVE  /\ spare' /\ u \in Sharing /\ slot' \in Sharing
                      /\ slot' = u \/ After(u, slot)'
    BY Zenon DEF SlotIsLater
  <2>1. spare /\ u \in Sharing /\ slot \in Sharing /\ (slot = u \/ After(u, slot))
    BY Zenon DEF SlotIsLater
  <2>2. After(u, slot) => After(u, slot)'
    BY Zenon DEF After
  <2> QED
    BY <2>1, <2>2, Zenon
<1> QED
  BY <1>1, <1>2

\* Nothing is told.
LEMMA NothingTold ==
  ASSUME PanicContext, UNCHANGED <<spare, detached, recovered>>
  PROVE  PanicContext'
<1> SUFFICES ASSUME NEW u \in Task, NEW v \in Task \cup {Outer, None}, ToldWith(u, v)'
             PROVE  \/ v = u
                    \/ /\ spare' /\ {u, v} \subseteq Sharing
                       /\ \E i, j \in DOMAIN detached' :
                            i < j /\ detached'[i] = u /\ detached'[j] = v
  BY Zenon DEF PanicContext
<1>1. ToldWith(u, v)
  BY Zenon DEF ToldWith
<1>2. \/ v = u
      \/ /\ spare /\ {u, v} \subseteq Sharing
         /\ \E i, j \in DOMAIN detached : i < j /\ detached[i] = u /\ detached[j] = v
  BY <1>1, Zenon DEF PanicContext
<1> QED
  BY <1>2

\* A task that ends without a panic tells nothing.
LEMMA RunStep ==
  ASSUME DetachIInv, NEW t \in Task, Run(t)
  PROVE  DetachIInv'
<1>1. /\ task[t] = "running" /\ UNCHANGED <<spare, slot, detached, options, recovered>>
      /\ task' = [task EXCEPT ![t] = "ended"] \/ task' = [task EXCEPT ![t] = "panicking"]
  BY DEF Run
<1>2. DetachTypeOK
  BY DEF DetachIInv
<1>3. /\ task' \in [Task -> {"new", "running", "ended", "panicking", "caught"}]
      /\ \A u \in Task : /\ task'[u] = "new" <=> task[u] = "new"
                         /\ task'[u] = "caught" <=> task[u] = "caught"
  BY <1>1, <1>2, SMT DEF DetachTypeOK
<1>4. DetachTypeOK'
  BY <1>1, <1>2, <1>3, Zenon DEF DetachTypeOK
<1>5. CallsRemembered' /\ SlotIsLater'
  BY <1>1, <1>3, NoCall DEF DetachIInv
<1>6. PanicContext'
  BY <1>1, NothingTold DEF DetachIInv
<1>7. PanicToldAsAsked'
  BY <1>1, <1>3, NothingCaught DEF DetachIInv
<1> QED
  BY <1>4, <1>5, <1>6, <1>7 DEF DetachIInv

\* A panic is told as the options ask that the task finds when it panics.
LEMMA CatchPanicStep ==
  ASSUME DetachIInv, NEW t \in Task, CatchPanic(t)
  PROVE  DetachIInv'
<1> DEFINE r == recovered'[t]
<1>1. /\ task[t] = "panicking" /\ task' = [task EXCEPT ![t] = "caught"]
      /\ UNCHANGED <<spare, slot, detached, options>>
  BY DEF CatchPanic
<1>2. DetachTypeOK
  BY DEF DetachIInv
<1>3. /\ task' \in [Task -> {"new", "running", "ended", "panicking", "caught"}]
      /\ \A u \in Task : task'[u] = "new" <=> task[u] = "new"
  BY <1>1, <1>2, SMT DEF DetachTypeOK
<1>4. /\ DOMAIN recovered' = Task
      /\ \A u \in Task \ {t} : recovered'[u] = recovered[u]
  BY <1>2, Zenon DEF CatchPanic, DetachTypeOK
<1>5. DetachTypeOK'
  BY <1>1, <1>2, <1>3, <1>4, Zenon DEF DetachTypeOK
<1>6. CallsRemembered' /\ SlotIsLater'
  BY <1>1, <1>3, NoCall DEF DetachIInv
<1>7. /\ \A i \in DOMAIN r : r[i].did # "metrics" => r[i].context = ContextOf(t)
      /\ AsAsked(t, r)
  BY <1>2, CatchPanicTells
<1>8. PanicContext'
  <2> SUFFICES ASSUME NEW u \in Task, NEW v \in Task \cup {Outer, None}, ToldWith(u, v)'
               PROVE  \/ v = u
                      \/ /\ spare' /\ {u, v} \subseteq Sharing
                         /\ \E i, j \in DOMAIN detached' :
                              i < j /\ detached'[i] = u /\ detached'[j] = v
    BY Zenon DEF PanicContext
  <2> SUFFICES \/ v = u
               \/ /\ spare /\ {u, v} \subseteq Sharing
                  /\ \E i, j \in DOMAIN detached : i < j /\ detached[i] = u /\ detached[j] = v
    BY <1>1
  <2>1. CASE u = t
    <3>1. v = ContextOf(t)
      BY <1>7, <2>1, Zenon DEF ToldWith
    <3>2. CASE options[t] = "shared"
      <4>1. v = slot
        BY <3>1, <3>2, Zenon DEF ContextOf
      <4>2. spare /\ t \in Sharing /\ slot \in Sharing /\ (slot = t \/ After(t, slot))
        BY <3>2, Zenon DEF DetachIInv, SlotIsLater
      <4> QED
        BY <2>1, <4>1, <4>2, Zenon DEF After
    <3>3. CASE options[t] # "shared"
      BY <2>1, <3>1, <3>3, Zenon DEF ContextOf
    <3> QED
      BY <3>2, <3>3
  <2>2. CASE u # t
    <3>1. ToldWith(u, v)
      BY <1>4, <2>2, Zenon DEF ToldWith
    <3> QED
      BY <3>1, Zenon DEF DetachIInv, PanicContext, After
  <2> QED
    BY <2>1, <2>2
<1>9. PanicToldAsAsked'
  <2>1. task'[t] = "caught" /\ \A u \in Task \ {t} : task'[u] = task[u]
    BY <1>1, <1>2, Zenon DEF DetachTypeOK
  <2> QED
    BY <1>4, <1>7, <2>1, AllAsAsked, Zenon DEF DetachIInv
<1> QED
  BY <1>5, <1>6, <1>8, <1>9 DEF DetachIInv

\* Detach keeps its invariant: what the calls before have left in the array behind an
\* options slice is the context of the task itself or of a later one that shares it.
THEOREM DetachInvariance == DetachSpec => []DetachIInv
<1>1. DetachInit => DetachIInv
  BY DetachInitially
<1>2. DetachIInv /\ [DetachNext]_detachVars => DetachIInv'
  <2> SUFFICES ASSUME DetachIInv, [DetachNext]_detachVars PROVE DetachIInv'
    OBVIOUS
  <2>1. CASE \E t \in Task : DetachTask(t) \/ Run(t) \/ CatchPanic(t)
    BY <2>1, DetachTaskStep, RunStep, CatchPanicStep
  <2>2. CASE UNCHANGED detachVars
    <3>1. UNCHANGED <<spare, slot, detached, task, options, recovered>>
      BY <2>2 DEF detachVars
    <3>2. DetachTypeOK'
      BY <3>1, Zenon DEF DetachIInv, DetachTypeOK
    <3>3. CallsRemembered' /\ SlotIsLater'
      BY <3>1, NoCall DEF DetachIInv
    <3>4. PanicContext'
      BY <3>1, NothingTold DEF DetachIInv
    <3>5. PanicToldAsAsked'
      BY <3>1, NothingCaught DEF DetachIInv
    <3> QED
      BY <3>2, <3>3, <3>4, <3>5 DEF DetachIInv
  <2> QED
    BY <2>1, <2>2 DEF DetachNext
<1> QED
  BY <1>1, <1>2, PTL DEF DetachSpec

\* Detach: every variable keeps its type.
THEOREM DetachTypeCorrect == DetachSpec => []DetachTypeOK
<1>1. DetachIInv => DetachTypeOK
  BY DEF DetachIInv
<1> QED
  BY <1>1, DetachInvariance, PTL

\* CatchPanic tells a panic with the context of its own task, or, only where the array
\* behind the options is shared and has room, with that of a later call.
THEOREM ToldInContext == DetachSpec => []PanicContext
<1>1. DetachIInv => PanicContext
  BY DEF DetachIInv
<1> QED
  BY <1>1, DetachInvariance, PTL

\* CatchPanic does each thing the caller asked for exactly once, whatever other calls
\* write into the array behind its options.
THEOREM ToldAsAsked == DetachSpec => []PanicToldAsAsked
<1>1. DetachIInv => PanicToldAsAsked
  BY DEF DetachIInv
<1> QED
  BY <1>1, DetachInvariance, PTL
-----------------------------------------------------------------------------
(* Sequences, reversed.                                                    *)

\* A sequence backwards, element by element.
LEMMA ReverseIs ==
  ASSUME NEW S, NEW s \in Seq(S)
  PROVE  /\ Reverse(s) \in Seq(S) /\ Len(Reverse(s)) = Len(s)
         /\ \A i \in 1 .. Len(s) : Reverse(s)[i] = s[Len(s) - i + 1]
<1> DEFINE n == Len(s)
           r == [i \in 1 .. n |-> s[n - i + 1]]
<1>1. n \in Nat /\ \A i \in 1 .. n : s[n - i + 1] \in S
  BY LenProperties, ElementOfSeq, SMT
<1>2. r \in Seq(S)
  <2> HIDE DEF n
  <2> QED
    BY <1>1, SMT
<1>3. Len(r) = n
  <2> HIDE DEF n
  <2> QED
    BY <1>1, SMT
<1>4. Reverse(s) = r
  BY Zenon DEF Reverse
<1> QED
  BY <1>2, <1>3, <1>4, SMT

\* What was appended last comes first backwards.
LEMMA ReverseAppend ==
  ASSUME NEW S, NEW s \in Seq(S), NEW e \in S
  PROVE  Reverse(Append(s, e)) = <<e>> \o Reverse(s)
<1> DEFINE n == Len(s)
           a == Append(s, e)
           l == Reverse(a)
           r == <<e>> \o Reverse(s)
<1>1. n \in Nat /\ a \in Seq(S) /\ Len(a) = n + 1
        /\ (\A i \in 1 .. n : a[i] = s[i]) /\ a[n + 1] = e
  BY LenProperties, AppendProperties
<1>2. /\ Reverse(s) \in Seq(S) /\ Len(Reverse(s)) = n
      /\ \A i \in 1 .. n : Reverse(s)[i] = s[n - i + 1]
  BY ReverseIs
<1>3. l \in Seq(S) /\ Len(l) = n + 1 /\ \A i \in 1 .. n + 1 : l[i] = a[n + 1 - i + 1]
  <2> HIDE DEF a
  <2> QED
    BY <1>1, ReverseIs
<1>4. <<e>> \in Seq(S) /\ Len(<<e>>) = 1 /\ <<e>>[1] = e
  BY SMT
<1>5. /\ r \in Seq(S) /\ Len(r) = 1 + n
      /\ \A i \in 1 .. 1 + n : r[i] = IF i <= 1 THEN <<e>>[i] ELSE Reverse(s)[i - 1]
  BY <1>2, <1>4, ConcatProperties
<1> HIDE DEF n, a, l, r
<1>6. \A i \in 1 .. n + 1 : l[i] = r[i]
  <2> SUFFICES ASSUME NEW i \in 1 .. n + 1 PROVE l[i] = r[i]
    OBVIOUS
  <2>1. CASE i = 1
    BY <1>1, <1>3, <1>4, <1>5, <2>1, SMT
  <2>2. CASE i # 1
    <3>1. l[i] = a[n + 1 - i + 1]
      BY <1>3
    <3>2. r[i] = Reverse(s)[i - 1] /\ i - 1 \in 1 .. n /\ n + 1 - i + 1 \in 1 .. n
      BY <1>1, <1>5, <2>2, SMT
    <3>3. Reverse(s)[i - 1] = s[n - (i - 1) + 1] /\ n - (i - 1) + 1 = n + 1 - i + 1
      BY <1>1, <1>2, <3>2, SMT
    <3> QED
      BY <1>1, <3>1, <3>2, <3>3
  <2> QED
    BY <2>1, <2>2
<1> QED
  <2>1. l = r
    BY <1>1, <1>3, <1>5, <1>6, SeqEqual
  <2> QED
    BY <2>1 DEF l, r, a

\* Two sequences one after the other, backwards.
LEMMA ReverseConcat ==
  ASSUME NEW S, NEW s \in Seq(S), NEW t \in Seq(S)
  PROVE  Reverse(s \o t) = Reverse(t) \o Reverse(s)
<1> DEFINE m == Len(s)
           n == Len(t)
           a == s \o t
           l == Reverse(a)
           r == Reverse(t) \o Reverse(s)
<1>1. m \in Nat /\ n \in Nat
  BY LenProperties
<1>2. /\ a \in Seq(S) /\ Len(a) = m + n
      /\ \A i \in 1 .. m + n : a[i] = IF i <= m THEN s[i] ELSE t[i - m]
  BY ConcatProperties
<1>3. /\ Reverse(s) \in Seq(S) /\ Len(Reverse(s)) = m
      /\ \A i \in 1 .. m : Reverse(s)[i] = s[m - i + 1]
      /\ Reverse(t) \in Seq(S) /\ Len(Reverse(t)) = n
      /\ \A i \in 1 .. n : Reverse(t)[i] = t[n - i + 1]
  BY ReverseIs
<1>4. l \in Seq(S) /\ Len(l) = m + n /\ \A i \in 1 .. m + n : l[i] = a[m + n - i + 1]
  <2> HIDE DEF a
  <2> QED
    BY <1>2, ReverseIs, SMTT(40)
<1>5. /\ r \in Seq(S) /\ Len(r) = n + m
      /\ \A i \in 1 .. n + m : r[i] = IF i <= n THEN Reverse(t)[i] ELSE Reverse(s)[i - n]
  <2> DEFINE u == Reverse(t)
             v == Reverse(s)
  <2>1. u \in Seq(S) /\ v \in Seq(S) /\ Len(u) = n /\ Len(v) = m
    BY <1>3
  <2> HIDE DEF u, v, n, m
  <2>2. /\ u \o v \in Seq(S) /\ Len(u \o v) = n + m
        /\ \A i \in 1 .. n + m : (u \o v)[i] = IF i <= n THEN u[i] ELSE v[i - n]
    BY <2>1, ConcatProperties
  <2> QED
    BY <2>2 DEF u, v
<1> HIDE DEF m, n, a, l, r
<1>6. \A i \in 1 .. m + n : l[i] = r[i]
  <2> SUFFICES ASSUME NEW i \in 1 .. m + n PROVE l[i] = r[i]
    OBVIOUS
  <2>0. l[i] = a[m + n - i + 1] /\ i \in 1 .. n + m
    BY <1>1, <1>4, SMT
  <2>1. CASE i <= n
    <3>1. /\ m + n - i + 1 \in 1 .. m + n /\ ~(m + n - i + 1 <= m)
          /\ m + n - i + 1 - m = n - i + 1 /\ i \in 1 .. n
      BY <1>1, <2>1, SMT
    <3>2. a[m + n - i + 1] = t[n - i + 1]
      <4> DEFINE j == m + n - i + 1
      <4>1. j \in 1 .. m + n /\ ~(j <= m) /\ j - m = n - i + 1
        BY <1>1, <2>1, SMT
      <4> HIDE DEF j
      <4>2. a[j] = t[j - m]
        BY <1>2, <4>1, Zenon
      <4> QED
        BY <4>1, <4>2, Zenon DEF j
    <3> QED
      BY <1>3, <1>5, <2>0, <2>1, <3>1, <3>2
  <2>2. CASE ~(i <= n)
    <3>1. /\ m + n - i + 1 \in 1 .. m + n /\ m + n - i + 1 <= m
          /\ m + n - i + 1 = m - (i - n) + 1 /\ i - n \in 1 .. m
      BY <1>1, <2>2, SMT
    <3>2. a[m + n - i + 1] = s[m - (i - n) + 1]
      BY <1>2, <3>1
    <3> QED
      BY <1>3, <1>5, <2>0, <2>2, <3>1, <3>2
  <2> QED
    BY <2>1, <2>2
<1> QED
  <2>1. l = r
    BY <1>1, <1>2, <1>4, <1>5, <1>6, SeqEqual, SMT
  <2> QED
    BY <2>1 DEF l, r, a
-----------------------------------------------------------------------------
(* The texts of a line.                                                    *)

\* What node k adds to the texts before it.
TextStep(nodes, k, before) ==
  IF nodes[k].key = "" THEN Append(before, nodes[k].value) ELSE before

\* f[k] are the texts of the first k nodes, for k up to n.
TextsIn(f, nodes, n) ==
  f[0] = <<>> /\ \A k \in 1 .. n : f[k] = TextStep(nodes, k, f[k - 1])

\* Reading one node more leaves a sequence of values.
LEMMA TextStepType ==
  ASSUME NEW nodes \in Seq(LogField), NEW k \in 1 .. Len(nodes), NEW before \in Seq(FieldValue)
  PROVE  TextStep(nodes, k, before) \in Seq(FieldValue)
<1>1. nodes[k] \in LogField
  BY ElementOfSeq
<1>2. nodes[k].value \in FieldValue
  BY <1>1 DEF LogField
<1> QED
  BY <1>2, AppendProperties DEF TextStep

\* There is a function that does what the equation of Texts asks, by induction on the nodes.
LEMMA TextsExist ==
  ASSUME NEW nodes \in Seq(LogField), NEW n \in 0 .. Len(nodes)
  PROVE  \E f \in [0 .. n -> Seq(FieldValue)] : TextsIn(f, nodes, n)
<1> DEFINE Missing == {k \in 0 .. Len(nodes) :
                         ~\E f \in [0 .. k -> Seq(FieldValue)] : TextsIn(f, nodes, k)}
<1> SUFFICES ASSUME Missing # {} PROVE FALSE
  OBVIOUS
<1>0. Len(nodes) \in Nat
  BY LenProperties
<1>1. PICK k \in Missing : \A m \in Missing : k <= m
  <2>1. Missing \subseteq Nat
    BY SMT
  <2> QED
    BY <2>1, LeastNat
<1>2. k # 0
  <2> DEFINE f == [j \in 0 .. 0 |-> <<>>]
  <2>1. <<>> \in Seq(FieldValue)
    BY EmptySeq
  <2>2. f \in [0 .. 0 -> Seq(FieldValue)] /\ TextsIn(f, nodes, 0)
    BY <2>1, SMT DEF TextsIn
  <2> QED
    BY <2>2
<1>3. k - 1 \in 0 .. Len(nodes) /\ k - 1 \notin Missing /\ k \in 1 .. Len(nodes)
  <2>1. k \in 0 .. Len(nodes)
    OBVIOUS
  <2>2. k - 1 \in 0 .. Len(nodes) /\ k \in 1 .. Len(nodes) /\ ~(k <= k - 1)
    BY <1>0, <1>2, <2>1, SMT
  <2> QED
    BY <1>1, <2>2, Zenon
<1>4. PICK g \in [0 .. k - 1 -> Seq(FieldValue)] : TextsIn(g, nodes, k - 1)
  BY <1>3
<1> DEFINE t == TextStep(nodes, k, g[k - 1])
           f == [j \in 0 .. k |-> IF j = k THEN t ELSE g[j]]
<1>5. t \in Seq(FieldValue)
  <2>1. g[k - 1] \in Seq(FieldValue)
    BY <1>3, SMT
  <2> QED
    BY <1>3, <2>1, TextStepType
<1>6. f \in [0 .. k -> Seq(FieldValue)]
  <2> HIDE DEF t
  <2> QED
    BY <1>3, <1>5, SMT
<1>7. TextsIn(f, nodes, k)
  <2> HIDE DEF t
  <2>1. f[0] = <<>> /\ f[k] = t /\ \A j \in 0 .. k - 1 : f[j] = g[j]
    BY <1>3, <1>4, SMT DEF TextsIn
  <2> HIDE DEF f
  <2> SUFFICES ASSUME NEW j \in 1 .. k PROVE f[j] = TextStep(nodes, j, f[j - 1])
    BY <2>1, Zenon DEF TextsIn
  <2>2. CASE j = k
    <3>1. f[k - 1] = g[k - 1]
      BY <1>3, <2>1, SMT
    <3> QED
      BY <2>1, <2>2, <3>1, Zenon DEF t
  <2>3. CASE j # k
    <3>1. j \in 1 .. k - 1 /\ j \in 0 .. k - 1 /\ j - 1 \in 0 .. k - 1
      BY <1>3, <2>3, SMT
    <3> QED
      BY <1>4, <2>1, <3>1, Zenon DEF TextsIn
  <2> QED
    BY <2>2, <2>3
<1> QED
  BY <1>1, <1>6, <1>7

\* What Texts returns.
LEMMA TextsIs ==
  ASSUME NEW nodes \in Seq(LogField)
  PROVE  \E f \in [0 .. Len(nodes) -> Seq(FieldValue)] :
           TextsIn(f, nodes, Len(nodes)) /\ Texts(nodes) = f[Len(nodes)]
<1> DEFINE n == Len(nodes)
           Is(f) == f = [k \in 0 .. Len(nodes) |->
                           IF k = 0 THEN <<>>
                           ELSE IF nodes[k].key = "" THEN Append(f[k - 1], nodes[k].value)
                           ELSE f[k - 1]]
           upTo == CHOOSE f : Is(f)
<1>0. n \in Nat
  BY LenProperties
<1>1. PICK f \in [0 .. n -> Seq(FieldValue)] : TextsIn(f, nodes, n)
  <2>1. n \in 0 .. Len(nodes)
    BY <1>0, SMT
  <2> QED
    BY <2>1, TextsExist, Zenon
<1>2. Is(f)
  <2>1. \A k \in 0 .. n : f[k] = IF k = 0 THEN <<>> ELSE TextStep(nodes, k, f[k - 1])
    <3>1. \A k \in 0 .. n : k = 0 \/ k \in 1 .. n
      BY <1>0, SMT
    <3> QED
      BY <1>1, <3>1, Zenon DEF TextsIn
  <2>2. f = [k \in 0 .. n |-> IF k = 0 THEN <<>> ELSE TextStep(nodes, k, f[k - 1])]
    BY <2>1, Zenon
  <2> QED
    BY <2>2, Zenon DEF TextStep
<1>3. Is(upTo)
  BY <1>2, Zenon
<1>4. Texts(nodes) = upTo[n]
  BY Zenon DEF Texts
<1>5. \A k \in 0 .. n : upTo[k] = IF k = 0 THEN <<>> ELSE TextStep(nodes, k, upTo[k - 1])
  BY <1>3, Zenon DEF TextStep
<1>6. \A k \in 0 .. n : upTo[k] = f[k]
  <2> HIDE DEF upTo, n
  <2> DEFINE Differ == {k \in 0 .. n : upTo[k] # f[k]}
  <2> SUFFICES ASSUME Differ # {} PROVE FALSE
    OBVIOUS
  <2>1. PICK k \in Differ : \A j \in Differ : k <= j
    <3>1. Differ \subseteq Nat
      BY SMT
    <3> QED
      BY <3>1, LeastNat
  <2>2. k \in 0 .. n /\ upTo[k] # f[k]
    OBVIOUS
  <2>3. k # 0
    BY <1>1, <1>5, <2>2, Zenon DEF TextsIn
  <2>4. k \in 1 .. n /\ k - 1 \in 0 .. n /\ ~(k <= k - 1)
    BY <1>0, <2>2, <2>3, SMT
  <2>5. upTo[k - 1] = f[k - 1]
    BY <2>1, <2>4, Zenon
  <2> QED
    BY <1>1, <1>5, <2>2, <2>3, <2>4, <2>5, Zenon DEF TextsIn
<1> QED
  <2>1. n \in 0 .. n
    BY <1>0, SMT
  <2> QED
    BY <1>1, <1>4, <1>6, <2>1, Zenon

\* Concatenation is associative.
LEMMA Regroup ==
  ASSUME NEW S
  PROVE  \A a, b, c \in Seq(S) : (a \o b) \o c = a \o (b \o c)
<1> SUFFICES ASSUME NEW a \in Seq(S), NEW b \in Seq(S), NEW c \in Seq(S)
             PROVE  (a \o b) \o c = a \o (b \o c)
  OBVIOUS
<1> QED
  BY ConcatAssociative, SMTT(40)

\* The texts of the nodes in reverse, in reverse, are those of the nodes.
LEMMA TextsReversed ==
  ASSUME NEW nodes \in Seq(LogField)
  PROVE  Reverse(Texts(Reverse(nodes))) = Texts(nodes)
<1>0. \A a, b, c \in Seq(FieldValue) : (a \o b) \o c = a \o (b \o c)
  BY Regroup, SMTT(40)
<1> DEFINE n == Len(nodes)
           back == Reverse(nodes)
           V == Seq(FieldValue)
<1>1. n \in Nat /\ back \in Seq(LogField) /\ Len(back) = n
        /\ \A i \in 1 .. n : back[i] = nodes[n - i + 1]
  BY LenProperties, ReverseIs
<1> HIDE DEF back
<1>2. PICK f \in [0 .. n -> V] : TextsIn(f, nodes, n) /\ Texts(nodes) = f[n]
  BY TextsIs
<1>3. PICK g \in [0 .. n -> V] : TextsIn(g, back, n) /\ Texts(back) = g[n]
  <2>1. \E g \in [0 .. Len(back) -> V] : TextsIn(g, back, Len(back)) /\ Texts(back) = g[Len(back)]
    BY <1>1, TextsIs
  <2> QED
    BY <1>1, <2>1
<1> HIDE DEF n
<1> DEFINE Differ == {k \in 0 .. n : f[n - k] \o Reverse(g[k]) # f[n]}
<1>4. Differ = {}
  <2> SUFFICES ASSUME Differ # {} PROVE FALSE
    OBVIOUS
  <2>1. PICK k \in Differ : \A j \in Differ : k <= j
    <3>1. Differ \subseteq Nat
      BY <1>1, SMT
    <3> QED
      BY <3>1, LeastNat
  <2>2. k \in 0 .. n /\ f[n - k] \o Reverse(g[k]) # f[n]
    OBVIOUS
  <2>3. k # 0
    <3>1. f[n - 0] = f[n] /\ f[n] \in V /\ g[0] = <<>>
      BY <1>1, <1>2, <1>3, SMT DEF TextsIn
    <3>2. Reverse(<<>>) = <<>>
      <4>1. <<>> \in Seq(FieldValue) /\ Len(<<>>) = 0
        BY EmptySeq
      <4>2. Reverse(<<>>) \in Seq(FieldValue) /\ Len(Reverse(<<>>)) = 0
        BY <4>1, ReverseIs
      <4> QED
        BY <4>2, EmptySeq
    <3>3. f[n] \o <<>> = f[n]
      BY <3>1, ConcatEmptySeq
    <3> QED
      BY <2>2, <3>1, <3>2, <3>3
  <2>4. /\ k \in 1 .. n /\ k - 1 \in 0 .. n /\ ~(k <= k - 1)
        /\ n - k \in 0 .. n /\ n - k + 1 \in 1 .. n /\ n - (k - 1) = n - k + 1
        /\ n - k + 1 - 1 = n - k
    BY <1>1, <2>2, <2>3, SMT
  <2>5. f[n - k + 1] \o Reverse(g[k - 1]) = f[n]
    <3>1. k - 1 \notin Differ
      BY <2>1, <2>4, Zenon
    <3> QED
      BY <2>4, <3>1, Zenon
  <2>6. f[n - k + 1] = TextStep(nodes, n - k + 1, f[n - k])
    <3> DEFINE i == n - k + 1
    <3>1. i \in 1 .. n /\ i - 1 = n - k
      BY <1>1, <2>4, SMT
    <3> HIDE DEF i
    <3>2. f[i] = TextStep(nodes, i, f[i - 1])
      BY <1>2, <3>1, Zenon DEF TextsIn
    <3> QED
      BY <3>1, <3>2, Zenon DEF i
  <2>7. g[k] = TextStep(back, k, g[k - 1])
    BY <1>3, <2>4, Zenon DEF TextsIn
  <2>8. f[n - k] \in V /\ g[k - 1] \in V
    BY <1>2, <1>3, <2>4
  <2> DEFINE x == nodes[n - k + 1]
  <2>9. back[k] = x /\ x.value \in FieldValue
    <3>1. x \in LogField
      BY <2>4, ElementOfSeq DEF n
    <3> QED
      BY <1>1, <2>4, <3>1 DEF LogField
  <2>10. CASE x.key = ""
    <3>1. f[n - k + 1] = Append(f[n - k], x.value) /\ g[k] = Append(g[k - 1], x.value)
      BY <2>6, <2>7, <2>9, <2>10, Zenon DEF TextStep
    <3> HIDE DEF x
    <3> DEFINE p == f[n - k]
               v == <<x.value>>
               q == Reverse(g[k - 1])
    <3>2. Reverse(g[k]) = v \o q
      BY <2>8, <2>9, <3>1, ReverseAppend
    <3>3. Append(p, x.value) = p \o v
      BY <2>8, <2>9, AppendIsConcat
    <3>4. p \in V /\ v \in V /\ q \in V
      BY <2>8, <2>9, ReverseIs, SMT
    <3> HIDE DEF p, v, q
    <3>5. (p \o v) \o q = p \o (v \o q)
      <4>1. p \in Seq(FieldValue) /\ v \in Seq(FieldValue) /\ q \in Seq(FieldValue)
        BY <3>4
      <4> QED
        BY <1>0, <4>1, Zenon
    <3>6. f[n - k] \o Reverse(g[k]) = p \o (v \o q)
      BY <3>2 DEF p
    <3>7. f[n] = (p \o v) \o q
      BY <2>5, <3>1, <3>3 DEF p, q
    <3> QED
      BY <2>2, <3>5, <3>6, <3>7
  <2>11. CASE x.key # ""
    <3>1. f[n - k + 1] = f[n - k] /\ g[k] = g[k - 1]
      BY <2>6, <2>7, <2>9, <2>11, Zenon DEF TextStep
    <3> QED
      BY <2>2, <2>5, <3>1
  <2> QED
    BY <2>10, <2>11
<1>5. f[n - n] \o Reverse(g[n]) = f[n]
  <2>1. n \in 0 .. n
    BY <1>1, SMT
  <2> QED
    BY <1>4, <2>1, Zenon
<1>6. f[n - n] = <<>> /\ g[n] \in V
  BY <1>1, <1>2, <1>3, SMT DEF TextsIn
<1>7. <<>> \o Reverse(g[n]) = Reverse(g[n])
  <2>1. Reverse(g[n]) \in V
    BY <1>6, ReverseIs
  <2> QED
    BY <2>1, ConcatEmptySeq
<1> QED
  BY <1>2, <1>3, <1>5, <1>6, <1>7 DEF back
-----------------------------------------------------------------------------
(* The object of a line.                                                   *)

UnderKey(nodes, n, key) == {i \in 1 .. n : nodes[i].key = key}

\* What the first n nodes leave under a key.
LastValue(level, nodes, n, key) ==
  IF UnderKey(nodes, n, key) = {} THEN level
  ELSE nodes[Max(UnderKey(nodes, n, key))].value

KeysOf(nodes, n) == {"LEVEL"} \cup ({nodes[i].key : i \in 1 .. n} \ {""})

ObjectAfter(level, nodes, n) == [key \in KeysOf(nodes, n) |-> LastValue(level, nodes, n, key)]

\* The last value of a key among n nodes is that of node n, or that among those before.
LEMMA LastValueStep ==
  ASSUME NEW level, NEW nodes, NEW n \in Nat \ {0}, NEW key
  PROVE  LastValue(level, nodes, n, key)
           = IF nodes[n].key = key THEN nodes[n].value ELSE LastValue(level, nodes, n - 1, key)
<1>1. CASE nodes[n].key = key
  <2> DEFINE S == UnderKey(nodes, n, key)
  <2>1. n \in S /\ S \subseteq Nat /\ \A y \in S : y <= n
    BY <1>1, SMT DEF UnderKey
  <2> HIDE DEF S
  <2>2. Max(S) = n
    BY <2>1, MaxIs
  <2>3. S # {}
    BY <2>1
  <2> QED
    BY <1>1, <2>2, <2>3, Zenon DEF S, LastValue
<1>2. CASE nodes[n].key # key
  <2>1. \A i : i \in UnderKey(nodes, n, key) <=> i \in UnderKey(nodes, n - 1, key)
    BY <1>2, SMT DEF UnderKey
  <2>2. UnderKey(nodes, n, key) = UnderKey(nodes, n - 1, key)
    BY <2>1, Zenon
  <2> QED
    BY <1>2, <2>2, Zenon DEF LastValue
<1> QED
  BY <1>1, <1>2

\* The n-th node is set in the object, or is a text and leaves it as it is.
LEMMA ObjectStep ==
  ASSUME NEW level, NEW nodes, NEW n \in Nat \ {0}
  PROVE  ObjectAfter(level, nodes, n)
           = IF nodes[n].key = "" THEN ObjectAfter(level, nodes, n - 1)
             ELSE MustSet(ObjectAfter(level, nodes, n - 1), nodes[n])
<1> DEFINE K == KeysOf(nodes, n)
           Before == KeysOf(nodes, n - 1)
           x == nodes[n]
           Now(key) == LastValue(level, nodes, n, key)
           Then(key) == LastValue(level, nodes, n - 1, key)
<1>1. \A key : Now(key) = IF x.key = key THEN x.value ELSE Then(key)
  BY LastValueStep
<1>2. /\ "" \notin K
      /\ \A key : key \in K <=> key \in Before \/ (key = x.key /\ key # "")
  <2>1. \A i : i \in 1 .. n <=> i \in 1 .. n - 1 \/ i = n
    BY SMT
  <2>2. "LEVEL" # ""
    BY SMT
  <2>3. \A key : key \in K <=> key = "LEVEL"
                                \/ (key # "" /\ \E i \in 1 .. n : key = nodes[i].key)
    BY Zenon DEF KeysOf
  <2>4. \A key : key \in Before <=> key = "LEVEL"
                                \/ (key # "" /\ \E i \in 1 .. n - 1 : key = nodes[i].key)
    BY Zenon DEF KeysOf
  <2> HIDE DEF K, Before
  <2> QED
    BY <2>1, <2>2, <2>3, <2>4, Zenon
<1>3. /\ ObjectAfter(level, nodes, n) = [key \in K |-> Now(key)]
      /\ ObjectAfter(level, nodes, n - 1) = [key \in Before |-> Then(key)]
  BY Zenon DEF ObjectAfter
<1> HIDE DEF K, Before, x, Now, Then
<1>4. CASE x.key = ""
  <2>1. K = Before
    BY <1>2, <1>4, Zenon
  <2>2. \A key \in K : Now(key) = Then(key)
    BY <1>1, <1>2, <1>4, Zenon
  <2>3. [key \in K |-> Now(key)] = [key \in Before |-> Then(key)]
    BY <2>1, <2>2, Zenon
  <2> QED
    BY <1>3, <1>4, <2>3, Zenon DEF x
<1>5. CASE x.key # ""
  <2> DEFINE json == [key \in Before |-> Then(key)]
  <2>1. K = DOMAIN json \cup {x.key}
    BY <1>2, <1>5, Zenon
  <2>2. \A key \in K : Now(key) = IF key = x.key THEN x.value ELSE json[key]
    BY <1>1, <1>2, Zenon
  <2> HIDE DEF json
  <2>3. [key \in K |-> Now(key)]
          = [key \in DOMAIN json \cup {x.key} |-> IF key = x.key THEN x.value ELSE json[key]]
    BY <2>1, <2>2, Zenon
  <2>4. [key \in K |-> Now(key)] = MustSet(json, x)
    BY <2>3, Zenon DEF MustSet
  <2> QED
    BY <1>3, <1>5, <2>4, Zenon DEF x, json
<1> QED
  BY <1>4, <1>5

\* What Object returns.
LEMMA ObjectIs ==
  ASSUME NEW level, NEW nodes \in Seq(LogField)
  PROVE  Object(level, nodes) = ObjectAfter(level, nodes, Len(nodes))
<1> DEFINE n == Len(nodes)
           Is(f) == f = [k \in 0 .. Len(nodes) |->
                           IF k = 0 THEN [LEVEL |-> level]
                           ELSE IF nodes[k].key = "" THEN f[k - 1]
                           ELSE MustSet(f[k - 1], nodes[k])]
           upTo == CHOOSE f : Is(f)
           Step(k, before) == IF nodes[k].key = "" THEN before ELSE MustSet(before, nodes[k])
           m == [k \in 0 .. n |-> ObjectAfter(level, nodes, k)]
<1>0. n \in Nat
  BY LenProperties
<1>1. \A k \in 0 .. n : m[k] = IF k = 0 THEN [LEVEL |-> level] ELSE Step(k, m[k - 1])
  <2> SUFFICES ASSUME NEW k \in 0 .. n
               PROVE  m[k] = IF k = 0 THEN [LEVEL |-> level] ELSE Step(k, m[k - 1])
    OBVIOUS
  <2>0. m[k] = ObjectAfter(level, nodes, k)
    BY Zenon
  <2>1. CASE k = 0
    <3>1. KeysOf(nodes, 0) = {"LEVEL"} /\ \A key : UnderKey(nodes, 0, key) = {}
      BY SMT DEF KeysOf, UnderKey
    <3>2. \A key : LastValue(level, nodes, 0, key) = level
      BY <3>1, Zenon DEF LastValue
    <3>3. ObjectAfter(level, nodes, 0) = [key \in {"LEVEL"} |-> level]
      BY <3>1, <3>2, Zenon DEF ObjectAfter
    <3>4. [key \in {"LEVEL"} |-> level] = [LEVEL |-> level]
      BY SMT
    <3> QED
      BY <2>0, <2>1, <3>3, <3>4, Zenon
  <2>2. CASE k # 0
    <3>1. k \in Nat \ {0} /\ k - 1 \in 0 .. n
      BY <1>0, <2>2, SMT
    <3>2. m[k - 1] = ObjectAfter(level, nodes, k - 1)
      BY <3>1, Zenon
    <3>3. ObjectAfter(level, nodes, k) = Step(k, ObjectAfter(level, nodes, k - 1))
      BY <3>1, ObjectStep
    <3> HIDE DEF m, Step
    <3> QED
      BY <2>0, <2>2, <3>2, <3>3, Zenon
  <2> QED
    BY <2>1, <2>2
<1>2. Is(m)
  BY <1>1, Zenon
<1>3. Is(upTo)
  BY <1>2, Zenon
<1>4. Object(level, nodes) = upTo[n]
  BY Zenon DEF Object
<1>5. \A k \in 0 .. n : upTo[k] = IF k = 0 THEN [LEVEL |-> level] ELSE Step(k, upTo[k - 1])
  BY <1>3, Zenon
<1>6. \A k \in 0 .. n : upTo[k] = m[k]
  <2> HIDE DEF m, upTo, n, Step
  <2> DEFINE Differ == {k \in 0 .. n : upTo[k] # m[k]}
  <2> SUFFICES ASSUME Differ # {} PROVE FALSE
    OBVIOUS
  <2>1. PICK k \in Differ : \A j \in Differ : k <= j
    <3>1. Differ \subseteq Nat
      BY SMT
    <3> QED
      BY <3>1, LeastNat
  <2>2. k \in 0 .. n /\ upTo[k] # m[k]
    OBVIOUS
  <2>3. k # 0
    BY <1>1, <1>5, <2>2, Zenon
  <2>4. k - 1 \in 0 .. n /\ ~(k <= k - 1)
    BY <1>0, <2>2, <2>3, SMT
  <2>5. upTo[k - 1] = m[k - 1]
    BY <2>1, <2>4, Zenon
  <2> QED
    BY <1>1, <1>5, <2>2, <2>3, <2>5, Zenon
<1> QED
  <2>1. n \in 0 .. n
    BY <1>0, SMT
  <2> QED
    BY <1>4, <1>6, <2>1, Zenon

\* The first field under a key, of those in the order they were added.
FirstValue(level, added, key) ==
  LET under == {i \in DOMAIN added : added[i].key = key}
  IN IF under = {} THEN level ELSE added[Min(under)].value

\* Of the fields in reverse the last under a key wins, which was added first.
LEMMA ObjectReversed ==
  ASSUME NEW level, NEW added \in Seq(LogField)
  PROVE  /\ DOMAIN Object(level, Reverse(added))
              = {"LEVEL"} \cup ({added[i].key : i \in DOMAIN added} \ {""})
         /\ \A key \in DOMAIN Object(level, Reverse(added)) :
              Object(level, Reverse(added))[key] = FirstValue(level, added, key)
<1> DEFINE n == Len(added)
           nodes == Reverse(added)
<1>1. /\ n \in Nat /\ DOMAIN added = 1 .. n
      /\ nodes \in Seq(LogField) /\ Len(nodes) = n
      /\ \A i \in 1 .. n : nodes[i] = added[n - i + 1]
  BY LenProperties, ReverseIs
<1> HIDE DEF n, nodes
<1>2. \A i \in 1 .. n : n - i + 1 \in 1 .. n /\ n - (n - i + 1) + 1 = i
  BY <1>1, SMT
<1>3. Object(level, nodes) = ObjectAfter(level, nodes, n)
  BY <1>1, ObjectIs
<1>4. KeysOf(nodes, n) = {"LEVEL"} \cup ({added[i].key : i \in DOMAIN added} \ {""})
  <2>1. \A key : (\E i \in 1 .. n : nodes[i].key = key) <=> (\E i \in 1 .. n : added[i].key = key)
    <3> SUFFICES ASSUME NEW key
                 PROVE  (\E i \in 1 .. n : nodes[i].key = key)
                          <=> (\E i \in 1 .. n : added[i].key = key)
      OBVIOUS
    <3>1. ASSUME NEW i \in 1 .. n, nodes[i].key = key
          PROVE  \E j \in 1 .. n : added[j].key = key
      <4>1. added[n - i + 1].key = key
        BY <1>1, <3>1
      <4> QED
        BY <1>2, <4>1
    <3>2. ASSUME NEW i \in 1 .. n, added[i].key = key
          PROVE  \E j \in 1 .. n : nodes[j].key = key
      <4>1. nodes[n - i + 1] = added[i]
        BY <1>1, <1>2
      <4> QED
        BY <1>2, <3>2, <4>1
    <3> QED
      BY <3>1, <3>2
  <2>2. {nodes[i].key : i \in 1 .. n} = {added[i].key : i \in 1 .. n}
    <3>1. \A key : key \in {nodes[i].key : i \in 1 .. n} <=> key \in {added[i].key : i \in 1 .. n}
      BY <2>1, Zenon
    <3> QED
      BY <3>1, Zenon
  <2> QED
    BY <1>1, <2>2, Zenon DEF KeysOf
<1>5. ASSUME NEW key
      PROVE  LastValue(level, nodes, n, key) = FirstValue(level, added, key)
  <2> DEFINE S == UnderKey(nodes, n, key)
             T == {i \in DOMAIN added : added[i].key = key}
  <2>1. S \subseteq 1 .. n /\ T \subseteq 1 .. n
    BY <1>1, SMT DEF UnderKey
  <2>2. \A i \in S : n - i + 1 \in T
    <3> SUFFICES ASSUME NEW i \in S PROVE n - i + 1 \in T
      OBVIOUS
    <3>1. i \in 1 .. n /\ nodes[i].key = key
      BY Zenon DEF UnderKey
    <3> QED
      BY <1>1, <1>2, <3>1
  <2>3. \A i \in T : n - i + 1 \in S
    <3> SUFFICES ASSUME NEW i \in T PROVE n - i + 1 \in S
      OBVIOUS
    <3>1. nodes[n - i + 1] = added[i] /\ n - i + 1 \in 1 .. n
      BY <1>1, <1>2
    <3> QED
      BY <3>1, Zenon DEF UnderKey
  <2>4. /\ LastValue(level, nodes, n, key) = IF S = {} THEN level ELSE nodes[Max(S)].value
        /\ FirstValue(level, added, key) = IF T = {} THEN level ELSE added[Min(T)].value
    BY Zenon DEF LastValue, FirstValue
  <2> HIDE DEF S, T
  <2>5. CASE T = {}
    <3>1. S = {}
      BY <2>2, <2>5
    <3> QED
      BY <2>4, <2>5, <3>1, Zenon
  <2>6. CASE T # {}
    <3>0. T \subseteq Nat /\ S \subseteq Nat
      BY <1>1, <2>1, SMT
    <3>1. PICK x \in T : \A y \in T : x <= y
      BY <2>6, <3>0, LeastNat
    <3>2. Min(T) = x
      BY <3>0, <3>1, MinIs
    <3>3. n - x + 1 \in S /\ n - x + 1 \in 1 .. n /\ n - (n - x + 1) + 1 = x
      BY <1>2, <2>1, <2>3
    <3>4. \A y \in S : y <= n - x + 1
      <4> SUFFICES ASSUME NEW y \in S PROVE y <= n - x + 1
        OBVIOUS
      <4>1. x <= n - y + 1
        BY <2>2, <3>1
      <4> QED
        BY <1>1, <2>1, <4>1, SMT
    <3>5. Max(S) = n - x + 1
      BY <3>0, <3>3, <3>4, MaxIs
    <3>6. nodes[n - x + 1] = added[x]
      BY <1>1, <3>3
    <3>7. S # {}
      BY <3>3
    <3> QED
      BY <2>4, <2>6, <3>2, <3>5, <3>6, <3>7, Zenon
  <2> QED
    BY <2>5, <2>6
<1>6. /\ DOMAIN ObjectAfter(level, nodes, n) = KeysOf(nodes, n)
      /\ \A key \in KeysOf(nodes, n) :
           ObjectAfter(level, nodes, n)[key] = LastValue(level, nodes, n, key)
  BY Zenon DEF ObjectAfter
<1> QED
  BY <1>3, <1>4, <1>5, <1>6, Zenon DEF nodes
-----------------------------------------------------------------------------
(* Logger: the nodes behind a logger.                                      *)

FieldOf(n) == [key |-> node[n].key, value |-> node[n].value]

\* h[n] are the fields of node n and of all nodes before it, oldest first.
Behind(h) ==
  /\ h[0] = <<>>
  /\ \A n \in 1 .. Len(node) : h[n] = Append(h[node[n].prev], FieldOf(n))

\* Every logger stands for the fields it was given.
FieldsBehind ==
  \E h \in [0 .. Len(node) -> Seq(LogField)] :
    /\ Behind(h)
    /\ \A g \in Goroutine : fields[g] = h[logger[g]] /\ ctxFields[g] = h[context[g].logger]

\* A call's context bears a trace id.
TracedCalls == \A g \in Goroutine : served[g] => context[g].trace \in TraceId

LogIInv == LogTypeOK /\ FieldsBehind /\ TracedCalls

\* What the type invariant says of one node.
LEMMA NodeType ==
  ASSUME LogTypeOK
  PROVE  /\ Len(node) \in Nat /\ DOMAIN node = 1 .. Len(node)
         /\ \A n \in 1 .. Len(node) : node[n].prev \in 0 .. n - 1 /\ FieldOf(n) \in LogField
<1> DEFINE Nodes == [key : FieldKey \cup {""}, value : FieldValue, prev : 0 .. MaxNodes]
<1>1. node \in Seq(Nodes) /\ \A n \in DOMAIN node : node[n].prev < n
  BY DEF LogTypeOK
<1>2. Len(node) \in Nat /\ DOMAIN node = 1 .. Len(node)
  BY <1>1, LenProperties
<1> SUFFICES ASSUME NEW n \in 1 .. Len(node)
             PROVE  node[n].prev \in 0 .. n - 1 /\ FieldOf(n) \in LogField
  BY <1>2
<1>3. node[n] \in Nodes
  BY <1>1, ElementOfSeq
<1>4. node[n].key \in FieldKey \cup {""} /\ node[n].value \in FieldValue
        /\ node[n].prev \in 0 .. MaxNodes
  BY <1>3
<1>5. node[n].prev < n
  BY <1>1, <1>2
<1>6. node[n].prev \in 0 .. n - 1
  <2> DEFINE p == node[n].prev
  <2>1. p \in 0 .. MaxNodes /\ p < n /\ n \in 1 .. Len(node) /\ MaxNodes \in Nat
    BY <1>4, <1>5, LoggerAssumption
  <2> HIDE DEF p
  <2>2. p \in 0 .. n - 1
    BY <1>2, <2>1, SMT
  <2> QED
    BY <2>2 DEF p
<1>7. FieldOf(n) \in LogField
  BY <1>4 DEF FieldOf, LogField
<1> QED
  BY <1>6, <1>7

\* What Chain returns: the fields, newest first.
LEMMA ChainIs ==
  ASSUME LogTypeOK, NEW h \in [0 .. Len(node) -> Seq(LogField)], Behind(h),
         NEW l \in 0 .. Len(node)
  PROVE  Chain(l) = Reverse(h[l])
<1> DEFINE L == Len(node)
           Is(f) == f = [n \in 0 .. Len(node) |->
                           IF n = 0 THEN <<>>
                           ELSE <<[key |-> node[n].key, value |-> node[n].value]>>
                                  \o f[node[n].prev]]
           from == CHOOSE f : Is(f)
           Step(n, before) == <<FieldOf(n)>> \o before
           m == [n \in 0 .. L |-> Reverse(h[n])]
<1>0. L \in Nat /\ \A n \in 1 .. L : node[n].prev \in 0 .. n - 1 /\ FieldOf(n) \in LogField
  BY NodeType
<1>1. \A n \in 0 .. L : m[n] = IF n = 0 THEN <<>> ELSE Step(n, m[node[n].prev])
  <2> SUFFICES ASSUME NEW n \in 0 .. L
               PROVE  m[n] = IF n = 0 THEN <<>> ELSE Step(n, m[node[n].prev])
    OBVIOUS
  <2>0. m[n] = Reverse(h[n])
    BY Zenon
  <2>1. CASE n = 0
    <3>1. Reverse(<<>>) = <<>>
      BY SMT DEF Reverse
    <3> QED
      BY <2>0, <2>1, <3>1, Zenon DEF Behind
  <2>2. CASE n # 0
    <3> DEFINE p == node[n].prev
    <3>1. n \in 1 .. L
      BY <1>0, <2>2, SMT
    <3>2. p \in 0 .. n - 1 /\ FieldOf(n) \in LogField
      BY <1>0, <3>1
    <3>3. p \in 0 .. L
      BY <1>0, <3>1, <3>2, SMT
    <3>4. h[n] = Append(h[p], FieldOf(n))
      BY <3>1, Zenon DEF Behind
    <3>5. h[p] \in Seq(LogField)
      BY <3>3
    <3>6. Reverse(h[n]) = Step(n, Reverse(h[p]))
      BY <3>2, <3>4, <3>5, ReverseAppend
    <3>7. m[p] = Reverse(h[p])
      BY <3>3, Zenon
    <3> HIDE DEF m, Step, p
    <3>8. m[n] = Step(n, m[p])
      BY <2>0, <3>6, <3>7, Zenon
    <3> QED
      BY <2>2, <3>8, Zenon DEF p
  <2> QED
    BY <2>1, <2>2
<1>2. Is(m)
  BY <1>1, Zenon DEF FieldOf
<1>3. Is(from)
  BY <1>2, Zenon
<1>4. Chain(l) = from[l]
  BY Zenon DEF Chain
<1>5. \A n \in 0 .. L : from[n] = IF n = 0 THEN <<>> ELSE Step(n, from[node[n].prev])
  BY <1>3, Zenon DEF FieldOf
<1>6. \A n \in 0 .. L : from[n] = m[n]
  <2> HIDE DEF m, from, L, Step
  <2> DEFINE Differ == {n \in 0 .. L : from[n] # m[n]}
  <2> SUFFICES ASSUME Differ # {} PROVE FALSE
    OBVIOUS
  <2>1. PICK n \in Differ : \A j \in Differ : n <= j
    <3>1. Differ \subseteq Nat
      BY SMT
    <3> QED
      BY <3>1, LeastNat
  <2>2. n \in 0 .. L /\ from[n] # m[n]
    OBVIOUS
  <2>3. n # 0
    BY <1>1, <1>5, <2>2, Zenon
  <2>4. n \in 1 .. L
    BY <1>0, <2>2, <2>3, SMT
  <2> DEFINE p == node[n].prev
  <2>5. p \in 0 .. n - 1
    BY <1>0, <2>4
  <2>6. p \in 0 .. L /\ ~(n <= p)
    BY <1>0, <2>4, <2>5, SMT
  <2>7. from[p] = m[p]
    BY <2>1, <2>6, Zenon
  <2> QED
    BY <1>1, <1>5, <2>2, <2>3, <2>7, Zenon
<1> QED
  BY <1>4, <1>6, Zenon

\* What a line of g is made of.
LEMMA LineIs ==
  ASSUME LogTypeOK, FieldsBehind, NEW g \in Goroutine
  PROVE  LET json == Object("INFO", Reverse(Added(g)))
             trace == context[g].trace
         IN /\ Added(g) \in Seq(LogField)
            /\ Line("INFO", context[g], logger[g]).text = Texts(Added(g))
            /\ Line("INFO", context[g], logger[g]).json
                 = IF trace = "" THEN json
                   ELSE MustSet(json, [key |-> "TRACE_ID", value |-> trace])
<1>1. PICK h \in [0 .. Len(node) -> Seq(LogField)] :
        /\ Behind(h)
        /\ \A i \in Goroutine : fields[i] = h[logger[i]] /\ ctxFields[i] = h[context[i].logger]
  BY DEF FieldsBehind
<1>2. logger[g] \in 0 .. Len(node) /\ context[g].logger \in 0 .. Len(node)
  BY DEF LogTypeOK
<1>3. fields[g] \in Seq(LogField) /\ ctxFields[g] \in Seq(LogField)
  BY DEF LogTypeOK
<1>4. Chain(logger[g]) = Reverse(fields[g]) /\ Chain(context[g].logger) = Reverse(ctxFields[g])
  <2>1. \A l \in 0 .. Len(node) : Chain(l) = Reverse(h[l])
    BY <1>1, ChainIs
  <2> QED
    BY <1>1, <1>2, <2>1, Zenon
<1>5. Chain(context[g].logger) \o Chain(logger[g]) = Reverse(Added(g))
  BY <1>3, <1>4, ReverseConcat DEF Added
<1>6. Added(g) \in Seq(LogField)
  BY <1>3, ConcatProperties DEF Added
<1>7. Reverse(Texts(Reverse(Added(g)))) = Texts(Added(g))
  BY <1>6, TextsReversed
<1> DEFINE json == Object("INFO", Reverse(Added(g)))
           trace == context[g].trace
           full == IF trace = "" THEN json
                   ELSE MustSet(json, [key |-> "TRACE_ID", value |-> trace])
<1>8. Line("INFO", context[g], logger[g]) = [json |-> full, text |-> Texts(Added(g))]
  BY <1>5, <1>7, Zenon DEF Line
<1> HIDE DEF full
<1>9. /\ Line("INFO", context[g], logger[g]).text = Texts(Added(g))
      /\ Line("INFO", context[g], logger[g]).json = full
  BY <1>8, SMT
<1> QED
  BY <1>6, <1>9, Zenon DEF full

\* Setting a key of a JSON object changes that key alone.
LEMMA MustSetIs ==
  ASSUME NEW json, NEW key, NEW value
  PROVE  LET new == MustSet(json, [key |-> key, value |-> value])
         IN /\ DOMAIN new = DOMAIN json \cup {key} /\ new[key] = value
            /\ \A k \in DOMAIN json \ {key} : new[k] = json[k]
<1> DEFINE f == [key |-> key, value |-> value]
<1>1. f.key = key /\ f.value = value
  BY SMT
<1> HIDE DEF f
<1>2. MustSet(json, f) = [k \in DOMAIN json \cup {key} |-> IF k = key THEN value ELSE json[k]]
  BY <1>1, Zenon DEF MustSet
<1> QED
  BY <1>2, Zenon DEF f

\* Loggers that stand for the fields they were given write lines with those fields.
LEMMA OwnLines ==
  LogIInv => LineIsOwn
<1> SUFFICES ASSUME LogIInv, NEW g \in Goroutine
             PROVE  LET line == Line("INFO", context[g], logger[g])
                        reserved == IF context[g].trace = "" THEN {""} ELSE {"", "TRACE_ID"}
                        keys == ({Added(g)[i].key : i \in DOMAIN Added(g)} \cup {"LEVEL"})
                                  \ reserved
                    IN /\ line.text = Texts(Added(g))
                       /\ DOMAIN line.json \ reserved = keys
                       /\ \A k \in keys : line.json[k] = Shown(g, k, "INFO")
  BY Zenon DEF LineIsOwn
<1> DEFINE line == Line("INFO", context[g], logger[g])
           object == Object("INFO", Reverse(Added(g)))
           trace == context[g].trace
           given == {Added(g)[i].key : i \in DOMAIN Added(g)}
           reserved == IF trace = "" THEN {""} ELSE {"", "TRACE_ID"}
           keys == (given \cup {"LEVEL"}) \ reserved
<1>1. /\ Added(g) \in Seq(LogField)
      /\ line.text = Texts(Added(g))
      /\ line.json = IF trace = "" THEN object
                     ELSE MustSet(object, [key |-> "TRACE_ID", value |-> trace])
  BY LineIs DEF LogIInv
<1>2. /\ DOMAIN object = {"LEVEL"} \cup (given \ {""})
      /\ \A k \in DOMAIN object : object[k] = FirstValue("INFO", Added(g), k)
  BY <1>1, ObjectReversed
<1>3. \A k : FirstValue("INFO", Added(g), k) = Shown(g, k, "INFO")
  BY Zenon DEF FirstValue, Shown
<1>4. "LEVEL" # "" /\ "LEVEL" # "TRACE_ID"
  BY SMT
<1> HIDE DEF line, object, trace, given
<1>5. keys \subseteq DOMAIN object
  BY <1>2, Zenon
<1>6. DOMAIN line.json \ reserved = keys /\ \A k \in keys : line.json[k] = object[k]
  <2>1. CASE trace = ""
    <3>1. line.json = object
      BY <1>1, <2>1, Zenon
    <3>2. \A k : k \in DOMAIN object \ {""} <=> k \in (given \cup {"LEVEL"}) \ {""}
      BY <1>2, Zenon
    <3>3. DOMAIN object \ {""} = (given \cup {"LEVEL"}) \ {""}
      BY <3>2, Zenon
    <3> QED
      BY <2>1, <3>1, <3>3, Zenon
  <2>2. CASE trace # ""
    <3>1. line.json = MustSet(object, [key |-> "TRACE_ID", value |-> trace])
      BY <1>1, <2>2, Zenon
    <3>2. /\ DOMAIN line.json = DOMAIN object \cup {"TRACE_ID"}
          /\ \A k \in DOMAIN object \ {"TRACE_ID"} : line.json[k] = object[k]
      BY <3>1, MustSetIs, SMTT(40)
    <3>3. \A k : k \in DOMAIN line.json \ {"", "TRACE_ID"}
                   <=> k \in (given \cup {"LEVEL"}) \ {"", "TRACE_ID"}
      BY <1>2, <3>2, Zenon
    <3>4. DOMAIN line.json \ {"", "TRACE_ID"} = (given \cup {"LEVEL"}) \ {"", "TRACE_ID"}
      BY <3>3, Zenon
    <3>5. \A k \in (given \cup {"LEVEL"}) \ {"", "TRACE_ID"} : line.json[k] = object[k]
      BY <1>2, <3>2, Zenon
    <3> QED
      BY <2>2, <3>4, <3>5, Zenon
  <2> QED
    BY <2>1, <2>2
<1>7. \A k \in keys : line.json[k] = Shown(g, k, "INFO")
  BY <1>2, <1>3, <1>5, <1>6, Zenon
<1> QED
  BY <1>1, <1>6, <1>7, Zenon DEF line, trace, given

\* A context with a trace id writes it in its line.
LEMMA TracedLines ==
  LogIInv => CallIsTraced
<1> SUFFICES ASSUME LogIInv, NEW g \in Goroutine, served[g]
             PROVE  LET line == Line("INFO", context[g], logger[g])
                    IN /\ "TRACE_ID" \in DOMAIN line.json
                       /\ line.json["TRACE_ID"] = context[g].trace
                       /\ context[g].trace \in TraceId
  BY Zenon DEF CallIsTraced
<1> DEFINE line == Line("INFO", context[g], logger[g])
           object == Object("INFO", Reverse(Added(g)))
           trace == context[g].trace
<1>1. trace \in TraceId /\ trace # ""
  BY LoggerAssumption DEF LogIInv, TracedCalls
<1>2. line.json = IF trace = "" THEN object
                  ELSE MustSet(object, [key |-> "TRACE_ID", value |-> trace])
  BY LineIs DEF LogIInv
<1> HIDE DEF line, object, trace
<1>3. line.json = MustSet(object, [key |-> "TRACE_ID", value |-> trace])
  BY <1>1, <1>2, Zenon
<1>4. DOMAIN line.json = DOMAIN object \cup {"TRACE_ID"} /\ line.json["TRACE_ID"] = trace
  BY <1>3, MustSetIs
<1> QED
  BY <1>1, <1>4, Zenon DEF line, trace
\* No node is made; loggers and contexts take over nodes others have, with their fields.
LEMMA SameNodes ==
  ASSUME NEW h \in [0 .. Len(node) -> Seq(LogField)], Behind(h), node' = node,
         \A i \in Goroutine : fields'[i] = h[logger'[i]] /\ ctxFields'[i] = h[context'[i].logger]
  PROVE  FieldsBehind'
<1>1. Behind(h)'
  BY Zenon DEF Behind, FieldOf
<1>2. h \in [0 .. Len(node') -> Seq(LogField)]
  BY Zenon
<1> QED
  BY <1>1, <1>2, Zenon DEF FieldsBehind

\* The provers' translation of strings stumbles over the empty one: here it has names.
NoTrace == ""
Key == FieldKey \cup {""}
Trace == TraceId \cup {NoTrace}
Nodes == [key : Key, value : FieldValue, prev : 0 .. MaxNodes]

\* LogTypeOK in full, in this state and the next.
LEMMA LogTypes ==
  /\ LogTypeOK <=>
       /\ node \in Seq(Nodes) /\ \A n \in DOMAIN node : node[n].prev < n
       /\ logger \in [Goroutine -> 0 .. Len(node)]
       /\ context \in [Goroutine -> [logger : 0 .. Len(node), trace : Trace]]
       /\ fields \in [Goroutine -> Seq(LogField)] /\ ctxFields \in [Goroutine -> Seq(LogField)]
       /\ served \in [Goroutine -> BOOLEAN]
  /\ LogTypeOK' <=>
       /\ node' \in Seq(Nodes) /\ \A n \in DOMAIN node' : node'[n].prev < n
       /\ logger' \in [Goroutine -> 0 .. Len(node')]
       /\ context' \in [Goroutine -> [logger : 0 .. Len(node'), trace : Trace]]
       /\ fields' \in [Goroutine -> Seq(LogField)] /\ ctxFields' \in [Goroutine -> Seq(LogField)]
       /\ served' \in [Goroutine -> BOOLEAN]
  BY Zenon DEF LogTypeOK, Nodes, Key, Trace, NoTrace

\* Before any call the invariant holds.
LEMMA LogInitially ==
  LogInit => LogIInv
<1> SUFFICES ASSUME LogInit PROVE LogIInv
  OBVIOUS
<1>1. Len(node) = 0 /\ DOMAIN node = {} /\ node = <<>>
  <2>1. node = <<>>
    BY Zenon DEF LogInit
  <2> QED
    BY <2>1, SMT
<1>2. LogTypeOK
  <2>1. \A S : <<>> \in Seq(S)
    BY EmptySeq
  <2>2. node \in Seq(Nodes)
    BY <1>1, <2>1
  <2>3. fields \in [Goroutine -> Seq(LogField)] /\ ctxFields \in [Goroutine -> Seq(LogField)]
    BY <2>1 DEF LogInit
  <2>4. logger \in [Goroutine -> 0 .. Len(node)] /\ served \in [Goroutine -> BOOLEAN]
          /\ context \in [Goroutine -> [logger : 0 .. Len(node), trace : Trace]]
    <3>1. /\ logger = [g \in Goroutine |-> 0] /\ served = [g \in Goroutine |-> FALSE]
          /\ context = [g \in Goroutine |-> [logger |-> 0, trace |-> NoTrace]]
      BY Zenon DEF LogInit, NoTrace
    <3>2. NoTrace \in Trace
      BY DEF Trace
    <3> QED
      BY <1>1, <3>1, <3>2, SMT
  <2> QED
    BY <1>1, <2>2, <2>3, <2>4, LogTypes, Zenon
<1>3. FieldsBehind
  <2> DEFINE h == [n \in 0 .. 0 |-> <<>>]
  <2>1. h \in [0 .. Len(node) -> Seq(LogField)] /\ h[0] = <<>>
    <3>1. <<>> \in Seq(LogField)
      BY EmptySeq
    <3> QED
      BY <1>1, <3>1, SMT
  <2>2. Behind(h)
    BY <1>1, <2>1, SMT DEF Behind
  <2>3. \A g \in Goroutine : fields[g] = h[logger[g]] /\ ctxFields[g] = h[context[g].logger]
    <3> HIDE DEF h
    <3>1. \A g \in Goroutine : logger[g] = 0 /\ context[g].logger = 0
      <4>1. /\ logger = [g \in Goroutine |-> 0]
            /\ context = [g \in Goroutine |-> [logger |-> 0, trace |-> NoTrace]]
        BY Zenon DEF LogInit, NoTrace
      <4> QED
        BY <4>1, SMT
    <3> QED
      BY <2>1, <3>1, Zenon DEF LogInit
  <2> HIDE DEF h
  <2> QED
    BY <2>1, <2>2, <2>3, Zenon DEF FieldsBehind
<1>4. TracedCalls
  BY Zenon DEF LogInit, TracedCalls
<1> QED
  BY <1>2, <1>3, <1>4 DEF LogIInv

\* A logger with one field more is a new node: the nodes of all others stay as they are.
LEMMA WithStep ==
  ASSUME LogIInv, NEW g \in Goroutine, NEW k \in Key, NEW v \in FieldValue,
         With(g, k, v)
  PROVE  LogIInv'
<1> DEFINE L == Len(node)
           x == [key |-> k, value |-> v, prev |-> logger[g]]
           f == [key |-> k, value |-> v]
<1>1. /\ L < MaxNodes
      /\ node' = Append(node, x)
      /\ logger' = [logger EXCEPT ![g] = L + 1]
      /\ fields' = [fields EXCEPT ![g] = Append(fields[g], f)]
      /\ context' = context /\ ctxFields' = ctxFields /\ served' = served
  BY Zenon DEF With
<1>2. /\ node \in Seq(Nodes) /\ \A n \in DOMAIN node : node[n].prev < n
      /\ logger \in [Goroutine -> 0 .. L]
      /\ context \in [Goroutine -> [logger : 0 .. L, trace : Trace]]
      /\ fields \in [Goroutine -> Seq(LogField)] /\ ctxFields \in [Goroutine -> Seq(LogField)]
      /\ served \in [Goroutine -> BOOLEAN]
  BY LogTypes, Zenon DEF LogIInv
<1>3. L \in Nat /\ DOMAIN node = 1 .. L
        /\ \A n \in 1 .. L : node[n].prev \in 0 .. n - 1 /\ FieldOf(n) \in LogField
  BY NodeType DEF LogIInv
<1>4. logger[g] \in 0 .. L /\ logger[g] \in 0 .. MaxNodes
  <2>1. MaxNodes \in Nat
    BY LoggerAssumption, Zenon
  <2> QED
    BY <1>1, <1>2, <1>3, <2>1, SMT
<1>5. x \in Nodes /\ f \in LogField
  <2>1. x \in Nodes
    BY <1>4, SMT DEF Nodes
  <2>2. f \in [key : Key, value : FieldValue]
    BY SMT
  <2> QED
    BY <2>1, <2>2, Zenon DEF LogField, Key
<1>6. x.key = k /\ x.value = v /\ x.prev = logger[g]
  BY SMT
<1> HIDE DEF x, L
<1>7. /\ node' \in Seq(Nodes) /\ Len(node') = L + 1 /\ DOMAIN node' = 1 .. L + 1
      /\ \A n \in 1 .. L : node'[n] = node[n]
      /\ node'[L + 1] = x
  <2>1. /\ node' \in Seq(Nodes) /\ Len(node') = L + 1
        /\ \A n \in 1 .. L : node'[n] = node[n]
        /\ node'[L + 1] = x
    BY <1>1, <1>2, <1>5, AppendProperties DEF L
  <2> QED
    BY <2>1, LenProperties, Zenon
<1>8. \A n \in 1 .. L + 1 : n \in 1 .. L \/ n = L + 1
  BY <1>3, SMT
<1>9. LogTypeOK'
  <2>1. \A n \in DOMAIN node' : node'[n].prev < n
    <3>1. logger[g] < L + 1
      BY <1>3, <1>4, SMT
    <3> QED
      BY <1>2, <1>3, <1>6, <1>7, <1>8, <3>1, Zenon
  <2>2. logger' \in [Goroutine -> 0 .. L + 1]
    BY <1>1, <1>2, <1>3, SMT
  <2>3. context' \in [Goroutine -> [logger : 0 .. L + 1, trace : Trace]]
    BY <1>1, <1>2, <1>3, SMT
  <2>4. fields' \in [Goroutine -> Seq(LogField)]
    <3>1. Append(fields[g], f) \in Seq(LogField)
      BY <1>2, <1>5, AppendProperties
    <3> HIDE DEF f
    <3> QED
      BY <1>1, <1>2, <3>1
  <2> QED
    BY <1>1, <1>2, <1>7, <2>1, <2>2, <2>3, <2>4, LogTypes, Zenon
<1>10. FieldsBehind'
  <2>1. PICK h \in [0 .. L -> Seq(LogField)] :
          /\ Behind(h)
          /\ \A i \in Goroutine : fields[i] = h[logger[i]] /\ ctxFields[i] = h[context[i].logger]
    BY DEF LogIInv, FieldsBehind, L
  <2> DEFINE new == Append(h[logger[g]], f)
             longer == [n \in 0 .. L + 1 |-> IF n = L + 1 THEN new ELSE h[n]]
  <2>2. new \in Seq(LogField)
    <3>1. h[logger[g]] \in Seq(LogField)
      BY <1>4
    <3> QED
      BY <1>5, <3>1, AppendProperties
  <2> HIDE DEF new
  <2>3. PICK h2 \in [0 .. L + 1 -> Seq(LogField)] : h2 = longer
    <3>1. longer \in [0 .. L + 1 -> Seq(LogField)]
      BY <1>3, <2>2, SMT
    <3> QED
      BY <3>1
  <2>4. h2[L + 1] = new /\ \A n \in 0 .. L : h2[n] = h[n]
    BY <1>3, <2>3, SMT
  <2> HIDE DEF longer
  <2>5. h2[0] = <<>>
    <3>1. 0 \in 0 .. L
      BY <1>3, SMT
    <3> QED
      BY <2>1, <2>4, <3>1, Zenon DEF Behind
  <2>6. ASSUME NEW n \in 1 .. L + 1
        PROVE  h2[n] = Append(h2[node'[n].prev], [key |-> node'[n].key, value |-> node'[n].value])
    <3>1. CASE n = L + 1
      <4>1. h2[n] = Append(h[logger[g]], f)
        BY <2>4, <3>1, Zenon DEF new
      <4>2. h2[logger[g]] = h[logger[g]]
        BY <1>4, <2>4, Zenon
      <4> QED
        BY <1>6, <1>7, <3>1, <4>1, <4>2, Zenon
    <3>2. CASE n # L + 1
      <4>1. n \in 1 .. L
        BY <1>8, <3>2
      <4>2. n \in 0 .. L /\ node[n].prev \in 0 .. L
        <5>1. node[n].prev \in 0 .. n - 1
          BY <1>3, <4>1
        <5>2. L \in Nat
          BY <1>3
        <5> QED
          BY <4>1, <5>1, <5>2, SMTT(40)
      <4>3. h[n] = Append(h[node[n].prev], [key |-> node[n].key, value |-> node[n].value])
        BY <2>1, <4>1, Zenon DEF Behind, FieldOf, L
      <4>4. h2[n] = h[n] /\ h2[node[n].prev] = h[node[n].prev] /\ node'[n] = node[n]
        BY <1>7, <2>4, <4>1, <4>2, Zenon
      <4> QED
        BY <4>3, <4>4, Zenon
    <3> QED
      BY <3>1, <3>2
  <2>7. Behind(h2)'
    <3>1. Behind(h2)' <=> /\ h2[0] = <<>>
                          /\ \A n \in 1 .. Len(node') :
                               h2[n] = Append(h2[node'[n].prev],
                                              [key |-> node'[n].key, value |-> node'[n].value])
      BY Zenon DEF Behind, FieldOf
    <3>2. 1 .. Len(node') = 1 .. L + 1
      BY <1>7
    <3> QED
      BY <2>5, <2>6, <3>1, <3>2, Zenon
  <2>8. ASSUME NEW i \in Goroutine
        PROVE  fields'[i] = h2[logger'[i]] /\ ctxFields'[i] = h2[context'[i].logger]
    <3>1. logger[i] \in 0 .. L /\ context[i].logger \in 0 .. L
      BY <1>2
    <3>2. ctxFields'[i] = h2[context'[i].logger]
      BY <1>1, <2>1, <2>4, <3>1, Zenon
    <3>3. CASE i = g
      <4>1. logger'[i] = L + 1 /\ fields'[i] = Append(fields[g], f)
        BY <1>1, <1>2, <3>3, Zenon
      <4> QED
        BY <2>1, <2>4, <3>2, <4>1, Zenon DEF new
    <3>4. CASE i # g
      <4>1. logger'[i] = logger[i] /\ fields'[i] = fields[i]
        BY <1>1, <1>2, <3>4, Zenon
      <4> QED
        BY <2>1, <2>4, <3>1, <3>2, <4>1, Zenon
    <3> QED
      BY <3>3, <3>4
  <2> QED
    <3>1. FieldsBehind' <=>
            \E hh \in [0 .. Len(node') -> Seq(LogField)] :
              /\ Behind(hh)'
              /\ \A i \in Goroutine :
                   fields'[i] = hh[logger'[i]] /\ ctxFields'[i] = hh[context'[i].logger]
      BY Zenon DEF FieldsBehind
    <3>2. h2 \in [0 .. Len(node') -> Seq(LogField)]
      BY <1>7, <2>3
    <3> QED
      BY <2>7, <2>8, <3>1, <3>2, Zenon
<1>11. TracedCalls'
  BY <1>1, Zenon DEF LogIInv, TracedCalls
<1> QED
  BY <1>9, <1>10, <1>11 DEF LogIInv
\* What SameNodes asks for, of a state.
LEMMA BehindNow ==
  ASSUME LogIInv
  PROVE  /\ \E h \in [0 .. Len(node) -> Seq(LogField)] :
              /\ Behind(h) /\ h[0] = <<>>
              /\ \A i \in Goroutine :
                   fields[i] = h[logger[i]] /\ ctxFields[i] = h[context[i].logger]
         /\ Len(node) \in Nat
         /\ \A i \in Goroutine : /\ logger[i] \in 0 .. Len(node)
                                 /\ context[i] \in [logger : 0 .. Len(node), trace : Trace]
                                 /\ fields[i] \in Seq(LogField) /\ ctxFields[i] \in Seq(LogField)
<1>1. \E h \in [0 .. Len(node) -> Seq(LogField)] :
        /\ Behind(h) /\ h[0] = <<>>
        /\ \A i \in Goroutine : fields[i] = h[logger[i]] /\ ctxFields[i] = h[context[i].logger]
  BY Zenon DEF LogIInv, FieldsBehind, Behind
<1>2. /\ logger \in [Goroutine -> 0 .. Len(node)]
      /\ context \in [Goroutine -> [logger : 0 .. Len(node), trace : Trace]]
      /\ fields \in [Goroutine -> Seq(LogField)] /\ ctxFields \in [Goroutine -> Seq(LogField)]
  BY LogTypes, Zenon DEF LogIInv
<1>3. \A i \in Goroutine : /\ logger[i] \in 0 .. Len(node)
                           /\ context[i] \in [logger : 0 .. Len(node), trace : Trace]
                           /\ fields[i] \in Seq(LogField) /\ ctxFields[i] \in Seq(LogField)
  BY <1>2
<1>4. Len(node) \in Nat
  BY NodeType DEF LogIInv
<1> QED
  BY <1>1, <1>3, <1>4, Zenon

\* A context with another logger is a context.
LEMMA WithAnother ==
  ASSUME NEW S, NEW T, NEW c \in [logger : S, trace : T], NEW l \in S
  PROVE  [c EXCEPT !.logger = l] \in [logger : S, trace : T]
  BY SMT

\* The context now carries the logger in hand, and stands for its fields.
LEMMA WithLoggerStep ==
  ASSUME LogIInv, NEW g \in Goroutine, WithLogger(g)
  PROVE  LogIInv'
<1>1. /\ context' = [context EXCEPT ![g].logger = logger[g]]
      /\ ctxFields' = [ctxFields EXCEPT ![g] = fields[g]]
      /\ node' = node /\ logger' = logger /\ fields' = fields /\ served' = served
  BY Zenon DEF WithLogger
<1>2. PICK h \in [0 .. Len(node) -> Seq(LogField)] :
        /\ Behind(h)
        /\ \A i \in Goroutine : fields[i] = h[logger[i]] /\ ctxFields[i] = h[context[i].logger]
  BY BehindNow, Zenon
<1>3. /\ context \in [Goroutine -> [logger : 0 .. Len(node), trace : Trace]]
      /\ logger \in [Goroutine -> 0 .. Len(node)]
      /\ fields \in [Goroutine -> Seq(LogField)] /\ ctxFields \in [Goroutine -> Seq(LogField)]
  BY LogTypes, Zenon DEF LogIInv
<1>4. /\ context' \in [Goroutine -> [logger : 0 .. Len(node), trace : Trace]]
      /\ ctxFields' \in [Goroutine -> Seq(LogField)]
  <2> DEFINE new == [context[g] EXCEPT !.logger = logger[g]]
  <2>1. new \in [logger : 0 .. Len(node), trace : Trace]
    <3>1. context[g] \in [logger : 0 .. Len(node), trace : Trace] /\ logger[g] \in 0 .. Len(node)
      BY <1>3
    <3> QED
      BY <3>1, WithAnother
  <2>2. context' = [context EXCEPT ![g] = new]
    BY <1>1
  <2> HIDE DEF new
  <2>3. context' \in [Goroutine -> [logger : 0 .. Len(node), trace : Trace]]
    BY <1>3, <2>1, <2>2
  <2>4. ctxFields' \in [Goroutine -> Seq(LogField)]
    BY <1>1, <1>3
  <2> QED
    BY <2>3, <2>4
<1>5. \A i \in Goroutine :
        /\ context'[i].trace = context[i].trace
        /\ context'[i].logger = IF i = g THEN logger[g] ELSE context[i].logger
        /\ ctxFields'[i] = IF i = g THEN fields[g] ELSE ctxFields[i]
  BY <1>1, <1>3, SMT
<1>6. LogTypeOK'
  BY <1>1, <1>4, LogTypes, Zenon DEF LogIInv
<1>7. FieldsBehind'
  <2>1. ASSUME NEW i \in Goroutine
        PROVE  fields'[i] = h[logger'[i]] /\ ctxFields'[i] = h[context'[i].logger]
    <3>1. CASE i = g
      BY <1>1, <1>2, <1>5, <3>1
    <3>2. CASE i # g
      BY <1>1, <1>2, <1>5, <3>2
    <3> QED
      BY <3>1, <3>2
  <2> QED
    BY <1>1, <1>2, <2>1, SameNodes
<1>8. TracedCalls'
  BY <1>1, <1>5, Zenon DEF LogIInv, TracedCalls
<1> QED
  BY <1>6, <1>7, <1>8 DEF LogIInv

\* The logger taken from a context stands for the fields of that context.
LEMMA GetLoggerStep ==
  ASSUME LogIInv, NEW g \in Goroutine, GetLogger(g)
  PROVE  LogIInv'
<1>1. /\ logger' = [logger EXCEPT ![g] = context[g].logger]
      /\ fields' = [fields EXCEPT ![g] = ctxFields[g]]
      /\ node' = node /\ context' = context /\ ctxFields' = ctxFields /\ served' = served
  BY Zenon DEF GetLogger
<1>2. PICK h \in [0 .. Len(node) -> Seq(LogField)] :
        /\ Behind(h)
        /\ \A i \in Goroutine : fields[i] = h[logger[i]] /\ ctxFields[i] = h[context[i].logger]
  BY BehindNow, Zenon
<1>3. /\ context \in [Goroutine -> [logger : 0 .. Len(node), trace : Trace]]
      /\ logger \in [Goroutine -> 0 .. Len(node)]
      /\ fields \in [Goroutine -> Seq(LogField)] /\ ctxFields \in [Goroutine -> Seq(LogField)]
  BY LogTypes, Zenon DEF LogIInv
<1>4. logger' \in [Goroutine -> 0 .. Len(node)] /\ fields' \in [Goroutine -> Seq(LogField)]
  BY <1>1, <1>3, SMT
<1>5. \A i \in Goroutine :
        /\ logger'[i] = IF i = g THEN context[g].logger ELSE logger[i]
        /\ fields'[i] = IF i = g THEN ctxFields[g] ELSE fields[i]
  BY <1>1, <1>3, SMT
<1>6. LogTypeOK'
  BY <1>1, <1>4, LogTypes, Zenon DEF LogIInv
<1>7. FieldsBehind'
  <2>1. ASSUME NEW i \in Goroutine
        PROVE  fields'[i] = h[logger'[i]] /\ ctxFields'[i] = h[context'[i].logger]
    <3>1. CASE i = g
      BY <1>1, <1>2, <1>5, <3>1
    <3>2. CASE i # g
      BY <1>1, <1>2, <1>5, <3>2
    <3> QED
      BY <3>1, <3>2
  <2> QED
    BY <1>1, <1>2, <2>1, SameNodes
<1>8. TracedCalls'
  BY <1>1, Zenon DEF LogIInv, TracedCalls
<1> QED
  BY <1>6, <1>7, <1>8 DEF LogIInv

\* A call that is served has a trace id, its own or the one that was sent.
LEMMA ServeStep ==
  ASSUME LogIInv, NEW g \in Goroutine, NEW sent \in Trace, Serve(g, sent)
  PROVE  LogIInv'
<1>1. PICK id \in Traced(sent) : context' = [context EXCEPT ![g].trace = id]
  BY Zenon DEF Serve
<1>2. /\ served' = [served EXCEPT ![g] = TRUE]
      /\ node' = node /\ logger' = logger /\ fields' = fields /\ ctxFields' = ctxFields
  BY Zenon DEF Serve
<1>3. id \in TraceId /\ id \in Trace
  <2>1. id \in TraceId
    BY <1>1, Zenon DEF Traced, Trace, NoTrace
  <2> QED
    BY <2>1 DEF Trace
<1>4. PICK h \in [0 .. Len(node) -> Seq(LogField)] :
        /\ Behind(h)
        /\ \A i \in Goroutine : fields[i] = h[logger[i]] /\ ctxFields[i] = h[context[i].logger]
  BY BehindNow, Zenon
<1>5. /\ context \in [Goroutine -> [logger : 0 .. Len(node), trace : Trace]]
      /\ served \in [Goroutine -> BOOLEAN]
  BY LogTypes, Zenon DEF LogIInv
<1>6. context' \in [Goroutine -> [logger : 0 .. Len(node), trace : Trace]]
  <2> DEFINE new == [context[g] EXCEPT !.trace = id]
  <2>1. new \in [logger : 0 .. Len(node), trace : Trace]
    <3>1. context[g] \in [logger : 0 .. Len(node), trace : Trace]
      BY <1>5
    <3> QED
      BY <1>3, <3>1, SMT
  <2>2. context' = [context EXCEPT ![g] = new]
    BY <1>1
  <2> HIDE DEF new
  <2> QED
    BY <1>5, <2>1, <2>2
<1>7. served' \in [Goroutine -> BOOLEAN] /\ \A i \in Goroutine \ {g} : served'[i] = served[i]
  BY <1>2, <1>5
<1>8. \A i \in Goroutine :
        /\ context'[i].logger = context[i].logger
        /\ context'[i].trace = IF i = g THEN id ELSE context[i].trace
  BY <1>1, <1>5, SMT
<1>9. LogTypeOK'
  BY <1>2, <1>6, <1>7, LogTypes, Zenon DEF LogIInv
<1>10. FieldsBehind'
  <2>1. \A i \in Goroutine : fields'[i] = h[logger'[i]] /\ ctxFields'[i] = h[context'[i].logger]
    BY <1>2, <1>4, <1>8, Zenon
  <2> QED
    BY <1>2, <1>4, <2>1, SameNodes
<1>11. TracedCalls'
  BY <1>3, <1>7, <1>8, Zenon DEF LogIInv, TracedCalls
<1> QED
  BY <1>9, <1>10, <1>11 DEF LogIInv

\* A goroutine is started with a context that has the logger of the old one or none, and
\* bears a trace id if the old one was of a call.
LEMMA StartStep ==
  ASSUME LogIInv, NEW g \in Goroutine, NEW h \in Goroutine, NEW ctx, Start(g, h, ctx),
         ctx \in [logger : {0, context[g].logger}, trace : Trace],
         served[g] => ctx.trace \in TraceId
  PROVE  LogIInv'
<1>1. /\ logger' = [logger EXCEPT ![h] = 0]
      /\ context' = [context EXCEPT ![h] = ctx]
      /\ fields' = [fields EXCEPT ![h] = <<>>]
      /\ ctxFields' = [ctxFields EXCEPT ![h] = IF ctx.logger = 0 THEN <<>> ELSE ctxFields[g]]
      /\ served' = [served EXCEPT ![h] = served[g]]
      /\ node' = node
  BY Zenon DEF Start
<1>2. PICK b \in [0 .. Len(node) -> Seq(LogField)] :
        /\ Behind(b) /\ b[0] = <<>>
        /\ \A i \in Goroutine : fields[i] = b[logger[i]] /\ ctxFields[i] = b[context[i].logger]
  BY BehindNow, Zenon
<1>3. /\ context \in [Goroutine -> [logger : 0 .. Len(node), trace : Trace]]
      /\ logger \in [Goroutine -> 0 .. Len(node)]
      /\ fields \in [Goroutine -> Seq(LogField)] /\ ctxFields \in [Goroutine -> Seq(LogField)]
      /\ served \in [Goroutine -> BOOLEAN] /\ Len(node) \in Nat
  BY LogTypes, BehindNow, Zenon DEF LogIInv
<1>4. ctx \in [logger : 0 .. Len(node), trace : Trace] /\ ctx.logger \in {0, context[g].logger}
  <2>1. 0 \in 0 .. Len(node) /\ context[g].logger \in 0 .. Len(node)
    BY <1>3, SMT
  <2> QED
    BY <2>1
<1> DEFINE cf == IF ctx.logger = 0 THEN <<>> ELSE ctxFields[g]
<1>5. cf \in Seq(LogField) /\ <<>> \in Seq(LogField)
  BY <1>3, EmptySeq
<1>6. cf = b[ctx.logger]
  BY <1>2, <1>4, Zenon
<1> HIDE DEF cf
<1>7. /\ logger' \in [Goroutine -> 0 .. Len(node)]
      /\ context' \in [Goroutine -> [logger : 0 .. Len(node), trace : Trace]]
      /\ fields' \in [Goroutine -> Seq(LogField)]
      /\ ctxFields' \in [Goroutine -> Seq(LogField)]
      /\ served' \in [Goroutine -> BOOLEAN]
  <2>1. 0 \in 0 .. Len(node) /\ served[g] \in BOOLEAN
    BY <1>3, SMT
  <2>2. ctxFields' = [ctxFields EXCEPT ![h] = cf]
    BY <1>1 DEF cf
  <2>3. logger' \in [Goroutine -> 0 .. Len(node)]
    BY <1>1, <1>3, <2>1, Zenon
  <2>4. context' \in [Goroutine -> [logger : 0 .. Len(node), trace : Trace]]
    BY <1>1, <1>3, <1>4, Zenon
  <2>5. fields' \in [Goroutine -> Seq(LogField)]
    BY <1>1, <1>3, <1>5, Zenon
  <2>6. ctxFields' \in [Goroutine -> Seq(LogField)]
    BY <1>3, <1>5, <2>2, Zenon
  <2>7. served' \in [Goroutine -> BOOLEAN]
    BY <1>1, <1>3, <2>1, Zenon
  <2> QED
    BY <2>3, <2>4, <2>5, <2>6, <2>7
<1>8. /\ logger'[h] = 0 /\ context'[h] = ctx /\ fields'[h] = <<>> /\ ctxFields'[h] = cf
      /\ served'[h] = served[g]
      /\ \A i \in Goroutine \ {h} :
           /\ logger'[i] = logger[i] /\ context'[i] = context[i] /\ fields'[i] = fields[i]
           /\ ctxFields'[i] = ctxFields[i] /\ served'[i] = served[i]
  BY <1>1, <1>3, Zenon DEF cf
<1>9. LogTypeOK'
  BY <1>1, <1>7, LogTypes, Zenon DEF LogIInv
<1>10. FieldsBehind'
  <2>1. ASSUME NEW i \in Goroutine
        PROVE  fields'[i] = b[logger'[i]] /\ ctxFields'[i] = b[context'[i].logger]
    <3>1. CASE i = h
      BY <1>2, <1>6, <1>8, <3>1, Zenon
    <3>2. CASE i # h
      <4>1. fields[i] = b[logger[i]] /\ ctxFields[i] = b[context[i].logger]
        BY <1>2, Zenon
      <4>2. /\ logger'[i] = logger[i] /\ context'[i] = context[i]
            /\ fields'[i] = fields[i] /\ ctxFields'[i] = ctxFields[i]
        BY <1>8, <3>2
      <4> QED
        BY <4>1, <4>2, Zenon
    <3> QED
      BY <3>1, <3>2
  <2> QED
    BY <1>1, <1>2, <2>1, SameNodes
<1>11. TracedCalls'
  BY <1>8, Zenon DEF LogIInv, TracedCalls
<1> QED
  BY <1>9, <1>10, <1>11 DEF LogIInv

\* A clone keeps the logger or drops it.
LEMMA ClonesAre ==
  ASSUME NEW old, NEW id \in Trace, NEW ctx \in Clones(old, id)
  PROVE  ctx \in [logger : {0, old.logger}, trace : Trace] /\ ctx.trace = id
<1>1. PICK l \in {0, old.logger} : ctx = [logger |-> l, trace |-> id]
  BY Zenon DEF Clones
<1> QED
  BY <1>1, SMT

\* Of a call's context every context that is passed on bears a trace id.
LEMMA PassedOn ==
  ASSUME LogIInv, NEW g \in Goroutine
  PROVE  /\ context[g] \in [logger : {0, context[g].logger}, trace : Trace]
         /\ context[g].trace \in Trace
         /\ served[g] => context[g].trace \in TraceId
         /\ \A id \in Renamed(context[g].trace) :
              id \in Trace /\ (served[g] => id \in TraceId)
<1>1. context[g] \in [logger : 0 .. Len(node), trace : Trace]
  BY BehindNow, Zenon
<1>2. /\ context[g] \in [logger : {0, context[g].logger}, trace : Trace]
      /\ context[g].trace \in Trace
  BY <1>1, SMT
<1>3. served[g] => context[g].trace \in TraceId
  BY DEF LogIInv, TracedCalls
<1>4. \A id \in Renamed(context[g].trace) : id \in Trace /\ (served[g] => id \in TraceId)
  BY <1>3, LoggerAssumption, Zenon DEF Renamed, Trace, NoTrace
<1> QED
  BY <1>2, <1>3, <1>4

\* Logger keeps its invariant: nodes never change, so every logger stands for the fields
\* it was given.
THEOREM LogInvariance == LogSpec => []LogIInv
<1>1. LogInit => LogIInv
  BY LogInitially
<1>2. LogIInv /\ [LogNext]_logVars => LogIInv'
  <2> SUFFICES ASSUME LogIInv, [LogNext]_logVars PROVE LogIInv'
    OBVIOUS
  <2>1. ASSUME NEW g \in Goroutine, NEW k \in FieldKey \cup {""}, NEW v \in FieldValue,
               With(g, k, v)
        PROVE  LogIInv'
    <3>1. k \in Key
      BY Zenon DEF Key
    <3> QED
      BY <2>1, <3>1, WithStep, Zenon
  <2>2. ASSUME NEW g \in Goroutine, WithLogger(g) \/ GetLogger(g)
        PROVE  LogIInv'
    BY <2>2, WithLoggerStep, GetLoggerStep, Zenon
  <2>3. ASSUME NEW g \in Goroutine, NEW h \in Goroutine, Go(g, h)
        PROVE  LogIInv'
    BY <2>3, PassedOn, StartStep, Zenon DEF Go
  <2>4. ASSUME NEW g \in Goroutine, NEW h \in Goroutine, CloneContext(g, h)
        PROVE  LogIInv'
    <3>1. PICK ctx \in Clones(context[g], context[g].trace) : Start(g, h, ctx)
      BY <2>4, Zenon DEF CloneContext
    <3>2. /\ ctx \in [logger : {0, context[g].logger}, trace : Trace]
          /\ served[g] => ctx.trace \in TraceId
      <4>1. context[g].trace \in Trace /\ (served[g] => context[g].trace \in TraceId)
        BY PassedOn
      <4>2. ctx \in [logger : {0, context[g].logger}, trace : Trace]
              /\ ctx.trace = context[g].trace
        BY <4>1, ClonesAre
      <4> QED
        BY <4>1, <4>2, Zenon
    <3> QED
      BY <3>1, <3>2, StartStep, Zenon
  <2>5. ASSUME NEW g \in Goroutine, NEW h \in Goroutine, Detach(g, h)
        PROVE  LogIInv'
    <3>1. PICK id \in Renamed(context[g].trace) :
            \E ctx \in Clones(context[g], id) : Start(g, h, ctx)
      BY <2>5, Zenon DEF Detach
    <3>2. PICK ctx \in Clones(context[g], id) : Start(g, h, ctx)
      BY <3>1
    <3>3. id \in Trace /\ (served[g] => id \in TraceId)
      BY PassedOn
    <3>4. ctx \in [logger : {0, context[g].logger}, trace : Trace] /\ ctx.trace = id
      BY <3>3, ClonesAre, Zenon
    <3> QED
      BY <3>2, <3>3, <3>4, StartStep, Zenon
  <2>6. ASSUME NEW g \in Goroutine, NEW h \in Goroutine, DetachAndWait(g, h)
        PROVE  LogIInv'
    <3>1. PICK id \in Renamed(context[g].trace) : Start(g, h, [context[g] EXCEPT !.trace = id])
      BY <2>6, Zenon DEF DetachAndWait
    <3>2. /\ id \in Trace /\ (served[g] => id \in TraceId)
          /\ context[g] \in [logger : {0, context[g].logger}, trace : Trace]
      BY PassedOn
    <3> DEFINE ctx == [context[g] EXCEPT !.trace = id]
    <3>3. ctx \in [logger : {0, context[g].logger}, trace : Trace] /\ ctx.trace = id
      BY <3>2, SMT
    <3> HIDE DEF ctx
    <3>4. Start(g, h, ctx)
      BY <3>1 DEF ctx
    <3> QED
      BY <3>2, <3>3, <3>4, StartStep, Zenon
  <2>7. ASSUME NEW g \in Goroutine, NEW sent \in TraceId \cup {""}, Serve(g, sent)
        PROVE  LogIInv'
    <3>1. sent \in Trace
      BY Zenon DEF Trace, NoTrace
    <3> QED
      BY <2>7, <3>1, ServeStep, Zenon
  <2>8. CASE UNCHANGED logVars
    <3>1. UNCHANGED <<node, logger, context, fields, ctxFields, served>>
      BY <2>8 DEF logVars
    <3>2. LogTypeOK'
      BY <3>1, LogTypes, Zenon DEF LogIInv
    <3>3. FieldsBehind'
      <4>1. PICK h \in [0 .. Len(node) -> Seq(LogField)] :
              /\ Behind(h)
              /\ \A i \in Goroutine :
                   fields[i] = h[logger[i]] /\ ctxFields[i] = h[context[i].logger]
        BY BehindNow, Zenon
      <4> QED
        BY <3>1, <4>1, SameNodes
    <3>4. TracedCalls'
      BY <3>1, Zenon DEF LogIInv, TracedCalls
    <3> QED
      BY <3>2, <3>3, <3>4 DEF LogIInv
  <2> QED
    BY <2>1, <2>2, <2>3, <2>4, <2>5, <2>6, <2>7, <2>8, Zenon DEF LogNext
<1> QED
  BY <1>1, <1>2, PTL DEF LogSpec

\* Logger: every variable keeps its type, and a node comes after those before it.
THEOREM LogTypeCorrect == LogSpec => []LogTypeOK
<1>1. LogIInv => LogTypeOK
  BY DEF LogIInv
<1> QED
  BY <1>1, LogInvariance, PTL

\* A line shows the fields of its own logger and its own context, all of them and in their
\* order, and nothing other goroutines have added to loggers that share nodes with them.
THEOREM LinesAreOwn == LogSpec => []LineIsOwn
<1> QED
  BY OwnLines, LogInvariance, PTL

\* Every line written for a call bears the trace id of its context.
THEOREM CallsAreTraced == LogSpec => []CallIsTraced
<1> QED
  BY TracedLines, LogInvariance, PTL
=============================================================================
