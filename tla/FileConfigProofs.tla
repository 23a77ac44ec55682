-------------------------- MODULE FileConfigProofs --------------------------
(***************************************************************************)
(* Proofs about FileConfig, for any readers, edits, versions and           *)
(* capacities.  The first part is about the filter in the refinement       *)
(* mapping, by induction on the length of a sequence; then come the        *)
(* invariant, the theorems it gives and the refinement of ConfigSource.    *)
(***************************************************************************)
EXTENDS FileConfig, TLAPS, SequenceTheorems, WellFoundedInduction

-----------------------------------------------------------------------------
(* Induction, and the filter.                                              *)

\* A non-empty set of numbers has a least one: what the inductions below rest on.
LEMMA LeastNat ==
  ASSUME NEW S, S \subseteq Nat, S # {}
  PROVE  \E n \in S : \A m \in S : n <= m
<1>1. \E n \in S : \A m \in S : <<m, n>> \notin OpToRel(<, Nat)
  BY WFMin, NatLessThanWellFounded, Zenon
<1>2. \A m, n \in Nat : <<m, n>> \notin OpToRel(<, Nat) => ~(m < n)
  BY Zenon DEF OpToRel
<1>3. \E n \in S : \A m \in S : ~(m < n)
  BY <1>1, <1>2, Zenon
<1> QED
  BY <1>3, SMT

\* f[k] is what is kept of the first k elements of s, for k up to n.
KeptIn(f, s, n) ==
  f[0] = <<>> /\ \A k \in 1 .. n : f[k] = Kept(f[k - 1], s[k])

\* There is such an f.
LEMMA KeptExists ==
  ASSUME NEW s \in Seq(Nat), NEW n \in 0 .. Len(s)
  PROVE  \E f \in [0 .. n -> Seq(Nat)] : KeptIn(f, s, n)
<1> DEFINE Missing == {k \in 0 .. Len(s) : ~\E f \in [0 .. k -> Seq(Nat)] : KeptIn(f, s, k)}
<1> SUFFICES ASSUME Missing # {} PROVE FALSE
  OBVIOUS
<1>1. PICK k \in Missing : \A m \in Missing : k <= m
  <2>1. Missing \subseteq Nat
    BY SMT
  <2> QED
    BY <2>1, LeastNat
<1>2. k # 0
  <2> DEFINE f == [j \in 0 .. 0 |-> <<>>]
  <2>1. f \in [0 .. 0 -> Seq(Nat)] /\ KeptIn(f, s, 0)
    BY SMT DEF KeptIn
  <2> QED
    BY <2>1
<1>3. k - 1 \in 0 .. Len(s) /\ k - 1 \notin Missing /\ k \in 1 .. Len(s)
  <2>1. k \in 0 .. Len(s) /\ Len(s) \in Nat
    OBVIOUS
  <2>2. k - 1 \in 0 .. Len(s) /\ k \in 1 .. Len(s) /\ ~(k <= k - 1)
    BY <1>2, <2>1, SMT
  <2> QED
    BY <1>1, <2>2, Zenon
<1>4. PICK g \in [0 .. k - 1 -> Seq(Nat)] : KeptIn(g, s, k - 1)
  BY <1>3
<1> DEFINE f == [j \in 0 .. k |-> IF j = k THEN Kept(g[k - 1], s[k]) ELSE g[j]]
<1>5. f \in [0 .. k -> Seq(Nat)]
  BY <1>3, SMTT(40) DEF Kept
<1>6. KeptIn(f, s, k)
  <2>1. f[0] = <<>>
    BY <1>3, <1>4, SMT DEF KeptIn
  <2>2. \A j \in 1 .. k - 1 : f[j] = Kept(f[j - 1], s[j])
    BY <1>3, <1>4, SMT DEF KeptIn
  <2>3. f[k] = Kept(f[k - 1], s[k])
    BY <1>3, SMT
  <2> HIDE DEF f
  <2> QED
    BY <1>3, <2>1, <2>2, <2>3, SMTT(40) DEF KeptIn
<1> QED
  BY <1>1, <1>5, <1>6

\* Two sequences have the same first n elements.
Alike(s, t, n) == \A k \in 1 .. n : s[k] = t[k]

\* Two of them agree as far as their sequences do.
LEMMA KeptUnique ==
  ASSUME NEW f, NEW g, NEW s, NEW t, NEW n \in Nat, KeptIn(f, s, n), KeptIn(g, t, n),
         Alike(s, t, n)
  PROVE  \A k \in 0 .. n : f[k] = g[k]
<1> DEFINE Differ == {k \in 0 .. n : f[k] # g[k]}
<1> SUFFICES ASSUME Differ # {} PROVE FALSE
  OBVIOUS
<1>1. PICK k \in Differ : \A m \in Differ : k <= m
  <2>1. Differ \subseteq Nat
    BY SMT
  <2> QED
    BY <2>1, LeastNat
<1>2. k # 0
  BY DEF KeptIn
<1>3. k \in 1 .. n /\ k - 1 \in 0 .. n /\ f[k - 1] = g[k - 1]
  BY <1>1, <1>2, SMT
<1> QED
  BY <1>1, <1>3, Zenon DEF KeptIn, Alike

\* What Versions returns.
LEMMA VersionsKept ==
  ASSUME NEW s \in Seq(Nat)
  PROVE  \E f \in [0 .. Len(s) -> Seq(Nat)] :
           KeptIn(f, s, Len(s)) /\ Versions(s) = f[Len(s)]
<1> DEFINE Is(f) == f = [n \in 0 .. Len(s) |-> IF n = 0 THEN <<>> ELSE Kept(f[n - 1], s[n])]
           upTo == CHOOSE f : Is(f)
<1>0. Len(s) \in Nat
  OBVIOUS
<1>1. PICK f \in [0 .. Len(s) -> Seq(Nat)] : KeptIn(f, s, Len(s))
  BY <1>0, KeptExists, SMT
<1>2. Is(f)
  <2>1. \A n \in 0 .. Len(s) : f[n] = IF n = 0 THEN <<>> ELSE Kept(f[n - 1], s[n])
    BY <1>0, <1>1, SMT DEF KeptIn
  <2> QED
    BY <2>1, Zenon
<1>3. Is(upTo)
  BY <1>2, Zenon
<1>4. Versions(s) = upTo[Len(s)]
  BY Zenon DEF Versions
<1>5. KeptIn(upTo, s, Len(s))
  <2>1. \A n \in 0 .. Len(s) : upTo[n] = IF n = 0 THEN <<>> ELSE Kept(upTo[n - 1], s[n])
    BY <1>3, Zenon
  <2> HIDE DEF upTo
  <2> QED
    BY <1>0, <2>1, SMT DEF KeptIn
<1>6. upTo[Len(s)] = f[Len(s)]
  <2>1. \A k \in 0 .. Len(s) : upTo[k] = f[k]
    <3> HIDE DEF upTo
    <3>1. KeptIn(f, s, Len(s)) /\ Alike(s, s, Len(s))
      BY <1>1 DEF Alike
    <3> QED
      BY <1>0, <1>5, <3>1, KeptUnique, Zenon
  <2> QED
    BY <1>0, <2>1, SMT
<1> QED
  BY <1>1, <1>4, <1>6, Zenon

\* The versions are numbers, no more than there are responses; of none there are none.
LEMMA VersionsType ==
  /\ Versions(<<>>) = <<>>
  /\ \A s \in Seq(Nat) : Versions(s) \in Seq(Nat) /\ Len(Versions(s)) <= Len(s)
<1>1. ASSUME NEW s \in Seq(Nat)
      PROVE  /\ Versions(s) \in Seq(Nat) /\ Len(Versions(s)) <= Len(s)
             /\ s = <<>> => Versions(s) = <<>>
  <2>1. PICK f \in [0 .. Len(s) -> Seq(Nat)] :
          KeptIn(f, s, Len(s)) /\ Versions(s) = f[Len(s)]
    BY VersionsKept
  <2>2. \A k \in 0 .. Len(s) : Len(f[k]) <= k
    <3> DEFINE Longer == {k \in 0 .. Len(s) : ~(Len(f[k]) <= k)}
    <3> SUFFICES ASSUME Longer # {} PROVE FALSE
      OBVIOUS
    <3>1. PICK k \in Longer : \A m \in Longer : k <= m
      <4>1. Longer \subseteq Nat
        BY SMT
      <4> QED
        BY <4>1, LeastNat
    <3>2. k # 0
      BY <2>1, SMT DEF KeptIn
    <3>3. k \in 1 .. Len(s) /\ k - 1 \in 0 .. Len(s) /\ Len(f[k - 1]) <= k - 1
      <4>1. k \in 0 .. Len(s) /\ Len(s) \in Nat
        OBVIOUS
      <4>2. k - 1 \in 0 .. Len(s) /\ k \in 1 .. Len(s) /\ ~(k <= k - 1)
        BY <3>2, <4>1, SMT
      <4> QED
        BY <3>1, <4>2, Zenon
    <3>4. f[k] = Kept(f[k - 1], s[k]) /\ f[k - 1] \in Seq(Nat)
      BY <2>1, <3>3, Zenon DEF KeptIn
    <3> QED
      BY <3>1, <3>3, <3>4, SMTT(40) DEF Kept
  <2> QED
    BY <2>1, <2>2, SMT DEF KeptIn
<1>2. <<>> \in Seq(Nat)
  OBVIOUS
<1> QED
  BY <1>1, <1>2, Zenon

\* A response at the end.
LEMMA VersionsAppend ==
  ASSUME NEW s \in Seq(Nat), NEW v \in Nat
  PROVE  Versions(Append(s, v)) = Kept(Versions(s), v)
<1> DEFINE t == Append(s, v)
           n == Len(s)
<1>0. t \in Seq(Nat) /\ n \in Nat /\ Len(t) = n + 1 /\ t[n + 1] = v
      /\ \A k \in 1 .. n : t[k] = s[k]
  BY SMT
<1> HIDE DEF t
<1>1. PICK f : KeptIn(f, s, n) /\ Versions(s) = f[n]
  BY VersionsKept
<1>2. PICK g : KeptIn(g, t, n + 1) /\ Versions(t) = g[n + 1]
  BY <1>0, VersionsKept, Zenon
<1>3. KeptIn(g, t, n)
  BY <1>0, <1>2, SMT DEF KeptIn
<1>4. f[n] = g[n]
  <2>1. Alike(t, s, n)
    BY <1>0 DEF Alike
  <2>a. KeptIn(f, s, n) /\ n \in Nat
    BY <1>0, <1>1, Zenon
  <2> HIDE DEF n
  <2>2. \A k \in 0 .. n : g[k] = f[k]
    BY <1>3, <2>a, <2>1, KeptUnique, Zenon
  <2> QED
    BY <2>a, <2>2, SMT
<1>5. g[n + 1] = Kept(g[n], v)
  BY <1>0, <1>2, SMT DEF KeptIn
<1> QED
  BY <1>1, <1>2, <1>4, <1>5 DEF t

\* Appending to a concatenation.
LEMMA AppendToConcat ==
  ASSUME NEW s \in Seq(Nat), NEW t \in Seq(Nat), NEW v \in Nat
  PROVE  Append(s \o t, v) = s \o Append(t, v)
<1>1. s \o t \in Seq(Nat) /\ <<v>> \in Seq(Nat)
  BY ConcatProperties
<1>2. Append(s \o t, v) = (s \o t) \o <<v>> /\ Append(t, v) = t \o <<v>>
  BY <1>1, AppendIsConcat
<1>3. (s \o t) \o <<v>> = s \o (t \o <<v>>)
  BY <1>1, ConcatAssociative
<1> QED
  BY <1>2, <1>3, Zenon

\* A response taken from the front.
LEMMA VersionsTail ==
  ASSUME NEW s \in Seq(Nat), s # <<>>
  PROVE  Versions(s) = Kept(<<>>, Head(s)) \o Versions(Tail(s))
<1> DEFINE t == Tail(s)
           n == Len(t)
           first == Kept(<<>>, Head(s))
<1>0. t \in Seq(Nat) /\ n \in Nat /\ Len(s) = n + 1 /\ Head(s) = s[1] /\ first \in Seq(Nat)
      /\ \A k \in 1 .. n : t[k] = s[k + 1]
  BY SMT DEF Kept
<1> HIDE DEF t, first
<1>1. PICK f : KeptIn(f, s, n + 1) /\ Versions(s) = f[n + 1]
  BY <1>0, VersionsKept, Zenon
<1>2. PICK g \in [0 .. n -> Seq(Nat)] : KeptIn(g, t, n) /\ Versions(t) = g[n]
  BY <1>0, VersionsKept, Zenon
<1>3. \A k \in 0 .. n : f[k + 1] = first \o g[k]
  <2> DEFINE Differ == {k \in 0 .. n : f[k + 1] # first \o g[k]}
  <2> SUFFICES ASSUME Differ # {} PROVE FALSE
    OBVIOUS
  <2>1. PICK k \in Differ : \A m \in Differ : k <= m
    <3>1. Differ \subseteq Nat
      BY <1>0, SMT
    <3> QED
      BY <3>1, LeastNat
  <2>2. k # 0
    <3>1. f[1] = first /\ g[0] = <<>>
      BY <1>0, <1>1, <1>2, SMT DEF KeptIn, first
    <3>2. f[0 + 1] = first \o g[0]
      BY <1>0, <3>1, SMT
    <3> QED
      BY <3>2
  <2>3. k \in 1 .. n /\ k - 1 \in 0 .. n /\ f[k] = first \o g[k - 1]
    <3>1. k \in 1 .. n /\ k - 1 \in 0 .. n /\ k - 1 \notin Differ /\ (k - 1) + 1 = k
      <4>1. k \in 0 .. n
        OBVIOUS
      <4>2. k \in 1 .. n /\ k - 1 \in 0 .. n /\ ~(k <= k - 1) /\ (k - 1) + 1 = k
        BY <1>0, <2>2, <4>1, SMT
      <4> QED
        BY <2>1, <4>2, Zenon
    <3> QED
      BY <3>1, Zenon
  <2>4. f[k + 1] = Kept(f[k], t[k]) /\ g[k] = Kept(g[k - 1], t[k])
    <3>1. k + 1 \in 1 .. n + 1 /\ (k + 1) - 1 = k
      BY <1>0, <2>3, SMT
    <3> QED
      BY <1>0, <1>1, <1>2, <2>3, <3>1, Zenon DEF KeptIn
  <2>5. g[k - 1] \in Seq(Nat) /\ t[k] \in Nat
    <3>1. t[k] \in Nat
      BY <1>0, <2>3, ElementOfSeq
    <3> QED
      BY <1>2, <2>3, <3>1, Zenon
  <2>6. Kept(first \o g[k - 1], t[k]) = first \o Kept(g[k - 1], t[k])
    BY <1>0, <2>5, AppendToConcat, Zenon DEF Kept
  <2> QED
    BY <2>3, <2>4, <2>6, Zenon
<1> QED
  <2>1. f[n + 1] = first \o g[n]
    BY <1>0, <1>3, SMT
  <2> QED
    BY <1>1, <1>2, <2>1, Zenon DEF t, first
-----------------------------------------------------------------------------
(* The inductive invariant.                                                *)

\* Nothing goes on before the first Watch, and only what is at the path is watched.
Quiet ==
  /\ ~started => /\ events = <<>> /\ handling = "none" /\ sending = <<>>
                 /\ cache = 0 /\ feed = <<>> /\ emitted = 0
  /\ watched => started /\ file # "absent"

\* The listener caches what it is about to send, and sends nothing that is not yet in
\* the file or older than what it sent.
SentInOrder ==
  /\ emitted <= cache \/ cache = 0
  /\ emitted <= version /\ cache <= version
  /\ started => emitted # 0
  /\ sending # <<>> => sending[1] \in {0, cache} /\ handling # "none"

\* The versions in the channel are in the order the file had them.
FeedInOrder ==
  \A i, j \in 1 .. Len(feed) :
    i <= j /\ feed[i] # 0 /\ feed[j] # 0 => feed[i] <= feed[j] /\ feed[j] <= emitted

IInv == TypeOK /\ Quiet /\ SentInOrder /\ FeedInOrder

\* The initial states satisfy the invariant.
LEMMA InitInvariant == Init => IInv
<1> SUFFICES ASSUME Init PROVE IInv
  OBVIOUS
<1>1. TypeOK
  <2>1. version \in Version /\ MaxEvents \in Nat /\ FeedCap \in Nat /\ 0 \in 0 .. MaxVersion
    BY FileAssumption, SMT DEF Init, Version
  <2>2. /\ \A S : <<>> \in Seq(S)
        /\ Len(<<>>) <= MaxEvents /\ Len(<<>>) <= 1 /\ Len(<<>>) <= FeedCap
    BY <2>1, EmptySeq, SMT
  <2> QED
    BY <2>1, <2>2, Zenon DEF Init, TypeOK
<1>2. Quiet /\ SentInOrder /\ FeedInOrder
  BY SMT DEF Init, Quiet, SentInOrder, FeedInOrder
<1> QED
  BY <1>1, <1>2 DEF IInv

\* An event that Notify adds to a queue of events.
LEMMA NotifyType ==
  ASSUME TypeOK, NEW event \in {"write", "rename", "remove"}, Notify(event)
  PROVE  events' \in Seq({"write", "rename", "remove"}) /\ Len(events') <= MaxEvents
<1>1. CASE events' = events
  BY <1>1 DEF TypeOK
<1>2. CASE Len(events) < MaxEvents /\ events' = Append(events, event)
  BY <1>2, FileAssumption, SMT DEF TypeOK
<1> QED
  BY <1>1, <1>2, Zenon DEF Notify

\* An edit keeps the invariant.
LEMMA DiskStep ==
  ASSUME IInv, Disk
  PROVE  IInv'
<1> USE FileAssumption
<1>0. PICK state \in {"whole", "truncated", "absent"},
           event \in {"write", "rename", "remove", "create"}, same \in BOOLEAN :
        /\ Become(state, event, same)
        /\ event = "create" => file = "absent" /\ ~same
        /\ state = "absent" => ~same
  BY Zenon DEF Disk, Truncate, Write, RenameAway, Replace, Unlink, Create
<1>1. /\ version' = version + 1 /\ version < MaxVersion /\ file' = state
      /\ watched' = (watched /\ same) /\ Notify(event)
      /\ UNCHANGED <<started, sending, handling, cache, feed, emitted, got>>
  BY <1>0 DEF Become, listenerVars
<1>2. /\ events' \in Seq({"write", "rename", "remove"}) /\ Len(events') <= MaxEvents
      /\ ~watched => events' = events
  <2>1. CASE ~watched
    BY <1>1, <2>1 DEF Notify, IInv, TypeOK
  <2>2. CASE watched
    <3>1. event # "create"
      BY <1>0, <2>2 DEF IInv, Quiet
    <3> QED
      BY <1>1, <2>2, <3>1, NotifyType DEF IInv
  <2> QED
    BY <2>1, <2>2
<1>3. TypeOK'
  <2>1. version' \in Version /\ watched' \in BOOLEAN
    BY <1>1, SMT DEF IInv, TypeOK, Version
  <2> QED
    BY <1>1, <1>2, <2>1, Zenon DEF IInv, TypeOK
<1>4. Quiet'
  BY <1>0, <1>1, <1>2, Zenon DEF IInv, Quiet
<1>5. SentInOrder'
  BY <1>1, SMT DEF IInv, TypeOK, SentInOrder, Version
<1>6. FeedInOrder'
  BY <1>1, Zenon DEF IInv, FeedInOrder
<1> QED
  BY <1>3, <1>4, <1>5, <1>6 DEF IInv

\* A step of the listener keeps the invariant.
LEMMA ListenStep ==
  ASSUME IInv, Listen
  PROVE  IInv'
<1> USE FileAssumption
<1>1. CASE TakeEvent
  <2>1. started
    BY <1>1 DEF IInv, Quiet, TakeEvent
  <2>2. TypeOK'
    BY <1>1, SMT DEF IInv, TypeOK, TakeEvent
  <2>3. Quiet' /\ FeedInOrder'
    BY <1>1, <2>1, Zenon DEF IInv, Quiet, FeedInOrder, TakeEvent
  <2>4. SentInOrder'
    BY <1>1, Zenon DEF IInv, SentInOrder, TakeEvent
  <2> QED
    BY <2>2, <2>3, <2>4 DEF IInv
<1>2. CASE HandleChange
  <2>1. UNCHANGED <<version, file, watched, events, started, feed, emitted, got>>
    BY <1>2 DEF HandleChange, diskVars
  <2>2. started
    BY <1>2 DEF IInv, Quiet, HandleChange, ShouldCheck
  <2>3. CASE Readable
    <3>1. cache' = version /\ sending' = <<version>> /\ handling' = handling
      BY <1>2, <2>3, Zenon DEF HandleChange
    <3>2. version \in 1 .. MaxVersion /\ handling # "none"
      BY <1>2 DEF IInv, TypeOK, Version, HandleChange, ShouldCheck
    <3>3. TypeOK'
      BY <2>1, <3>1, <3>2, SMT DEF IInv, TypeOK
    <3>4. Quiet' /\ FeedInOrder'
      BY <2>1, <2>2, Zenon DEF IInv, Quiet, FeedInOrder
    <3>5. SentInOrder'
      BY <2>1, <3>1, <3>2, SMT DEF IInv, SentInOrder
    <3> QED
      BY <3>3, <3>4, <3>5 DEF IInv
  <2>4. CASE ~Readable
    <3>1. handling' = "none" /\ UNCHANGED <<cache, sending>> /\ sending = <<>>
      BY <1>2, <2>4, Zenon DEF HandleChange
    <3> QED
      BY <2>1, <2>2, <3>1, Zenon DEF IInv, TypeOK, Quiet, SentInOrder, FeedInOrder
  <2> QED
    BY <2>3, <2>4
<1>3. CASE HandleRemove
  <2>1. /\ UNCHANGED <<version, file, watched, events, started, handling, cache, feed,
                       emitted, got>>
        /\ sending' = <<0>> /\ handling = "remove"
    BY <1>3 DEF HandleRemove, diskVars
  <2>2. started
    BY <2>1 DEF IInv, Quiet
  <2>3. TypeOK'
    BY <2>1, SMT DEF IInv, TypeOK
  <2>4. Quiet' /\ FeedInOrder'
    BY <2>1, <2>2, Zenon DEF IInv, Quiet, FeedInOrder
  <2>5. SentInOrder'
    BY <2>1, SMT DEF IInv, SentInOrder
  <2> QED
    BY <2>3, <2>4, <2>5 DEF IInv
<1>4. CASE Send
  <2>1. /\ UNCHANGED <<version, file, watched, events, started, cache, got>>
        /\ sending # <<>> /\ Len(feed) < FeedCap
        /\ feed' = Append(feed, sending[1])
        /\ emitted' = IF sending[1] = 0 THEN emitted ELSE sending[1]
        /\ sending' = <<>> /\ handling' = "none"
    BY <1>4, SMT DEF Send, diskVars, IInv, TypeOK
  <2>2. /\ sending[1] \in 0 .. MaxVersion /\ sending[1] \in {0, cache} /\ started
        /\ emitted \in 0 .. MaxVersion /\ emitted' \in 0 .. MaxVersion
    BY <2>1, SMT DEF IInv, TypeOK, Quiet, SentInOrder
  <2>3. TypeOK'
    BY <2>1, <2>2, SMT DEF IInv, TypeOK
  <2>4. Quiet'
    BY <2>1, <2>2, Zenon DEF IInv, Quiet
  <2>5. SentInOrder'
    BY <2>1, <2>2, SMT DEF IInv, TypeOK, SentInOrder
  <2>6. FeedInOrder'
    <3>1. emitted <= emitted' /\ (sending[1] # 0 => emitted' = sending[1])
      BY <2>1, <2>2, SMT DEF IInv, TypeOK, SentInOrder
    <3>2. /\ Len(feed') = Len(feed) + 1 /\ feed'[Len(feed) + 1] = sending[1]
          /\ \A i \in 1 .. Len(feed) : feed'[i] = feed[i] /\ feed[i] \in 0 .. MaxVersion
      BY <2>1, <2>2, SMT DEF IInv, TypeOK
    <3>3. \A i \in 1 .. Len(feed) : feed[i] # 0 => feed[i] <= emitted
      BY SMT DEF IInv, TypeOK, FeedInOrder
    <3> SUFFICES ASSUME NEW i \in 1 .. Len(feed'), NEW j \in 1 .. Len(feed'),
                        i <= j, feed'[i] # 0, feed'[j] # 0
                 PROVE  feed'[i] <= feed'[j] /\ feed'[j] <= emitted'
      BY Zenon DEF FeedInOrder
    <3>4. Len(feed) \in Nat
      BY SMT DEF IInv, TypeOK
    <3>5. CASE j \in 1 .. Len(feed)
      <4>1. i \in 1 .. Len(feed)
        BY <3>2, <3>4, <3>5, SMT
      <4>2. feed[i] <= feed[j] /\ feed[j] <= emitted
        BY <3>2, <3>5, <4>1, Zenon DEF IInv, FeedInOrder
      <4> QED
        BY <2>2, <3>1, <3>2, <3>5, <4>1, <4>2, SMT
    <3>6. CASE j = Len(feed) + 1
      BY <2>2, <3>1, <3>2, <3>3, <3>4, <3>6, SMT
    <3> QED
      BY <3>2, <3>4, <3>5, <3>6, SMT
  <2> QED
    BY <2>3, <2>4, <2>5, <2>6 DEF IInv
<1> QED
  BY <1>1, <1>2, <1>3, <1>4 DEF Listen

\* A step keeps the invariant.
LEMMA StepInvariant == IInv /\ [Next]_vars => IInv'
<1> SUFFICES ASSUME IInv, [Next]_vars PROVE IInv'
  OBVIOUS
<1> USE FileAssumption
<1>1. CASE Watch
  <2>1. /\ UNCHANGED <<version, file, events, sending, handling, cache, feed, got>>
        /\ started' = TRUE /\ watched' = TRUE /\ emitted' = version
        /\ ~started /\ file # "absent"
    BY <1>1 DEF Watch, Readable
  <2>2. cache = 0 /\ sending = <<>> /\ feed = <<>> /\ version \in 1 .. MaxVersion
    BY <2>1 DEF IInv, Quiet, TypeOK, Version
  <2>3. TypeOK'
    BY <2>1, <2>2, SMT DEF IInv, TypeOK
  <2>4. Quiet'
    BY <2>1 DEF IInv, Quiet
  <2>5. SentInOrder' /\ FeedInOrder'
    BY <2>1, <2>2, SMT DEF IInv, SentInOrder, FeedInOrder
  <2> QED
    BY <2>3, <2>4, <2>5 DEF IInv
<1>2. CASE Take
  <2>1. /\ UNCHANGED <<version, file, watched, events, started, sending, handling, cache,
                       emitted, got>>
        /\ feed # <<>> /\ feed' = Tail(feed)
    BY <1>2 DEF Take, diskVars
  <2>2. /\ Len(feed) \in Nat /\ Len(feed') = Len(feed) - 1
        /\ \A i \in 1 .. Len(feed') : feed'[i] = feed[i + 1]
    BY <2>1, SMT DEF IInv, TypeOK
  <2>3. TypeOK'
    BY <2>1, SMT DEF IInv, TypeOK
  <2>4. Quiet' /\ SentInOrder'
    BY <2>1, Zenon DEF IInv, Quiet, SentInOrder
  <2>5. FeedInOrder'
    BY <2>1, <2>2, SMT DEF IInv, FeedInOrder
  <2> QED
    BY <2>3, <2>4, <2>5 DEF IInv
<1>3. ASSUME NEW r \in Reader, Get(r)
      PROVE  IInv'
  <2>1. UNCHANGED <<version, file, watched, events, started, sending, handling, cache, feed,
                    emitted>>
    BY <1>3 DEF Get, diskVars, listenerVars
  <2>2. got' \in [Reader -> 0 .. MaxVersion]
    BY <1>3, SMT DEF IInv, TypeOK, Version, Get
  <2> QED
    BY <2>1, <2>2, Zenon DEF IInv, TypeOK, Quiet, SentInOrder, FeedInOrder
<1>4. CASE UNCHANGED vars
  BY <1>4, Zenon DEF vars, diskVars, listenerVars, IInv, TypeOK, Quiet, SentInOrder,
    FeedInOrder
<1> QED
  BY <1>1, <1>2, <1>3, <1>4, DiskStep, ListenStep, Zenon DEF Next
-----------------------------------------------------------------------------
(* The theorems.                                                           *)

\* The invariant holds in every state that the file, the listener and the readers of
\* package config/file reach, for any number of them and any capacities.
THEOREM Invariance == Spec => []IInv
  BY InitInvariant, StepInvariant, PTL DEF Spec

\* Every variable keeps its type; no event of a watch on a file that was not there is
\* delivered.
THEOREM TypeCorrect == Spec => []TypeOK
<1>1. IInv => TypeOK
  BY DEF IInv
<1> QED
  BY <1>1, Invariance, PTL

\* What the channel holds for package config is in the order the file had it, and no
\* older than what was sent last (file_listener.go:89-99).
THEOREM InOrder == Spec => []FeedInOrder
<1>1. IInv => FeedInOrder
  BY DEF IInv
<1> QED
  BY <1>1, Invariance, PTL

\* What GetNotBehindFeed says of one Get.
NotBehind(r) == got'[r] # got[r] /\ got'[r] # 0 => got'[r] >= emitted

\* The same of every step.
LEMMA GetStep ==
  ASSUME IInv, [Next]_vars, NEW r \in Reader
  PROVE  NotBehind(r)
<1>1. CASE got' = got
  BY <1>1 DEF NotBehind
<1>2. ASSUME NEW q \in Reader, Get(q)
      PROVE  NotBehind(r)
  <2>1. /\ got'[r] = got[r] \/ got'[r] = version \/ got'[r] = cache
    BY <1>2, SMT DEF Get, IInv, TypeOK
  <2>2. version >= emitted /\ (cache # 0 => cache >= emitted)
    BY FileAssumption, SMT DEF IInv, SentInOrder, TypeOK, Version
  <2> QED
    BY <2>1, <2>2, Zenon DEF NotBehind
<1>3. Disk => got' = got
  BY Zenon DEF Disk, Truncate, Write, RenameAway, Replace, Unlink, Create, Become
<1>4. Watch \/ Take \/ Listen \/ UNCHANGED vars => got' = got
  BY Zenon DEF Watch, Take, Listen, TakeEvent, HandleChange, HandleRemove, Send, vars
<1> QED
  BY <1>1, <1>2, <1>3, <1>4, Zenon DEF Next

\* Get never answers with something older than what subscribers were sent, also when
\* the file is gone and it falls back to the cache (file.go:46-59,
\* file_listener.go:97-98).
THEOREM NeverBehind == Spec => GetNotBehindFeed
<1>1. IInv /\ [Next]_vars => [\A r \in Reader : NotBehind(r)]_vars
  BY GetStep, Zenon
<1>2. Spec => [][\A r \in Reader : NotBehind(r)]_vars
  BY <1>1, Invariance, PTL DEF Spec
<1> QED
  BY <1>2, Zenon DEF GetNotBehindFeed, NotBehind

-----------------------------------------------------------------------------
(* The refinement of ConfigSource.                                         *)

\* The channel holds numbers.
LEMMA FeedOfNumbers == TypeOK => feed \in Seq(Nat) /\ Len(Content) <= Len(feed)
<1> SUFFICES ASSUME TypeOK PROVE feed \in Seq(Nat) /\ Len(Content) <= Len(feed)
  OBVIOUS
<1>1. feed \in Seq(Nat)
  BY FileAssumption, SMT DEF TypeOK
<1> QED
  BY <1>1, VersionsType, Zenon DEF Content

\* An edit is a change of the source.
LEMMA DiskChanges == IInv /\ Disk => Source!Change
<1> SUFFICES ASSUME IInv, Disk PROVE Source!Change
  OBVIOUS
<1>1. version < MaxVersion /\ version' = version + 1 /\ UNCHANGED <<started, listenerVars>>
  BY Zenon DEF Disk, Truncate, Write, RenameAway, Replace, Unlink, Create, Become
<1>2. UNCHANGED <<emitted, feed, started>>
  BY <1>1 DEF listenerVars
<1> QED
  BY <1>1, <1>2 DEF Source!Change, Content

\* A response sent is a version put on the channel, or nothing when it is the notice
\* of a deletion.
LEMMA SendEmits == IInv /\ Send => (\E v \in Source!Version : Source!Emit(v)) \/ UNCHANGED Source!vars
<1> SUFFICES ASSUME IInv, Send
             PROVE  (\E v \in Source!Version : Source!Emit(v)) \/ UNCHANGED Source!vars
  OBVIOUS
<1> USE FileAssumption
<1> DEFINE v == Head(sending)
<1>1. /\ version' = version /\ started' = started /\ Len(feed) < FeedCap
      /\ feed' = Append(feed, v)
      /\ emitted' = IF v = 0 THEN emitted ELSE v
  BY DEF Send, diskVars
<1>2. v \in {0, cache} /\ v \in Nat /\ started
  <2>1. sending # <<>> /\ sending \in Seq(0 .. MaxVersion)
    BY DEF Send, IInv, TypeOK
  <2>2. v = sending[1] /\ v \in 0 .. MaxVersion
    BY <2>1, SMT
  <2> QED
    BY <2>1, <2>2, SMT DEF IInv, SentInOrder, Quiet
<1>3. Content' = Kept(Content, v)
  BY <1>1, <1>2, FeedOfNumbers, VersionsAppend DEF Content, IInv
<1>4. CASE v = 0
  BY <1>1, <1>3, <1>4 DEF Kept, Source!vars
<1>5. CASE v # 0
  <2>1. v \in Source!Version /\ v \in emitted .. version
    BY <1>2, <1>5, SMT DEF IInv, TypeOK, SentInOrder, Version, Source!Version
  <2>2. Len(Content) < FeedCap
    <3>1. feed \in Seq(Nat) /\ Len(Content) <= Len(feed) /\ Len(feed) \in Nat
      BY FeedOfNumbers DEF IInv
    <3>2. Len(Content) \in Nat
      BY <3>1, VersionsType DEF Content
    <3> QED
      BY <1>1, <3>1, <3>2, SMT
  <2>3. Content' = Append(Content, v)
    BY <1>3, <1>5 DEF Kept
  <2> QED
    BY <1>1, <1>2, <1>5, <2>1, <2>2, <2>3 DEF Source!Emit
<1> QED
  BY <1>4, <1>5

\* What is behind the first element.
LEMMA ConsTail ==
  ASSUME NEW n \in Nat, NEW s \in Seq(Nat)
  PROVE  <<n>> \o s # <<>> /\ Tail(<<n>> \o s) = s
<1>1. /\ <<n>> \in Seq(Nat) /\ <<n>> \o s \in Seq(Nat)
      /\ Len(<<n>> \o s) = Len(s) + 1
      /\ \A i \in 1 .. Len(s) : (<<n>> \o s)[i + 1] = s[i]
  BY SMT
<1> DEFINE t == <<n>> \o s
<1> HIDE DEF t
<1>2. t \in Seq(Nat) /\ Len(t) = Len(s) + 1 /\ \A i \in 1 .. Len(s) : t[i + 1] = s[i]
  BY <1>1 DEF t
<1>3. t # <<>> /\ Tail(t) = s
  BY <1>2, SMTT(40)
<1> QED
  BY <1>3 DEF t

\* A response taken is a version taken, or nothing when it is a notice.
LEMMA TakeTakes == IInv /\ Take => Source!Take \/ UNCHANGED Source!vars
<1> SUFFICES ASSUME IInv, Take PROVE Source!Take \/ UNCHANGED Source!vars
  OBVIOUS
<1>1. /\ version' = version /\ started' = started /\ emitted' = emitted
      /\ feed # <<>> /\ feed' = Tail(feed)
  BY DEF Take, diskVars
<1>2. feed \in Seq(Nat) /\ Tail(feed) \in Seq(Nat) /\ Head(feed) \in Nat
  BY <1>1, FeedOfNumbers, HeadTailProperties DEF IInv
<1>3. Content = Kept(<<>>, Head(feed)) \o Content' /\ Content' \in Seq(Nat)
  BY <1>1, <1>2, VersionsTail, VersionsType DEF Content
<1>4. CASE Head(feed) = 0
  <2>1. Content = Content'
    BY <1>3, <1>4, ConcatEmptySeq DEF Kept
  <2> QED
    BY <1>1, <2>1 DEF Source!vars
<1>5. CASE Head(feed) # 0
  <2>1. Kept(<<>>, Head(feed)) = <<Head(feed)>>
    BY <1>5, SMT DEF Kept
  <2>2. Content # <<>> /\ Tail(Content) = Content'
    BY <1>2, <1>3, <2>1, ConsTail, Zenon
  <2> QED
    BY <1>1, <2>2 DEF Source!Take
<1> QED
  BY <1>4, <1>5

\* Every step is a step of the source or changes nothing of it.
LEMMA StepRefines == IInv /\ [Next]_vars => [Source!Next]_Source!vars
<1> SUFFICES ASSUME IInv, [Next]_vars PROVE Source!Next \/ UNCHANGED Source!vars
  OBVIOUS
<1>1. CASE Disk
  BY <1>1, DiskChanges DEF Source!Next
<1>2. CASE Watch
  <2>1. Source!Open
    BY <1>2 DEF Watch, Source!Open, Content
  <2> QED
    BY <2>1 DEF Source!Next
<1>3. CASE Send
  BY <1>3, SendEmits, Zenon DEF Source!Next
<1>4. CASE Take
  BY <1>4, TakeTakes, Zenon DEF Source!Next
<1>5. CASE UNCHANGED <<version, started, feed, emitted>>
  BY <1>5 DEF Source!vars, Content
<1>6. TakeEvent \/ HandleChange \/ HandleRemove \/ UNCHANGED vars
        => UNCHANGED <<version, started, feed, emitted>>
  BY Zenon DEF TakeEvent, HandleChange, HandleRemove, vars, diskVars, listenerVars
<1>7. (\E r \in Reader : Get(r)) => UNCHANGED <<version, started, feed, emitted>>
  BY Zenon DEF Get, diskVars, listenerVars
<1> QED
  BY <1>1, <1>2, <1>3, <1>4, <1>5, <1>6, <1>7, Zenon DEF Next, Listen

\* The notices of a deletion aside, the listener of package config/file is the source
\* that package config counts on: what it sends was in the file, in that order, and
\* not before Watch was called (file_listener.go:64-99).
THEOREM Refinement == Spec => ImplementsSource
<1>1. Init => Source!Init
  BY VersionsType DEF Init, Source!Init, Content
<1> QED
  BY <1>1, StepRefines, Invariance, PTL DEF Spec, ImplementsSource, Source!Spec
=============================================================================
