------------------------- MODULE ConfigWatchProofs --------------------------
(***************************************************************************)
(* Theorems about ConfigWatch for every set of calls, every number of      *)
(* versions, every decodability and every capacity of the source channel.  *)
(***************************************************************************)
EXTENDS ConfigWatch, TLAPS

\* No action leaves the type: in particular every version in a channel is one
\* of the source's and the feed never outgrows its capacity.
THEOREM TypeCorrect == Spec => []TypeOK
<1> USE ConfigAssumption DEF Version, Slot
<1>1. Init => TypeOK
  <2> SUFFICES ASSUME Init
               PROVE  TypeOK
    OBVIOUS
  <2>1. feed \in Seq(Version)
    BY DEF Init
  <2>2. Len(feed) <= FeedCap
    BY DEF Init
  <2>3. /\ started \in BOOLEAN /\ watchErr \in BOOLEAN
        /\ pushed \in [Call -> BOOLEAN]
    BY DEF Init
  <2>4. /\ latest \in Version /\ emitted \in Slot /\ cur \in Slot
        /\ opened \in Nat /\ notifiers \subseteq Call /\ todo \subseteq Call
        /\ lock \in Call \cup {None} /\ spin \in Call \cup {None}
    BY DEF Init
  <2>5. /\ pc \in [Call -> {"idle", "got", "registered", "opening",
                            "running", "failed"}]
        /\ notify \in [Call -> Slot] /\ decoded \in [Call -> Slot]
        /\ watcher \in [Call -> Slot] /\ holder \in [Call -> Slot]
    BY DEF Init
  <2> QED
    BY <2>1, <2>2, <2>3, <2>4, <2>5 DEF TypeOK
<1>2. TypeOK /\ [Next]_vars => TypeOK'
  <2> SUFFICES ASSUME TypeOK, [Next]_vars
               PROVE  TypeOK'
    OBVIOUS
  <2> USE DEF TypeOK, sourceVars, openVars, dispatchVars, clientVars
  <2>1. CASE Change
    BY <2>1 DEF Change
  <2>2. ASSUME NEW v \in Version, Emit(v)
        PROVE  TypeOK'
    <3>1. feed' \in Seq(Version) /\ Len(feed') = Len(feed) + 1
      BY <2>2 DEF Emit
    <3> QED
      BY <2>2, <3>1 DEF Emit
  <2>3. CASE DispatchTake
    <3>1. Head(feed) \in Version /\ Tail(feed) \in Seq(Version)
      BY <2>3 DEF DispatchTake
    <3>2. Len(Tail(feed)) = Len(feed) - 1
      BY <2>3 DEF DispatchTake
    <3> QED
      BY <2>3, <3>1, <3>2 DEF DispatchTake
  <2>4. CASE DispatchDone
    BY <2>4 DEF DispatchDone
  <2> SUFFICES ASSUME NEW c \in Call,
                      \/ WriteToChan(c) \/ WriteToChanFull(c) \/ DrainFull(c)
                      \/ CallStep(c) \/ Deliver(c) \/ UNCHANGED vars
               PROVE  TypeOK'
    <3>1. CASE UNCHANGED vars
      BY <3>1 DEF vars
    <3> QED
      BY <2>1, <2>2, <2>3, <2>4, <3>1 DEF Next, Source, Dispatch
  <2>5. CASE WriteToChan(c)
    BY <2>5 DEF WriteToChan
  <2>6. CASE WriteToChanFull(c)
    BY <2>6 DEF WriteToChanFull
  <2>7. CASE DrainFull(c)
    BY <2>7 DEF DrainFull
  <2>8. CASE WatchGet(c)
    <3>1. pc' \in [Call -> {"idle", "got", "registered", "opening", "running",
                           "failed"}]
      BY <2>8, ZenonT(40) DEF WatchGet
    <3>2. holder' \in [Call -> Slot]
      BY <2>8 DEF WatchGet
    <3> QED
      BY <2>8, <3>1, <3>2 DEF WatchGet
  <2>9. CASE NewNotify(c)
    BY <2>9 DEF NewNotify
  <2>10. CASE DoWatchStarted(c)
    BY <2>10 DEF DoWatchStarted
  <2>11. CASE DoWatchOpen(c)
    BY <2>11 DEF DoWatchOpen
  <2>12. CASE DoWatchSucceeds(c)
    BY <2>12 DEF DoWatchSucceeds
  <2>13. CASE DoWatchFails(c)
    BY <2>13 DEF DoWatchFails
  <2>14. CASE DecodeUpdate(c)
    BY <2>14 DEF DecodeUpdate, Decode, CanDecode
  <2>15. CASE SendUpdate(c)
    BY <2>15 DEF SendUpdate
  <2>16. CASE ReceiveUpdate(c)
    BY <2>16 DEF ReceiveUpdate
  <2>17. CASE UNCHANGED vars
    BY <2>17 DEF vars
  <2> QED
    BY <2>5, <2>6, <2>7, <2>8, <2>9, <2>10, <2>11, <2>12, <2>13, <2>14, <2>15,
       <2>16, <2>17 DEF CallStep, DoWatch, DoWatchReturn, Deliver
<1> QED
  BY <1>1, <1>2, PTL DEF Spec

-----------------------------------------------------------------------------
\* The actions of Next, for the step proofs below.
LEMMA StepCases ==
  ASSUME [Next]_vars
  PROVE  \/ Change \/ DispatchTake \/ DispatchDone \/ UNCHANGED vars
         \/ \E v \in Version : Emit(v)
         \/ \E c \in Call :
              \/ WriteToChan(c) \/ WriteToChanFull(c) \/ DrainFull(c)
              \/ WatchGet(c) \/ NewNotify(c) \/ DoWatchStarted(c)
              \/ DoWatchOpen(c) \/ DoWatchSucceeds(c) \/ DoWatchFails(c)
              \/ DecodeUpdate(c) \/ SendUpdate(c) \/ ReceiveUpdate(c)
<1> QED
  BY DEF Next, Source, Dispatch, CallStep, DoWatch, DoWatchReturn, Deliver

\* The subscription lock: DoWatch is the only code that touches it.
LEMMA LockStep ==
  ASSUME TypeOK, LockConsistent, [Next]_vars
  PROVE  LockConsistent'
<1> USE ConfigAssumption DEF TypeOK, LockConsistent, sourceVars, openVars,
                              dispatchVars, clientVars
<1>1. CASE Change \/ DispatchTake \/ DispatchDone \/ UNCHANGED vars
  BY <1>1 DEF Change, DispatchTake, DispatchDone, vars
<1>2. ASSUME NEW v \in Version, Emit(v)
      PROVE  LockConsistent'
  BY <1>2 DEF Emit
<1> SUFFICES ASSUME NEW c \in Call,
                    \/ WriteToChan(c) \/ WriteToChanFull(c) \/ DrainFull(c)
                    \/ WatchGet(c) \/ NewNotify(c) \/ DoWatchStarted(c)
                    \/ DoWatchOpen(c) \/ DoWatchSucceeds(c) \/ DoWatchFails(c)
                    \/ DecodeUpdate(c) \/ SendUpdate(c) \/ ReceiveUpdate(c)
             PROVE  LockConsistent'
  BY <1>1, <1>2, StepCases
<1>3. CASE WriteToChan(c) \/ WriteToChanFull(c) \/ DrainFull(c)
  BY <1>3 DEF WriteToChan, WriteToChanFull, DrainFull
<1>4. CASE DecodeUpdate(c) \/ SendUpdate(c) \/ ReceiveUpdate(c)
  BY <1>4 DEF DecodeUpdate, SendUpdate, ReceiveUpdate
<1>5. CASE WatchGet(c)
  BY <1>5 DEF WatchGet
<1>6. CASE NewNotify(c)
  BY <1>6 DEF NewNotify
<1>7. CASE DoWatchStarted(c)
  BY <1>7 DEF DoWatchStarted
<1>8. CASE DoWatchOpen(c)
  BY <1>8 DEF DoWatchOpen
<1>9. CASE DoWatchSucceeds(c)
  BY <1>9 DEF DoWatchSucceeds
<1>10. CASE DoWatchFails(c)
  BY <1>10 DEF DoWatchFails
<1> QED
  BY <1>3, <1>4, <1>5, <1>6, <1>7, <1>8, <1>9, <1>10

\* The order of the feed: the source only appends, and only what is newest.
LEMMA FeedStep ==
  ASSUME TypeOK, FeedOrdered, [Next]_vars
  PROVE  FeedOrdered'
<1> USE ConfigAssumption DEF TypeOK, FeedOrdered, sourceVars, Version, Slot
<1>1. CASE Change
  BY <1>1 DEF Change
<1>2. ASSUME NEW v \in Version, Emit(v)
      PROVE  FeedOrdered'
  <2>1. /\ Len(feed') = Len(feed) + 1 /\ Len(feed) \in Nat
        /\ \A i \in 1 .. Len(feed) : feed'[i] = feed[i]
        /\ feed'[Len(feed) + 1] = v
    BY <1>2 DEF Emit
  <2>2. emitted <= v /\ v <= latest /\ emitted' = v /\ latest' = latest
    BY <1>2 DEF Emit
  <2>3. \A k \in 1 .. Len(feed) : feed[k] \in Nat /\ feed[k] <= v
    BY <2>2
  <2> HIDE DEF TypeOK
  <2>4. ASSUME NEW k \in 1 .. Len(feed')
        PROVE  k = Len(feed) + 1 \/ k \in 1 .. Len(feed)
    <3>1. Len(feed) \in Nat /\ k \in 1 .. Len(feed) + 1
      BY <2>1
    <3> QED
      BY <3>1
  <2>5. \A i, j \in 1 .. Len(feed') : i < j => feed'[i] <= feed'[j]
    <3> SUFFICES ASSUME NEW i \in 1 .. Len(feed'), NEW j \in 1 .. Len(feed'),
                        i < j
                 PROVE  feed'[i] <= feed'[j]
      OBVIOUS
    <3>1. i \in 1 .. Len(feed) /\ feed'[i] = feed[i]
      BY <2>1
    <3>2. CASE j = Len(feed) + 1
      BY <2>1, <2>3, <3>1, <3>2
    <3>3. CASE j \in 1 .. Len(feed)
      BY <2>1, <3>1, <3>3
    <3> QED
      BY <2>4, <3>2, <3>3
  <2>6. ASSUME NEW k \in 1 .. Len(feed')
        PROVE  feed'[k] <= emitted'
    <3>1. CASE k = Len(feed) + 1
      BY <2>1, <2>2, <3>1
    <3>2. CASE k \in 1 .. Len(feed)
      BY <2>1, <2>2, <2>3, <3>2
    <3> QED
      BY <2>4, <3>1, <3>2
  <2> QED
    BY <2>2, <2>5, <2>6
<1>3. CASE DispatchTake
  <2>1. /\ Len(feed') = Len(feed) - 1 /\ Len(feed) \in Nat
        /\ \A i \in 1 .. Len(feed) - 1 : feed'[i] = feed[i + 1]
    BY <1>3 DEF DispatchTake
  <2> QED
    BY <1>3, <2>1 DEF DispatchTake
<1>4. CASE UNCHANGED sourceVars
  BY <1>4
<1>5. ASSUME NEW c \in Call, DoWatchSucceeds(c)
      PROVE  FeedOrdered'
  <2>1. \A k \in 1 .. Len(feed) : feed[k] \in Nat
    OBVIOUS
  <2> QED
    BY <1>5, <2>1 DEF DoWatchSucceeds
<1> QED
  BY <1>1, <1>2, <1>3, <1>4, <1>5, StepCases
     DEF DispatchDone, vars, WriteToChan, WriteToChanFull, DrainFull, WatchGet,
         NewNotify, DoWatchStarted, DoWatchOpen, DoWatchFails, DecodeUpdate,
         SendUpdate, ReceiveUpdate

-----------------------------------------------------------------------------
(* The order along the pipeline of one call, stage by stage.               *)

Held(c) == IF pushed[c] THEN holder[c] ELSE 0

Leq(x, y) == y # 0 => x <= y

Within(x) == x <= emitted /\ \A k \in 1 .. Len(feed) : x <= feed[k]

Flow(c) ==
  /\ Leq(Held(c), watcher[c]) /\ Leq(Held(c), decoded[c])
  /\ Leq(Held(c), notify[c]) /\ Leq(Held(c), cur)
  /\ Leq(watcher[c], decoded[c]) /\ Leq(watcher[c], notify[c])
  /\ Leq(watcher[c], cur)
  /\ Leq(decoded[c], notify[c]) /\ Leq(decoded[c], cur)
  /\ Leq(notify[c], cur)
  /\ Within(Held(c)) /\ Within(watcher[c]) /\ Within(decoded[c])
  /\ Within(notify[c]) /\ Within(cur)

\* PipelineOrdered, call by call and without the sequence of stages.
LEMMA FlowIsOrder ==
  PipelineOrdered <=> \A c \in Call : Flow(c)
<1> SUFFICES ASSUME NEW c \in Call
             PROVE  (/\ \A i, j \in 1 .. 5 :
                          i < j /\ Pipeline(c)[j] # 0
                            => Pipeline(c)[i] <= Pipeline(c)[j]
                     /\ \A i \in 1 .. 5 :
                          /\ Pipeline(c)[i] <= emitted
                          /\ \A k \in 1 .. Len(feed) : Pipeline(c)[i] <= feed[k])
                    <=> Flow(c)
  BY DEF PipelineOrdered
<1>1. /\ Pipeline(c)[1] = Held(c) /\ Pipeline(c)[2] = watcher[c]
      /\ Pipeline(c)[3] = decoded[c] /\ Pipeline(c)[4] = notify[c]
      /\ Pipeline(c)[5] = cur
  BY DEF Pipeline, Held
<1> HIDE DEF Pipeline, Held
<1>2. \A i, j \in 1 .. 5 :
        i < j <=> \/ (i = 1 /\ j \in {2, 3, 4, 5}) \/ (i = 2 /\ j \in {3, 4, 5})
                  \/ (i = 3 /\ j \in {4, 5}) \/ (i = 4 /\ j = 5)
  OBVIOUS
<1>3. (\A i, j \in 1 .. 5 :
         i < j /\ Pipeline(c)[j] # 0 => Pipeline(c)[i] <= Pipeline(c)[j])
      <=> /\ Leq(Held(c), watcher[c]) /\ Leq(Held(c), decoded[c])
          /\ Leq(Held(c), notify[c]) /\ Leq(Held(c), cur)
          /\ Leq(watcher[c], decoded[c]) /\ Leq(watcher[c], notify[c])
          /\ Leq(watcher[c], cur)
          /\ Leq(decoded[c], notify[c]) /\ Leq(decoded[c], cur)
          /\ Leq(notify[c], cur)
  BY <1>1, <1>2 DEF Leq
<1>4. \A i \in 1 .. 5 : i \in {1, 2, 3, 4, 5}
  OBVIOUS
<1>5. (\A i \in 1 .. 5 :
         /\ Pipeline(c)[i] <= emitted
         /\ \A k \in 1 .. Len(feed) : Pipeline(c)[i] <= feed[k])
      <=> /\ Within(Held(c)) /\ Within(watcher[c]) /\ Within(decoded[c])
          /\ Within(notify[c]) /\ Within(cur)
  BY <1>1, <1>4 DEF Within
<1> QED
  BY <1>3, <1>5 DEF Flow

\* No step breaks the order: a response enters at the back of the pipeline, and
\* each stage hands on what it has before it accepts the next.
LEMMA FlowStep ==
  ASSUME TypeOK, FeedOrdered, CallConsistent, \A c \in Call : Flow(c),
         [Next]_vars, NEW e \in Call
  PROVE  Flow(e)'
<1> USE DEF sourceVars, openVars, dispatchVars, clientVars
<1>1. /\ watcher[e] \in Nat /\ decoded[e] \in Nat /\ notify[e] \in Nat
      /\ cur \in Nat /\ Held(e) \in Nat /\ emitted \in Nat /\ latest \in Nat
      /\ holder[e] \in Nat
      /\ \A k \in 1 .. Len(feed) : feed[k] \in Nat
      /\ Len(feed) \in Nat
  BY ConfigAssumption DEF TypeOK, Version, Slot, Held
<1>2. Flow(e)
  OBVIOUS
<1>3. ASSUME UNCHANGED <<emitted, feed, pushed, holder, watcher, decoded,
                         notify, cur>>
      PROVE  Flow(e)'
  BY <1>2, <1>3 DEF Flow, Leq, Within, Held
<1>4. ASSUME NEW v \in Version, Emit(v)
      PROVE  Flow(e)'
  <2>1. /\ Len(feed') = Len(feed) + 1
        /\ \A k \in 1 .. Len(feed) : feed'[k] = feed[k]
        /\ feed'[Len(feed) + 1] = v
    BY <1>4 DEF Emit, TypeOK
  <2>2. emitted <= v /\ emitted' = v /\ v \in Nat
    BY <1>1, <1>4 DEF Emit
  <2>3. ASSUME NEW x \in Nat, Within(x)
        PROVE  x <= emitted' /\ \A k \in 1 .. Len(feed') : x <= feed'[k]
    <3>1. x <= v
      BY <1>1, <2>2, <2>3 DEF Within
    <3>2. ASSUME NEW k \in 1 .. Len(feed')
          PROVE  x <= feed'[k]
      <4>1. k \in 1 .. Len(feed) + 1
        BY <2>1
      <4>2. k = Len(feed) + 1 \/ k \in 1 .. Len(feed)
        BY <1>1, <4>1
      <4> QED
        BY <2>1, <2>3, <3>1, <4>2 DEF Within
    <3> QED
      BY <2>2, <3>1, <3>2
  <2>4. UNCHANGED <<pushed, holder, watcher, decoded, notify, cur>>
    BY <1>4 DEF Emit
  <2> QED
    BY <1>1, <1>2, <2>3, <2>4 DEF Flow, Leq, Within, Held
<1>5. CASE DispatchTake
  <2>1. /\ 1 \in 1 .. Len(feed) /\ Head(feed) = feed[1]
        /\ Len(feed') = Len(feed) - 1
        /\ \A k \in 1 .. Len(feed) - 1 : feed'[k] = feed[k + 1]
    BY <1>5 DEF DispatchTake, TypeOK
  <2>2. \A k \in 1 .. Len(feed) - 1 : k + 1 \in 1 .. Len(feed) /\ 1 < k + 1
    BY <1>1
  <2>3. cur = 0 /\ cur' = feed[1] /\ emitted' = emitted
    BY <1>5, <2>1 DEF DispatchTake
  <2>4. ASSUME NEW x \in Nat, Within(x)
        PROVE  /\ x <= cur'
               /\ x <= emitted' /\ \A k \in 1 .. Len(feed') : x <= feed'[k]
    BY <2>1, <2>2, <2>3, <2>4 DEF Within
  <2>5. Within(cur)'
    BY <1>1, <2>1, <2>2, <2>3 DEF Within, FeedOrdered
  <2>6. UNCHANGED <<pushed, holder, watcher, decoded, notify>>
    BY <1>5 DEF DispatchTake
  <2> QED
    BY <1>1, <1>2, <2>4, <2>5, <2>6 DEF Flow, Leq, Within, Held
<1>6. CASE DispatchDone
  <2>1. cur' = 0 /\ UNCHANGED <<emitted, feed, pushed, holder, watcher, decoded,
                                 notify>>
    BY <1>6 DEF DispatchDone
  <2>2. Within(cur)'
    BY <1>1, <2>1 DEF Within
  <2> QED
    BY <1>1, <1>2, <2>1, <2>2 DEF Flow, Leq, Within, Held
<1> SUFFICES ASSUME NEW c \in Call,
                    \/ WriteToChan(c) \/ WriteToChanFull(c) \/ DrainFull(c)
                    \/ WatchGet(c) \/ NewNotify(c) \/ DoWatchStarted(c)
                    \/ DoWatchOpen(c) \/ DoWatchSucceeds(c) \/ DoWatchFails(c)
                    \/ DecodeUpdate(c) \/ SendUpdate(c) \/ ReceiveUpdate(c)
             PROVE  Flow(e)'
  BY <1>3, <1>4, <1>5, <1>6, StepCases DEF Change, vars
<1>7. CASE WriteToChan(c)
  <2>1. /\ notify'[e] = IF e = c THEN cur ELSE notify[e]
        /\ e = c => notify[e] = 0
        /\ UNCHANGED <<emitted, feed, pushed, holder, watcher, decoded, cur>>
    BY <1>7 DEF WriteToChan, TypeOK
  <2> QED
    BY <1>1, <1>2, <2>1 DEF Flow, Leq, Within, Held
<1>8. CASE DrainFull(c)
  <2>1. /\ notify'[e] = IF e = c THEN 0 ELSE notify[e]
        /\ UNCHANGED <<emitted, feed, pushed, holder, watcher, decoded, cur>>
    BY <1>8 DEF DrainFull, TypeOK
  <2> QED
    BY <1>1, <1>2, <2>1 DEF Flow, Leq, Within, Held
<1>9. CASE WatchGet(c)
  <2>1. Held(e)' = Held(e)
    BY <1>9 DEF WatchGet, Held, TypeOK, CallConsistent
  <2>2. UNCHANGED <<emitted, feed, watcher, decoded, notify, cur>>
    BY <1>9 DEF WatchGet
  <2> QED
    BY <1>2, <2>1, <2>2 DEF Flow, Leq, Within
<1>10. CASE WriteToChanFull(c) \/ NewNotify(c) \/ DoWatchStarted(c)
            \/ DoWatchOpen(c) \/ DoWatchFails(c)
  BY <1>3, <1>10 DEF WriteToChanFull, NewNotify, DoWatchStarted, DoWatchOpen,
                     DoWatchFails
<1>11. CASE DoWatchSucceeds(c)
  <2>1. /\ emitted' = latest /\ emitted <= latest
        /\ UNCHANGED <<feed, pushed, holder, watcher, decoded, notify, cur>>
    BY <1>11 DEF DoWatchSucceeds, FeedOrdered
  <2> QED
    BY <1>1, <1>2, <2>1 DEF Flow, Leq, Within, Held
<1>12. CASE DecodeUpdate(c)
  <2>1. /\ e = c => decoded[e] = 0 /\ decoded'[e] \in {0, notify[e]}
                    /\ notify'[e] = 0
        /\ e # c => decoded'[e] = decoded[e] /\ notify'[e] = notify[e]
        /\ UNCHANGED <<emitted, feed, pushed, holder, watcher, cur>>
    BY <1>12 DEF DecodeUpdate, Decode, CanDecode, TypeOK
  <2>2. Within(0)
    BY <1>1 DEF Within
  <2> QED
    BY <1>1, <1>2, <2>1, <2>2 DEF Flow, Leq, Within, Held
<1>13. CASE SendUpdate(c)
  <2>1. /\ e = c => watcher[e] = 0 /\ watcher'[e] = decoded[e]
                    /\ decoded'[e] = 0
        /\ e # c => watcher'[e] = watcher[e] /\ decoded'[e] = decoded[e]
        /\ UNCHANGED <<emitted, feed, pushed, holder, notify, cur>>
    BY <1>13 DEF SendUpdate, TypeOK
  <2>2. Within(0)
    BY <1>1 DEF Within
  <2> QED
    BY <1>1, <1>2, <2>1, <2>2 DEF Flow, Leq, Within, Held
<1>14. CASE ReceiveUpdate(c)
  <2>1. /\ e = c => Held(e)' = watcher[e] /\ watcher'[e] = 0
        /\ e # c => Held(e)' = Held(e) /\ watcher'[e] = watcher[e]
        /\ UNCHANGED <<emitted, feed, decoded, notify, cur>>
    BY <1>14 DEF ReceiveUpdate, TypeOK, Held
  <2>2. Within(0)
    BY <1>1 DEF Within
  <2> QED
    BY <1>1, <1>2, <2>1, <2>2 DEF Flow, Leq, Within
<1> QED
  BY <1>7, <1>8, <1>9, <1>10, <1>11, <1>12, <1>13, <1>14

\* What a call holds fits where it is: values enter a call's goroutines only
\* after it returned and only through its own decoder.
LEMMA CallsStep ==
  ASSUME TypeOK, FeedOrdered, CallConsistent, \A c \in Call : Flow(c),
         [Next]_vars, NEW e \in Call
  PROVE  /\ decoded'[e] \in Decodable[e] \cup {0}
         /\ watcher'[e] \in Decodable[e] \cup {0}
         /\ holder'[e] \in Decodable[e] \cup {0}
         /\ holder'[e] <= latest'
         /\ decoded'[e] # 0 \/ watcher'[e] # 0 \/ pushed'[e] => pc'[e] = "running"
         /\ pc'[e] \in {"got", "registered", "opening", "running"}
              => holder'[e] # 0
<1> DEFINE Goal == /\ decoded'[e] \in Decodable[e] \cup {0}
                   /\ watcher'[e] \in Decodable[e] \cup {0}
                   /\ holder'[e] \in Decodable[e] \cup {0}
                   /\ holder'[e] <= latest'
                   /\ decoded'[e] # 0 \/ watcher'[e] # 0 \/ pushed'[e]
                        => pc'[e] = "running"
                   /\ pc'[e] \in {"got", "registered", "opening", "running"}
                        => holder'[e] # 0
<1> SUFFICES Goal
  OBVIOUS
<1> USE DEF sourceVars, openVars, dispatchVars, clientVars
<1>1. /\ latest \in Nat /\ latest # 0 /\ emitted \in Nat /\ holder[e] \in Nat
      /\ watcher[e] \in Nat /\ decoded[e] \in Nat /\ notify[e] \in Nat
  BY ConfigAssumption DEF TypeOK, Version, Slot
<1>2. /\ watcher[e] <= emitted /\ emitted <= latest
  BY DEF Flow, Within, FeedOrdered
<1>3. ASSUME UNCHANGED <<latest, pc, pushed, holder, watcher, decoded>>
      PROVE  Goal
  BY <1>3 DEF CallConsistent
<1>4. CASE Change
  <2>1. latest' = latest + 1 /\ UNCHANGED <<pc, pushed, holder, watcher, decoded>>
    BY <1>4 DEF Change
  <2> QED
    BY <1>1, <2>1 DEF CallConsistent
<1>5. CASE DispatchTake \/ DispatchDone \/ UNCHANGED vars
  BY <1>3, <1>5 DEF DispatchTake, DispatchDone, vars
<1>6. ASSUME NEW v \in Version, Emit(v)
      PROVE  Goal
  BY <1>3, <1>6 DEF Emit
<1> SUFFICES ASSUME NEW c \in Call,
                    \/ WriteToChan(c) \/ WriteToChanFull(c) \/ DrainFull(c)
                    \/ WatchGet(c) \/ NewNotify(c) \/ DoWatchStarted(c)
                    \/ DoWatchOpen(c) \/ DoWatchSucceeds(c) \/ DoWatchFails(c)
                    \/ DecodeUpdate(c) \/ SendUpdate(c) \/ ReceiveUpdate(c)
             PROVE  Goal
  BY <1>4, <1>5, <1>6, StepCases
<1>7. CASE WriteToChan(c) \/ WriteToChanFull(c) \/ DrainFull(c)
  BY <1>3, <1>7 DEF WriteToChan, WriteToChanFull, DrainFull
<1>8. CASE WatchGet(c)
  <2>1. UNCHANGED <<latest, pushed, watcher, decoded>>
    BY <1>8 DEF WatchGet
  <2>2. CASE pc'[e] = pc[e] /\ holder'[e] = holder[e]
    BY <2>1, <2>2 DEF CallConsistent
  <2>3. CASE /\ pc[e] = "idle" /\ latest \in Decodable[e]
             /\ pc'[e] = "got" /\ holder'[e] = latest
    BY <1>1, <2>1, <2>3 DEF CallConsistent
  <2>4. CASE pc[e] = "idle" /\ pc'[e] = "failed" /\ holder'[e] = holder[e]
    BY <2>1, <2>4 DEF CallConsistent
  <2> QED
    BY <1>8, <2>2, <2>3, <2>4 DEF WatchGet, CanDecode, TypeOK
<1>9. CASE \/ NewNotify(c) \/ DoWatchStarted(c) \/ DoWatchOpen(c)
           \/ DoWatchSucceeds(c) \/ DoWatchFails(c)
  <2>1. UNCHANGED <<latest, pushed, watcher, decoded, holder>>
    BY <1>9 DEF NewNotify, DoWatchStarted, DoWatchOpen, DoWatchSucceeds,
                DoWatchFails
  <2>2. \/ pc'[e] = pc[e]
        \/ /\ pc[e] \in {"got", "registered", "opening"}
           /\ pc'[e] \in {"registered", "opening", "running", "failed"}
    BY <1>9 DEF NewNotify, DoWatchStarted, DoWatchOpen, DoWatchSucceeds,
                DoWatchFails, TypeOK
  <2> QED
    BY <2>1, <2>2 DEF CallConsistent
<1>10. CASE DecodeUpdate(c)
  <2>1. /\ UNCHANGED <<latest, pc, pushed, holder, watcher>>
        /\ \/ decoded'[e] = decoded[e]
           \/ decoded'[e] \in Decodable[e] \cup {0} /\ pc[e] = "running"
    BY <1>10 DEF DecodeUpdate, Decode, CanDecode, TypeOK
  <2> QED
    BY <2>1 DEF CallConsistent
<1>11. CASE SendUpdate(c)
  <2>1. /\ UNCHANGED <<latest, pc, pushed, holder>>
        /\ \/ decoded'[e] = decoded[e] /\ watcher'[e] = watcher[e]
           \/ decoded[e] # 0 /\ decoded'[e] = 0 /\ watcher'[e] = decoded[e]
    BY <1>11 DEF SendUpdate, TypeOK
  <2> QED
    BY <2>1 DEF CallConsistent
<1>12. CASE ReceiveUpdate(c)
  <2>1. UNCHANGED <<latest, pc, decoded>>
    BY <1>12 DEF ReceiveUpdate
  <2>2. CASE e # c
    <3>1. UNCHANGED <<pushed[e], holder[e], watcher[e]>>
      BY <1>12, <2>2 DEF ReceiveUpdate, TypeOK
    <3> QED
      BY <2>1, <3>1 DEF CallConsistent
  <2>3. CASE e = c
    <3>1. watcher[e] # 0 /\ holder'[e] = watcher[e] /\ watcher'[e] = 0
      BY <1>12, <2>3 DEF ReceiveUpdate, TypeOK
    <3> QED
      BY <1>1, <1>2, <2>1, <3>1 DEF CallConsistent
  <2> QED
    BY <2>2, <2>3
<1> QED
  BY <1>7, <1>8, <1>9, <1>10, <1>11, <1>12

-----------------------------------------------------------------------------
\* All of the above at once: IInv holds in every reachable state.
THEOREM Invariance == Spec => []IInv
<1>1. Init => FeedOrdered /\ PipelineOrdered /\ CallConsistent /\ LockConsistent
  <2> SUFFICES ASSUME Init
               PROVE  /\ FeedOrdered /\ \A c \in Call : Flow(c)
                      /\ CallConsistent /\ LockConsistent
    BY FlowIsOrder
  <2>1. Len(feed) = 0
    BY DEF Init
  <2>2. FeedOrdered
    BY <2>1 DEF Init, FeedOrdered
  <2>0. ASSUME NEW c \in Call
        PROVE  /\ ~pushed[c] /\ holder[c] = 0 /\ watcher[c] = 0
               /\ decoded[c] = 0 /\ notify[c] = 0 /\ pc[c] = "idle"
    BY DEF Init
  <2>3. \A c \in Call : Flow(c)
    <3>1. cur = 0 /\ emitted = 0
      BY DEF Init
    <3>2. \A c \in Call : Held(c) = 0
      BY <2>0 DEF Held
    <3>3. Within(0)
      BY <2>1, <3>1 DEF Within
    <3> QED
      BY <2>0, <3>1, <3>2, <3>3 DEF Flow, Leq
  <2>4. CallConsistent
    <3>1. latest = 1
      BY DEF Init
    <3>2. ASSUME NEW c \in Call
          PROVE  decoded[c] # 0 \/ watcher[c] # 0 \/ pushed[c]
                   => pc[c] = "running"
      BY <2>0
    <3>3. \A c \in Call : holder[c] <= latest
      <4>1. \A c \in Call : holder[c] = 0
        BY <2>0
      <4>2. 0 <= latest
        BY <3>1
      <4> QED
        BY <4>1, <4>2, Zenon
    <3>4. ASSUME NEW c \in Call
          PROVE  /\ decoded[c] \in Decodable[c] \cup {0}
                 /\ watcher[c] \in Decodable[c] \cup {0}
                 /\ holder[c] \in Decodable[c] \cup {0}
                 /\ pc[c] \notin {"got", "registered", "opening", "running"}
      BY <2>0
    <3> QED
      BY <3>2, <3>3, <3>4, Zenon DEF CallConsistent
  <2>5. LockConsistent
    BY ConfigAssumption DEF Init, LockConsistent
  <2> QED
    BY <2>2, <2>3, <2>4, <2>5
<1>2. TypeOK /\ TypeOK' /\ IInv /\ [Next]_vars => IInv'
  <2> SUFFICES ASSUME TypeOK, TypeOK', IInv, [Next]_vars
               PROVE  FeedOrdered' /\ PipelineOrdered' /\ CallConsistent'
                      /\ LockConsistent'
    BY DEF IInv
  <2>1. \A c \in Call : Flow(c)
    BY FlowIsOrder DEF IInv
  <2>2. FeedOrdered' /\ LockConsistent'
    BY FeedStep, LockStep DEF IInv
  <2>3. (\A c \in Call : Flow(c))'
    BY <2>1, FlowStep DEF IInv
  <2>4. PipelineOrdered'
    BY <2>3, FlowIsOrder, PTL
  <2>5. CallConsistent'
    BY <2>1, CallsStep DEF IInv, CallConsistent
  <2> QED
    BY <2>2, <2>4, <2>5
<1>3. Spec => []TypeOK
  BY TypeCorrect
<1>4. TypeOK /\ FeedOrdered /\ PipelineOrdered /\ CallConsistent /\ LockConsistent
      => IInv
  BY DEF IInv
<1> QED
  BY <1>1, <1>2, <1>3, <1>4, PTL DEF Spec

\* Updates reach a caller in the order the source sent them.
THEOREM OrderPreserved == Spec => []PipelineOrdered
<1>1. IInv => PipelineOrdered
  BY DEF IInv
<1> QED
  BY <1>1, Invariance, PTL

\* One subscription per key, however many calls race and fail.
THEOREM OneSubscription == Spec => []SingleSubscription
<1>1. IInv => SingleSubscription
  BY DEF IInv, LockConsistent, SingleSubscription
<1> QED
  BY <1>1, Invariance, PTL

-----------------------------------------------------------------------------
\* The goroutines, the lock and the channels implement the promise: every step
\* is one of ConfigView seen through the pointers of the calls that returned.
THEOREM Refinement == Spec => ImplementsView
<1> DEFINE Seen == [c \in Call |-> IF pc[c] = "running" THEN holder[c] ELSE 0]
<1>1. Init => View!Init
  <2> SUFFICES ASSUME Init
               PROVE  View!Init
    OBVIOUS
  <2>1. latest = 1 /\ pushed = [c \in Call |-> FALSE]
    BY DEF Init
  <2>2. Seen = [c \in Call |-> 0]
    BY DEF Init
  <2> QED
    BY <2>1, <2>2 DEF View!Init
<1>2. IInv /\ [Next]_vars => [View!Next]_View!vars
  <2> SUFFICES ASSUME IInv, [Next]_vars
               PROVE  View!Next \/ UNCHANGED <<latest, Seen, pushed>>
    BY DEF View!vars
  <2> USE DEF sourceVars, openVars, dispatchVars, clientVars
  <2>1. TypeOK /\ CallConsistent /\ \A c \in Call : Flow(c)
    BY FlowIsOrder DEF IInv
  <2>2. ASSUME UNCHANGED <<latest, pc, holder, pushed>>
        PROVE  UNCHANGED <<latest, Seen, pushed>>
    BY <2>2
  <2>3. CASE Change
    <3>1. View!Change
      BY <2>3 DEF Change, View!Change
    <3> QED
      BY <3>1 DEF View!Next
  <2>4. ASSUME NEW c \in Call,
               pc[c] \in {"registered", "opening"},
               pc' = [pc EXCEPT ![c] = "running"],
               UNCHANGED <<latest, holder, pushed>>
        PROVE  View!Next
    <3>1. holder[c] \in Decodable[c] /\ holder[c] <= latest
      BY <2>1, <2>4 DEF CallConsistent
    <3>2. Seen[c] = 0 /\ Seen' = [Seen EXCEPT ![c] = holder[c]]
      BY <2>1, <2>4 DEF TypeOK
    <3>3. View!Adopt(c)
      BY <2>4, <3>1, <3>2 DEF View!Adopt
    <3> QED
      BY <3>3 DEF View!Next
  <2>5. ASSUME NEW c \in Call,
               pc[c] # "running", pc'[c] # "running",
               \A e \in Call \ {c} : pc'[e] = pc[e] /\ holder'[e] = holder[e],
               UNCHANGED <<latest, pushed>>
        PROVE  UNCHANGED <<latest, Seen, pushed>>
    BY <2>5
  <2>6. CASE DispatchTake \/ DispatchDone \/ UNCHANGED vars
    BY <2>2, <2>6 DEF DispatchTake, DispatchDone, vars
  <2>7. ASSUME NEW v \in Version, Emit(v)
        PROVE  UNCHANGED <<latest, Seen, pushed>>
    BY <2>2, <2>7 DEF Emit
  <2> SUFFICES ASSUME NEW c \in Call,
                      \/ WriteToChan(c) \/ WriteToChanFull(c) \/ DrainFull(c)
                      \/ WatchGet(c) \/ NewNotify(c) \/ DoWatchStarted(c)
                      \/ DoWatchOpen(c) \/ DoWatchSucceeds(c)
                      \/ DoWatchFails(c) \/ DecodeUpdate(c) \/ SendUpdate(c)
                      \/ ReceiveUpdate(c)
               PROVE  View!Next \/ UNCHANGED <<latest, Seen, pushed>>
    BY <2>3, <2>6, <2>7, StepCases
  <2>8. CASE \/ WriteToChan(c) \/ WriteToChanFull(c) \/ DrainFull(c)
             \/ DecodeUpdate(c) \/ SendUpdate(c)
    BY <2>2, <2>8 DEF WriteToChan, WriteToChanFull, DrainFull, DecodeUpdate,
                      SendUpdate
  <2>9. CASE WatchGet(c) \/ NewNotify(c) \/ DoWatchOpen(c) \/ DoWatchFails(c)
    BY <2>1, <2>5, <2>9 DEF WatchGet, NewNotify, DoWatchOpen, DoWatchFails, TypeOK
  <2>10. CASE DoWatchStarted(c)
    <3>1. CASE watchErr
      BY <2>1, <2>5, <2>10, <3>1 DEF DoWatchStarted, TypeOK
    <3>2. CASE ~watchErr
      BY <2>4, <2>10, <3>2 DEF DoWatchStarted
    <3> QED
      BY <3>1, <3>2
  <2>11. CASE DoWatchSucceeds(c)
    BY <2>4, <2>11 DEF DoWatchSucceeds
  <2>12. CASE ReceiveUpdate(c)
    <3>1. /\ pc[c] = "running" /\ watcher[c] \in Decodable[c]
          /\ holder[c] # 0
      BY <2>1, <2>12 DEF ReceiveUpdate, CallConsistent
    <3>2. watcher[c] <= latest /\ (pushed[c] => watcher[c] >= holder[c])
      <4>1. /\ watcher[c] \in Nat /\ emitted \in Nat /\ latest \in Nat
            /\ holder[c] \in Nat
        BY <2>1, ConfigAssumption DEF TypeOK, Version, Slot
      <4>2. watcher[c] <= emitted /\ emitted <= latest
        BY <2>1 DEF Flow, Within, IInv, FeedOrdered
      <4> QED
        BY <2>1, <2>12, <4>1, <4>2 DEF Flow, Leq, Held, ReceiveUpdate
    <3>3. Seen[c] = holder[c] /\ Seen' = [Seen EXCEPT ![c] = watcher[c]]
      BY <2>1, <2>12, <3>1 DEF ReceiveUpdate, TypeOK
    <3>4. View!Push(c)
      BY <2>12, <3>1, <3>2, <3>3 DEF ReceiveUpdate, View!Push
    <3> QED
      BY <3>4 DEF View!Next
  <2> QED
    BY <2>8, <2>9, <2>10, <2>11, <2>12
<1> QED
  BY <1>1, <1>2, Invariance, PTL DEF Spec, ImplementsView, View!Spec

-----------------------------------------------------------------------------
(* The other side: what package config sees of the source it subscribed to *)
(* is ConfigSource, which config/file implements (FileConfigProofs).       *)

Feed == INSTANCE ConfigSource

\* The source of the model is opened once, by the call that holds the lock, reports
\* versions from that moment on in order, and is only ever read by the dispatcher: so a
\* source that does what ConfigSource says can stand in its place (config_watcher.go:42-67).
THEOREM UsesSource == Spec => Feed!Spec
<1>1. Init => Feed!Init
  BY DEF Init, Feed!Init
<1>2. IInv /\ [Next]_vars => [Feed!Next]_Feed!vars
  <2> SUFFICES ASSUME IInv, [Next]_vars
               PROVE  Feed!Next \/ UNCHANGED <<latest, emitted, feed, started>>
    BY DEF Feed!vars
  <2> USE DEF sourceVars, openVars, dispatchVars, clientVars
  <2>1. CASE Change
    <3>1. Feed!Change
      BY <2>1 DEF Change, Feed!Change
    <3> QED
      BY <3>1 DEF Feed!Next
  <2>2. ASSUME NEW v \in Version, Emit(v)
        PROVE  Feed!Next
    <3>1. Feed!Emit(v)
      BY <2>2 DEF Emit, Feed!Emit
    <3> QED
      BY <3>1 DEF Feed!Next, Feed!Version, Version
  <2>3. CASE DispatchTake
    <3>1. Feed!Take
      BY <2>3 DEF DispatchTake, Feed!Take
    <3> QED
      BY <3>1 DEF Feed!Next
  <2>4. CASE DispatchDone \/ UNCHANGED vars
    BY <2>4 DEF DispatchDone, vars
  <2>5. ASSUME NEW c \in Call, DoWatchSucceeds(c)
        PROVE  Feed!Next
    <3>1. ~started
      BY <2>5, ConfigAssumption DEF IInv, LockConsistent, DoWatchSucceeds
    <3>2. Feed!Open
      BY <2>5, <3>1 DEF DoWatchSucceeds, Feed!Open
    <3> QED
      BY <3>2 DEF Feed!Next
  <2>6. ASSUME NEW c \in Call,
               \/ WriteToChan(c) \/ WriteToChanFull(c) \/ DrainFull(c)
               \/ WatchGet(c) \/ NewNotify(c) \/ DoWatchStarted(c) \/ DoWatchOpen(c)
               \/ DoWatchFails(c) \/ DecodeUpdate(c) \/ SendUpdate(c) \/ ReceiveUpdate(c)
        PROVE  UNCHANGED <<latest, emitted, feed, started>>
    BY <2>6 DEF WriteToChan, WriteToChanFull, DrainFull, WatchGet, NewNotify,
                DoWatchStarted, DoWatchOpen, DoWatchFails, DecodeUpdate, SendUpdate,
                ReceiveUpdate
  <2> QED
    BY <2>1, <2>2, <2>3, <2>4, <2>5, <2>6, StepCases
<1> QED
  BY <1>1, <1>2, Invariance, PTL DEF Spec, Feed!Spec
=============================================================================
