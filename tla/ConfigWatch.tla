----------------------------- MODULE ConfigWatch ----------------------------
(***************************************************************************)
(* Package config: the calls of Watch and Bind for one key of one source,  *)
(* and the watchAndDispatcher they share.                                  *)
(*                                                                         *)
(* Processes and what each stands for in the code:                         *)
(*   - the source (config.KVConfig, external): moves to a new version and  *)
(*     sends responses on the channel conf.Watch returned;                 *)
(*   - one procedure per call, from conf.Get to the return of Watch;       *)
(*   - the dispatcher goroutine, watchAndDispatcher.watch;                 *)
(*   - per call the decoding goroutine of Watch and the consumer of the    *)
(*     returned channel (for Bind the goroutine of config.go:47).          *)
(*                                                                         *)
(* A configuration value is its version number.  A channel of capacity one *)
(* is the version it buffers, or 0 when it is empty.                       *)
(***************************************************************************)
EXTENDS Naturals, Sequences

CONSTANTS
  Call,          \* the calls of Watch and Bind for the key
  Bound,         \* those made through Bind: their consumer never stops
  MaxVersion,    \* bound on the versions of the source
  Decodable,     \* Decodable[c]: the versions call c can unmarshal
  FeedCap,       \* capacity of the channel conf.Watch returns
  None           \* no call

Version == 1 .. MaxVersion

ASSUME ConfigAssumption ==
  /\ MaxVersion \in Nat \ {0}
  /\ FeedCap \in Nat \ {0}
  /\ Bound \subseteq Call
  /\ Decodable \in [Call -> SUBSET Version]
  /\ None \notin Call

VARIABLES
  latest,        \* version the source is at
  emitted,       \* last version the source has put in the feed
  feed,          \* the channel conf.Watch returned
  pc,            \* where the procedure of each call is
  lock,          \* holder of watchAndDispatcher.lock
  started,       \* watchAndDispatcher.started
  watchErr,      \* watchAndDispatcher.watchErr is not nil
  notifiers,     \* calls with a channel in watchAndDispatcher.notifiers
  notify,        \* the channel of NewNotify, one slot per call
  cur,           \* response the dispatcher is handing out, 0 when it waits
  todo,          \* calls the Range of this response has yet to visit
  spin,          \* call whose full channel the dispatcher loops on
  decoded,       \* value the decoding goroutine is about to send
  watcher,       \* the channel Watch returned, one slot per call
  holder,        \* firstValue, then what the consumer stored in *holder
  pushed,        \* history: the consumer has received at least one update
  opened         \* history: successful calls of conf.Watch

sourceVars   == <<latest, emitted, feed>>
dispatchVars == <<cur, todo, spin>>
openVars     == <<lock, started, watchErr, opened>>
clientVars   == <<decoded, watcher, holder, pushed>>
vars == <<sourceVars, pc, openVars, notifiers, notify, dispatchVars, clientVars>>

Init ==
  /\ latest = 1 /\ emitted = 0 /\ feed = <<>>
  /\ pc = [c \in Call |-> "idle"]
  /\ lock = None /\ started = FALSE /\ watchErr = FALSE /\ opened = 0
  /\ notifiers = {}
  /\ notify = [c \in Call |-> 0]
  /\ cur = 0 /\ todo = {} /\ spin = None
  /\ decoded = [c \in Call |-> 0]
  /\ watcher = [c \in Call |-> 0]
  /\ holder = [c \in Call |-> 0]
  /\ pushed = [c \in Call |-> FALSE]

\* Whether the unmarshaler of a call accepts a value for its type.
CanDecode(c, v) == v \in Decodable[c]

\* updateValue: 0 when the value does not decode.
Decode(c, v) == IF CanDecode(c, v) THEN v ELSE 0

-----------------------------------------------------------------------------
(* The source.  It sends what changed since conf.Watch was called; it may  *)
(* skip versions and repeat one, but never goes back.                      *)

Change ==
  /\ latest < MaxVersion
  /\ latest' = latest + 1
  /\ UNCHANGED <<emitted, feed, pc, openVars, notifiers, notify, dispatchVars,
                 clientVars>>

\* Mutant: the source never waits for room in the feed.
EmitUnbounded(v) ==
  /\ started
  /\ v \in emitted .. latest
  /\ emitted' = v
  /\ feed' = Append(feed, v)
  /\ UNCHANGED <<latest, pc, openVars, notifiers, notify, dispatchVars,
                 clientVars>>

Emit(v) ==
  /\ started
  /\ Len(feed) < FeedCap
  /\ v \in emitted .. latest
  /\ emitted' = v
  /\ feed' = Append(feed, v)
  /\ UNCHANGED <<latest, pc, openVars, notifiers, notify, dispatchVars,
                 clientVars>>

EmitNew == \E v \in Version : v > emitted /\ Emit(v)

-----------------------------------------------------------------------------
(* Watch, up to its return.                                                *)

\* conf.Get and the first decoding: either may fail and end the call.
WatchGet(c) ==
  /\ pc[c] = "idle"
  /\ \/ /\ CanDecode(c, latest)
        /\ holder' = [holder EXCEPT ![c] = latest]
        /\ pc' = [pc EXCEPT ![c] = "got"]
     \/ /\ pc' = [pc EXCEPT ![c] = "failed"]
        /\ UNCHANGED holder
  /\ UNCHANGED <<sourceVars, openVars, notifiers, notify, dispatchVars,
                 decoded, watcher, pushed>>

\* NewNotify.  A Range in progress may or may not come to visit the new entry.
NewNotify(c) ==
  /\ pc[c] = "got"
  /\ notifiers' = notifiers \cup {c}
  /\ \/ UNCHANGED todo
     \/ cur # 0 /\ todo' = todo \cup {c}
  /\ pc' = [pc EXCEPT ![c] = "registered"]
  /\ UNCHANGED <<sourceVars, openVars, notify, cur, spin, clientVars>>

\* DoWatch when the subscription is already running.
DoWatchStarted(c) ==
  /\ pc[c] = "registered" /\ lock = None /\ started
  /\ pc' = [pc EXCEPT ![c] = IF watchErr THEN "failed" ELSE "running"]
  /\ UNCHANGED <<sourceVars, openVars, notifiers, notify, dispatchVars,
                 clientVars>>

\* Mutant: DoWatch tests `started' without taking the lock.
DoWatchOpenUnlocked(c) ==
  /\ pc[c] = "registered" /\ ~started
  /\ lock' = c
  /\ pc' = [pc EXCEPT ![c] = "opening"]
  /\ UNCHANGED <<sourceVars, started, watchErr, opened, notifiers, notify,
                 dispatchVars, clientVars>>

\* DoWatch calls conf.Watch with the lock held.
DoWatchOpen(c) ==
  /\ pc[c] = "registered" /\ lock = None /\ ~started
  /\ lock' = c
  /\ pc' = [pc EXCEPT ![c] = "opening"]
  /\ UNCHANGED <<sourceVars, started, watchErr, opened, notifiers, notify,
                 dispatchVars, clientVars>>

\* conf.Watch succeeded: the subscription reports changes from now on.
DoWatchSucceeds(c) ==
  /\ pc[c] = "opening"
  /\ lock' = None
  /\ started' = TRUE
  /\ opened' = opened + 1
  /\ emitted' = latest
  /\ pc' = [pc EXCEPT ![c] = "running"]
  /\ UNCHANGED <<latest, feed, watchErr, notifiers, notify, dispatchVars,
                 clientVars>>

\* Mutant: the error path returns without unlocking.
DoWatchFailsLocked(c) ==
  /\ pc[c] = "opening"
  /\ watchErr' = TRUE
  /\ pc' = [pc EXCEPT ![c] = "failed"]
  /\ UNCHANGED <<sourceVars, lock, started, opened, notifiers, notify,
                 dispatchVars, clientVars>>

\* conf.Watch failed: the error is kept, and so is the call's notifier.
DoWatchFails(c) ==
  /\ pc[c] = "opening"
  /\ lock' = None
  /\ watchErr' = TRUE
  /\ pc' = [pc EXCEPT ![c] = "failed"]
  /\ UNCHANGED <<sourceVars, started, opened, notifiers, notify, dispatchVars,
                 clientVars>>

DoWatch(c) == DoWatchStarted(c) \/ DoWatchOpen(c)
DoWatchReturn(c) == DoWatchSucceeds(c) \/ DoWatchFails(c)

-----------------------------------------------------------------------------
(* The dispatcher goroutine.                                               *)

DispatchTake ==
  /\ cur = 0 /\ feed # <<>>
  /\ cur' = Head(feed)
  /\ feed' = Tail(feed)
  /\ todo' = notifiers
  /\ UNCHANGED <<latest, emitted, pc, openVars, notifiers, notify, spin,
                 clientVars>>

DispatchDone ==
  /\ cur # 0 /\ todo = {}
  /\ cur' = 0
  /\ UNCHANGED <<sourceVars, pc, openVars, notifiers, notify, todo, spin,
                 clientVars>>

\* writeToChan when the channel has room.
WriteToChan(c) ==
  /\ c \in todo /\ spin = None /\ notify[c] = 0
  /\ notify' = [notify EXCEPT ![c] = cur]
  /\ todo' = todo \ {c}
  /\ UNCHANGED <<sourceVars, pc, openVars, notifiers, cur, spin, clientVars>>

\* Mutant: a response that finds the channel full is dropped.
WriteToChanDrops(c) ==
  /\ c \in todo /\ spin = None /\ notify[c] # 0
  /\ todo' = todo \ {c}
  /\ UNCHANGED <<sourceVars, pc, openVars, notifiers, notify, cur, spin,
                 clientVars>>

\* writeToChan when it is full: the loop on `full' is entered, and nothing in
\* its body assigns `full' or writes the new response.
WriteToChanFull(c) ==
  /\ c \in todo /\ spin = None /\ notify[c] # 0
  /\ spin' = c
  /\ UNCHANGED <<sourceVars, pc, openVars, notifiers, notify, cur, todo,
                 clientVars>>

\* One turn of that loop takes whatever is in the channel and goes round again.
DrainFull(c) ==
  /\ spin = c
  /\ notify' = [notify EXCEPT ![c] = 0]
  /\ UNCHANGED <<sourceVars, pc, openVars, notifiers, dispatchVars, clientVars>>

Dispatch ==
  \/ DispatchTake \/ DispatchDone
  \/ \E c \in Call : WriteToChan(c) \/ WriteToChanFull(c) \/ DrainFull(c)

-----------------------------------------------------------------------------
(* The goroutines of a call that returned.                                 *)

\* Mutant: the error of updateValue is ignored.
DecodeIgnoresError(c) ==
  /\ pc[c] = "running" /\ decoded[c] = 0 /\ notify[c] # 0
  /\ notify' = [notify EXCEPT ![c] = 0]
  /\ decoded' = [decoded EXCEPT ![c] = notify[c]]
  /\ UNCHANGED <<sourceVars, pc, openVars, notifiers, dispatchVars, watcher,
                 holder, pushed>>

\* Mutant: the decoding goroutine stores the value itself when the channel it
\* should send it on is full.
DecodeInPlace(c) ==
  /\ pc[c] = "running" /\ decoded[c] = 0 /\ notify[c] \in Decodable[c]
  /\ notify' = [notify EXCEPT ![c] = 0]
  /\ IF watcher[c] = 0
     THEN decoded' = [decoded EXCEPT ![c] = notify[c]] /\ UNCHANGED <<holder, pushed>>
     ELSE /\ holder' = [holder EXCEPT ![c] = notify[c]]
          /\ pushed' = [pushed EXCEPT ![c] = TRUE]
          /\ UNCHANGED decoded
  /\ UNCHANGED <<sourceVars, pc, openVars, notifiers, dispatchVars, watcher>>

\* The decoding goroutine takes a response; one it cannot decode is dropped.
DecodeUpdate(c) ==
  /\ pc[c] = "running" /\ decoded[c] = 0 /\ notify[c] # 0
  /\ notify' = [notify EXCEPT ![c] = 0]
  /\ decoded' = [decoded EXCEPT ![c] = Decode(c, notify[c])]
  /\ UNCHANGED <<sourceVars, pc, openVars, notifiers, dispatchVars, watcher,
                 holder, pushed>>

\* ch <- holder: blocks while the consumer has not taken the previous value.
SendUpdate(c) ==
  /\ decoded[c] # 0 /\ watcher[c] = 0
  /\ watcher' = [watcher EXCEPT ![c] = decoded[c]]
  /\ decoded' = [decoded EXCEPT ![c] = 0]
  /\ UNCHANGED <<sourceVars, pc, openVars, notifiers, notify, dispatchVars,
                 holder, pushed>>

\* The consumer: for Bind, *holder = v.
ReceiveUpdate(c) ==
  /\ watcher[c] # 0
  /\ holder' = [holder EXCEPT ![c] = watcher[c]]
  /\ watcher' = [watcher EXCEPT ![c] = 0]
  /\ pushed' = [pushed EXCEPT ![c] = TRUE]
  /\ UNCHANGED <<sourceVars, pc, openVars, notifiers, notify, dispatchVars,
                 decoded>>

-----------------------------------------------------------------------------
Source == Change \/ \E v \in Version : Emit(v)

CallStep(c) == WatchGet(c) \/ NewNotify(c) \/ DoWatch(c) \/ DoWatchReturn(c)

Deliver(c) == DecodeUpdate(c) \/ SendUpdate(c) \/ ReceiveUpdate(c)

Next == Source \/ Dispatch \/ \E c \in Call : CallStep(c) \/ Deliver(c)

\* Goroutines that can run do run, a call that started is scheduled, and the
\* source reports its changes: strongly, as it may repeat an old response while
\* the feed is short of room, but not for ever.  Nothing forces the source to
\* change, a call to be made, or the reader of a channel returned by a bare
\* Watch to read it.
Fairness ==
  /\ SF_vars(EmitNew)
  /\ WF_vars(Dispatch)
  /\ \A c \in Call :
       /\ WF_vars(NewNotify(c))
       /\ WF_vars(DoWatch(c))
       /\ WF_vars(DoWatchReturn(c))
       /\ WF_vars(DecodeUpdate(c))
       /\ WF_vars(SendUpdate(c))
  /\ \A c \in Bound : WF_vars(ReceiveUpdate(c))

Spec == Init /\ [][Next]_vars

FairSpec == Spec /\ Fairness

-----------------------------------------------------------------------------
(* Properties.                                                             *)

Slot == Version \cup {0}

\* Every variable keeps its type; the source's channel respects its capacity.
TypeOK ==
  /\ latest \in Version /\ emitted \in Slot
  /\ feed \in Seq(Version) /\ Len(feed) <= FeedCap
  /\ pc \in [Call -> {"idle", "got", "registered", "opening", "running",
                      "failed"}]
  /\ lock \in Call \cup {None} /\ started \in BOOLEAN /\ watchErr \in BOOLEAN
  /\ notifiers \subseteq Call /\ notify \in [Call -> Slot]
  /\ cur \in Slot /\ todo \subseteq Call /\ spin \in Call \cup {None}
  /\ decoded \in [Call -> Slot] /\ watcher \in [Call -> Slot]
  /\ holder \in [Call -> Slot] /\ pushed \in [Call -> BOOLEAN]
  /\ opened \in Nat

\* The versions on their way to call c, from the one it holds back to the one
\* the dispatcher has in hand; 0 where there is none.  The adopted first value
\* is not part of the order, see ConfigView.
Pipeline(c) == <<IF pushed[c] THEN holder[c] ELSE 0,
                 watcher[c], decoded[c], notify[c], cur>>

\* No stage of config.go:113-123, config_watcher.go:58-67 or the Bind goroutine
\* lets a response overtake an older one: nearer the caller is never newer.
PipelineOrdered ==
  \A c \in Call :
    /\ \A i, j \in 1 .. 5 :
         i < j /\ Pipeline(c)[j] # 0 => Pipeline(c)[i] <= Pipeline(c)[j]
    /\ \A i \in 1 .. 5 : /\ Pipeline(c)[i] <= emitted
                        /\ \A k \in 1 .. Len(feed) : Pipeline(c)[i] <= feed[k]

\* The feed itself is in order, and the source never ran ahead of itself.
FeedOrdered ==
  /\ \A i, j \in 1 .. Len(feed) : i < j => feed[i] <= feed[j]
  /\ \A k \in 1 .. Len(feed) : feed[k] <= emitted
  /\ emitted <= latest

\* What a call has reached tells what it may hold: its goroutines only run once
\* it returned, and they only ever handle values the call can decode.
CallConsistent ==
  \A c \in Call :
    /\ decoded[c] \in Decodable[c] \cup {0}
    /\ watcher[c] \in Decodable[c] \cup {0}
    /\ holder[c] \in Decodable[c] \cup {0}
    /\ holder[c] <= latest
    /\ decoded[c] # 0 \/ watcher[c] # 0 \/ pushed[c] => pc[c] = "running"
    /\ pc[c] \in {"got", "registered", "opening", "running"} => holder[c] # 0

\* The lock is held exactly by the call that is opening the subscription, and
\* only while there is none.
LockConsistent ==
  /\ \A c \in Call : pc[c] = "opening" <=> lock = c
  /\ lock # None => ~started
  /\ opened = IF started THEN 1 ELSE 0

\* However many calls race for one key, and however many attempts fail, the
\* source is subscribed to at most once (config.go:95).
SingleSubscription == opened <= 1

\* The inductive invariant the theorems of ConfigWatchProofs rest on.
IInv == TypeOK /\ FeedOrdered /\ PipelineOrdered /\ CallConsistent /\ LockConsistent

View == INSTANCE ConfigView
          WITH view <- [c \in Call |-> IF pc[c] = "running" THEN holder[c] ELSE 0]

\* What callers see is what ConfigView allows: only versions the source has had
\* and the call can decode, and never backwards after the first update.
ImplementsView == View!Spec

\* A call of Watch or Bind that passed conf.Get returns: no other call, failed
\* subscription or stuck dispatcher keeps it waiting on the lock.
CallReturns ==
  \A c \in Call :
    pc[c] \in {"got", "registered", "opening"} ~> pc[c] \in {"running", "failed"}

\* Every decodable response handed out to a bound call reaches its pointer, or
\* is superseded there by a newer one, unless the dispatcher has got stuck.
Delivered ==
  \A c \in Bound, v \in Version :
    pc[c] = "running" /\ c \in todo /\ cur = v /\ v \in Decodable[c]
      ~> (pushed[c] /\ holder[c] >= v) \/ spin # None

\* config_watcher.go:80: when the channel is full its old response is consumed
\* and the newest one written, after which the dispatcher moves on.
FullChannelIsRefreshed == \A c \in Call : spin = c ~> spin # c

\* config.go:79: Watch gets the first configuration and keeps following its
\* changes: a bound pointer reaches the final version of the source as long as
\* the dispatcher is not stuck.
BindFollowsSource ==
  \A c \in Bound :
    pc[c] = "running" /\ latest = MaxVersion
      ~> holder[c] = MaxVersion \/ spin # None

\* config.go:95: the wrapper exists so that one key can serve several consumers:
\* a call that finds the subscription running joins it.
SecondConsumerServed ==
  [][\A c \in Call :
       started /\ pc[c] = "registered" /\ pc'[c] # pc[c] => pc'[c] = "running"]_vars
=============================================================================
