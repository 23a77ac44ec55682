----------------------------- MODULE MetricsLog -----------------------------
(***************************************************************************)
(* Package metrics/log: goroutines report metrics through a channel to one *)
(* goroutine, routine, that counts them and writes the figures of every    *)
(* name to the log once a minute.  The logger may itself report a metric,  *)
(* from that very goroutine, when its own queue is full.                   *)
(*                                                                         *)
(* A metric is known by its place in the order of reports; a counter       *)
(* carries, next to the figures of the code, the metrics it stands for.    *)
(***************************************************************************)
EXTENDS Integers, Sequences, FiniteSets, FiniteSetsExt

CONSTANTS
  Reporter,      \* goroutines that report
  Name,          \* names of metrics that do not begin with "trpc.Log"
  LogMetric,     \* trpc.LogQueueDropNum, which the logger reports
  Value,         \* values of metrics
  Cap,           \* capacity of notify, 1024 in the code
  MaxReports     \* bound on the metrics reported

ASSUME MetricsAssumption ==
  /\ LogMetric \notin Name
  /\ Value \subseteq Int
  /\ Cap \in Nat \ {0} /\ MaxReports \in Nat

VARIABLES
  reported,      \* history: name and value of every metric reported
  sending,       \* sending[r]: the metric r is about to send, 0 when none
  notify,        \* impl.notify
  counters,      \* impl.metrics; a name that is not in the map has Empty
  batch,         \* m in statisticAndLog, the names Range has yet to visit
  logging,       \* routine is in statisticAndLog
  tick,          \* tick.C holds a tick
  queueFull,     \* the queue of the log writer is full
  logged         \* history: metrics that went into a line of the log

vars == <<reported, sending, notify, counters, batch, logging, tick, queueFull, logged>>

Metric == 1 .. MaxReports
Empty == [min |-> 0, max |-> 0, sum |-> 0, count |-> 0, of |-> {}]

Init ==
  /\ reported = <<>> /\ notify = <<>>
  /\ sending = [r \in Reporter |-> 0]
  /\ counters = [n \in Name |-> Empty] /\ batch = [n \in Name |-> Empty]
  /\ logging = FALSE /\ tick = FALSE /\ queueFull = FALSE
  /\ logged = {}

-----------------------------------------------------------------------------
(* Reporting.                                                              *)

\* Mutant: no name is left out.
SkippedNone(n) == FALSE

\* Names that begin with "trpc.Log" are dropped before the channel.
Skipped(n) == n = LogMetric

\* Report, a metric without dimensions; the others are dropped.
Report(r) ==
  /\ sending[r] = 0 /\ Len(reported) < MaxReports
  /\ \E n \in Name, v \in Value :
       /\ ~Skipped(n)
       /\ reported' = Append(reported, [name |-> n, value |-> v])
  /\ sending' = [sending EXCEPT ![r] = Len(reported) + 1]
  /\ UNCHANGED <<notify, counters, batch, logging, tick, queueFull, logged>>

\* Mutant: the send does not mind how much the channel holds.
SendUnbounded(r) ==
  /\ sending[r] # 0
  /\ notify' = Append(notify, sending[r])
  /\ sending' = [sending EXCEPT ![r] = 0]
  /\ UNCHANGED <<reported, counters, batch, logging, tick, queueFull, logged>>

\* impl.notify <- *m
Send(r) ==
  /\ sending[r] # 0 /\ Len(notify) < Cap
  /\ notify' = Append(notify, sending[r])
  /\ sending' = [sending EXCEPT ![r] = 0]
  /\ UNCHANGED <<reported, counters, batch, logging, tick, queueFull, logged>>

-----------------------------------------------------------------------------
(* The goroutine that counts and logs.                                     *)

\* Mutant: a counter starts from zero, not from its first value.
IncrByFromZero(c, i) ==
  LET val == reported[i].value
  IN [min |-> Min({c.min, val}), max |-> Max({c.max, val}),
      sum |-> c.sum + val, count |-> c.count + 1, of |-> c.of \cup {i}]

\* IncrBy: the first value sets all figures, the later ones adjust them.
IncrBy(c, i) ==
  LET val == reported[i].value
  IN IF c.count = 0
     THEN [min |-> val, max |-> val, sum |-> val, count |-> 1, of |-> {i}]
     ELSE [min |-> Min({c.min, val}), max |-> Max({c.max, val}),
           sum |-> c.sum + val, count |-> c.count + 1, of |-> c.of \cup {i}]

\* Mutant: every metric gets a counter of its own, the last one stays.
TakeMetricStores ==
  /\ ~logging /\ notify # <<>>
  /\ counters' = [counters EXCEPT
                    ![reported[Head(notify)].name] = IncrBy(Empty, Head(notify))]
  /\ notify' = Tail(notify)
  /\ UNCHANGED <<reported, sending, batch, logging, tick, queueFull, logged>>

\* m := <-impl.notify; LoadOrStore, IncrBy.
TakeMetric ==
  /\ ~logging /\ notify # <<>>
  /\ counters' = [counters EXCEPT ![reported[Head(notify)].name] = IncrBy(@, Head(notify))]
  /\ notify' = Tail(notify)
  /\ UNCHANGED <<reported, sending, batch, logging, tick, queueFull, logged>>

\* <-tick.C; statisticAndLog puts a new map in place of the old one.
TakeTick ==
  /\ ~logging /\ tick
  /\ tick' = FALSE
  /\ batch' = counters
  /\ counters' = [n \in Name |-> Empty]
  /\ logging' = TRUE
  /\ UNCHANGED <<reported, sending, notify, queueFull, logged>>

\* A line of the log.  With its queue full the logger reports LogMetric and so
\* comes back to Report, which waits for room unless it skips that name.
LogLine(n) ==
  /\ logging /\ batch[n] # Empty
  /\ queueFull => Skipped(LogMetric) \/ Len(notify) < Cap
  /\ logged' = logged \cup batch[n].of
  /\ batch' = [batch EXCEPT ![n] = Empty]
  /\ UNCHANGED <<reported, sending, notify, counters, logging, tick, queueFull>>

LogDone ==
  /\ logging /\ \A n \in Name : batch[n] = Empty
  /\ logging' = FALSE
  /\ UNCHANGED <<reported, sending, notify, counters, batch, tick, queueFull, logged>>

Logging == LogDone \/ \E n \in Name : LogLine(n)

-----------------------------------------------------------------------------
(* The environment.                                                        *)

\* A minute is over; a tick that nobody took yet is not added to.
Minute ==
  /\ ~tick /\ tick' = TRUE
  /\ UNCHANGED <<reported, sending, notify, counters, batch, logging, queueFull, logged>>

\* The log writer falls behind or catches up.
LogQueue ==
  /\ queueFull' = ~queueFull
  /\ UNCHANGED <<reported, sending, notify, counters, batch, logging, tick, logged>>

Next ==
  \/ Minute \/ LogQueue
  \/ TakeMetric \/ TakeTick \/ Logging
  \/ \E r \in Reporter : Report(r) \/ Send(r)

Spec == Init /\ [][Next]_vars

\* Go picks at random among the ready cases of a select and serves the senders of
\* a channel in turn; minutes pass.  No one has to report, and the log writer may
\* be behind for ever.
FairSpec ==
  /\ Spec
  /\ WF_vars(Minute) /\ WF_vars(Logging)
  /\ SF_vars(TakeMetric) /\ SF_vars(TakeTick)
  /\ \A r \in Reporter : SF_vars(Send(r))

-----------------------------------------------------------------------------
(* Properties.                                                             *)

Counter == [min : Int, max : Int, sum : Int, count : 0 .. MaxReports, of : SUBSET Metric]

\* Every variable keeps its type; the channel respects its capacity.
TypeOK ==
  /\ reported \in Seq([name : Name, value : Value]) /\ Len(reported) <= MaxReports
  /\ sending \in [Reporter -> 0 .. Len(reported)]
  /\ notify \in Seq(1 .. Len(reported)) /\ Len(notify) <= Cap
  /\ counters \in [Name -> Counter] /\ batch \in [Name -> Counter]
  /\ logging \in BOOLEAN /\ tick \in BOOLEAN /\ queueFull \in BOOLEAN
  /\ logged \subseteq 1 .. Len(reported)

\* The places a metric can be at.
Places(i) ==
  {<<"sending", r>> : r \in {q \in Reporter : sending[q] = i}}
    \cup {<<"notify", k>> : k \in {j \in 1 .. Len(notify) : notify[j] = i}}
    \cup {<<"counted", n>> : n \in {m \in Name : i \in counters[m].of}}
    \cup {<<"batch", n>> : n \in {m \in Name : i \in batch[m].of}}
    \cup {<<"logged", 0>> : x \in {y \in {i} : y \in logged}}

\* Every metric reported is in one place, on its way or in the log: none is lost
\* when the minute changes and none is counted in two minutes, or under a name
\* that is not its own (metrics_log.go:71-103).
CountedOnce ==
  \A i \in 1 .. Len(reported) :
    /\ Cardinality(Places(i)) = 1
    /\ \A n \in Name : i \in counters[n].of \cup batch[n].of => reported[i].name = n

\* The sum of the values of some metrics.
SumOf(metrics, reports) ==
  LET upTo[k \in 0 .. Len(reports)] ==
        IF k = 0 THEN 0
        ELSE upTo[k - 1] + (IF k \in metrics THEN reports[k].value ELSE 0)
  IN upTo[Len(reports)]

\* The figures of a counter, kept up one value at a time, are those of the metrics
\* it stands for (internal_counter.go:17-53).
FiguresRight ==
  \A c \in {counters[n] : n \in Name} \cup {batch[n] : n \in Name} :
    LET values == {reported[i].value : i \in c.of}
    IN /\ c.count = Cardinality(c.of)
       /\ c.sum = SumOf(c.of, reported)
       /\ c.of # {} => c.min = Min(values) /\ c.max = Max(values)

\* A goroutine that reports goes on: the one that empties the channel never waits
\* for room in it, though its logger reports too (metrics_log.go:64-69).
ReportReturns == \A r \in Reporter : sending[r] # 0 ~> sending[r] = 0

\* What was reported gets into the log, even if every minute ends while metrics
\* wait in the channel or lines are being written.
GetsLogged == \A i \in Metric : i \in 1 .. Len(reported) ~> i \in logged
=============================================================================
