------------------------------- MODULE Detach -------------------------------
(***************************************************************************)
(* Packages concurrent and recovery: Detach runs a task in a goroutine of  *)
(* its own and hands its panic to CatchPanic, with the options the caller  *)
(* gave and one more that Detach appends, for the caller's context.        *)
(*                                                                         *)
(* Callers may pass one and the same slice of options.  When that slice    *)
(* has room behind its last element, append writes there, into the array   *)
(* all of them share; a task reads its options only when it panics.  The   *)
(* context of a call is the call itself.                                   *)
(***************************************************************************)
EXTENDS Naturals, Sequences, SequencesExt

CONSTANTS
  Task,          \* calls of Detach
  Sharing,       \* those whose callers pass the same slice
  Given,         \* Given[t]: the options call t passes
  Outer,         \* a context some caller gives with WithContext
  None           \* no context, no callback, or a nil Option

ASSUME DetachAssumption ==
  /\ Sharing \subseteq Task
  /\ \A t, u \in Sharing : Given[t] = Given[u]
  /\ \A t \in Task :
       /\ Given[t] \in Seq(Range(Given[t]))
       /\ \A o \in Range(Given[t]) :
            o.kind \in {"context", "errorLog", "metrics", "callback", "nil"}

VARIABLES
  spare,         \* the slice of Sharing has room for one more element
  slot,          \* what is there: the context of an appended WithContext
  detached,      \* history: the calls of Detach, in order
  task,          \* task[t]: "new", "running", "ended", "panicking" or "caught"
  options,       \* options[t]: "shared" or "own", the array its options are in
  recovered      \* recovered[t]: what CatchPanic did, in order

detachVars == <<spare, slot, detached, task, options, recovered>>

DetachInit ==
  /\ spare \in BOOLEAN /\ slot = None
  /\ detached = <<>>
  /\ task = [t \in Task |-> "new"]
  /\ options = [t \in Task |-> "own"]
  /\ recovered = [t \in Task |-> <<>>]

-----------------------------------------------------------------------------

Call(t) ==
  /\ task[t] = "new"
  /\ task' = [task EXCEPT ![t] = "running"]
  /\ detached' = Append(detached, t)
  /\ UNCHANGED <<spare, recovered>>

\* Mutant: the caller's context is stored for all, once.
DetachFirst(t) ==
  /\ Call(t)
  /\ IF t \in Sharing /\ spare
     THEN /\ slot' = (IF slot = None THEN t ELSE slot)
          /\ options' = [options EXCEPT ![t] = "shared"]
     ELSE UNCHANGED <<slot, options>>

\* recoveryOpts = append(recoveryOpts, recovery.WithContext(ctx)); go func() ...
DetachTask(t) ==
  /\ Call(t)
  /\ IF t \in Sharing /\ spare
     THEN slot' = t /\ options' = [options EXCEPT ![t] = "shared"]
     ELSE UNCHANGED <<slot, options>>

\* The options as they are in memory now.
RecoveryOpts(t) ==
  Append(Given[t], [kind |-> "context", arg |-> IF options[t] = "shared" THEN slot ELSE t])

NoOption == [context |-> None, errorLog |-> FALSE, metrics |-> None, callback |-> None]

\* An Option: it sets one field of the options; nil is skipped.
Apply(opt, o) ==
  CASE o.kind = "context"  -> [opt EXCEPT !.context = o.arg]
    [] o.kind = "errorLog" -> [opt EXCEPT !.errorLog = TRUE]
    [] o.kind = "metrics"  -> [opt EXCEPT !.metrics = o.arg]
    [] o.kind = "callback" -> [opt EXCEPT !.callback = o.arg]
    [] o.kind = "nil"      -> opt

\* One after the other.
MergeOptions(opts) ==
  LET upTo[n \in 0 .. Len(opts)] ==
        IF n = 0 THEN NoOption ELSE Apply(upTo[n - 1], opts[n])
  IN upTo[Len(opts)]

Effect(did, with, context) == [did |-> did, with |-> with, context |-> context]
If(condition, effect) == IF condition THEN <<effect>> ELSE <<>>

\* The task returns, or panics.
Run(t) ==
  /\ task[t] = "running"
  /\ task' = [task EXCEPT ![t] = "ended"] \/ task' = [task EXCEPT ![t] = "panicking"]
  /\ UNCHANGED <<spare, slot, detached, options, recovered>>

\* Mutant: a callback takes the place of the line of the log.
CatchPanicEither(t) ==
  /\ task[t] = "panicking"
  /\ task' = [task EXCEPT ![t] = "caught"]
  /\ LET opt == MergeOptions(RecoveryOpts(t))
     IN recovered' = [recovered EXCEPT ![t] =
          If(opt.metrics # None, Effect("metrics", opt.metrics, None))
            \o If(opt.errorLog /\ opt.callback = None, Effect("log", None, opt.context))
            \o If(opt.callback # None, Effect("callback", opt.callback, opt.context))]
  /\ UNCHANGED <<spare, slot, detached, options>>

\* CatchPanic: the metric, the line of the log, the callback.
CatchPanic(t) ==
  /\ task[t] = "panicking"
  /\ task' = [task EXCEPT ![t] = "caught"]
  /\ LET opt == MergeOptions(RecoveryOpts(t))
     IN recovered' = [recovered EXCEPT ![t] =
          If(opt.metrics # None, Effect("metrics", opt.metrics, None))
            \o If(opt.errorLog, Effect("log", None, opt.context))
            \o If(opt.callback # None, Effect("callback", opt.callback, opt.context))]
  /\ UNCHANGED <<spare, slot, detached, options>>

DetachNext == \E t \in Task : DetachTask(t) \/ Run(t) \/ CatchPanic(t)

DetachSpec == DetachInit /\ [][DetachNext]_detachVars

-----------------------------------------------------------------------------
(* Properties.                                                             *)

\* Every variable keeps its type.
DetachTypeOK ==
  /\ spare \in BOOLEAN /\ slot \in Task \cup {None}
  /\ detached \in Seq(Task)
  /\ task \in [Task -> {"new", "running", "ended", "panicking", "caught"}]
  /\ options \in [Task -> {"own", "shared"}]
  /\ DOMAIN recovered = Task

\* t's panic is told with the context of u.
ToldWith(t, u) ==
  \E i \in DOMAIN recovered[t] : recovered[t][i].did # "metrics" /\ recovered[t][i].context = u

\* A panic is told with the context its task was detached with, not with one its
\* caller gave besides.  The only exception is append's (concurrent.go:20): in a
\* slice with room, a later call that passes the same slice puts its own context in
\* its place; never an earlier one.
PanicContext ==
  \A t \in Task, u \in Task \cup {Outer, None} :
    ToldWith(t, u) =>
      \/ u = t
      \/ /\ spare /\ {t, u} \subseteq Sharing
         /\ \E i, j \in DOMAIN detached : i < j /\ detached[i] = t /\ detached[j] = u

\* The last option of a kind among those given, None if there is none.
LastGiven(t, kind) ==
  LET of == {i \in DOMAIN Given[t] : Given[t][i].kind = kind}
  IN IF of = {} THEN None ELSE Given[t][Max(of)].arg

\* Where in what was done for t's panic something was done.
Done(t, did) == {i \in DOMAIN recovered[t] : recovered[t][i].did = did}

\* Whatever is written into the shared array, a panic that was caught has been told once
\* in each way its caller asked for, with the last callback and the last metric it gave,
\* and in no other; a task that did not panic tells nothing (recovery.go:34-55,
\* recovery_options.go:50-58).
PanicToldAsAsked ==
  \A t \in Task :
    IF task[t] # "caught" THEN recovered[t] = <<>>
    ELSE /\ \A kind \in {"metrics", "callback"} :
              IF LastGiven(t, kind) = None THEN Done(t, kind) = {}
              ELSE \E i \in Done(t, kind) :
                     Done(t, kind) = {i} /\ recovered[t][i].with = LastGiven(t, kind)
         /\ IF \E i \in DOMAIN Given[t] : Given[t][i].kind = "errorLog"
            THEN \E i \in Done(t, "log") : Done(t, "log") = {i}
            ELSE Done(t, "log") = {}
=============================================================================
