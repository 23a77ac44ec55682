------------------------------- MODULE Logger -------------------------------
(***************************************************************************)
(* Package log: structured loggers, the loggers and trace ids contexts     *)
(* carry, and what a line of the log shows.  A Logger is the last node of  *)
(* a list that grows at its end; nil is 0.  Goroutines that start from the *)
(* same logger share its nodes, so a node must never change.  A line is    *)
(* put together only when it is written, from all nodes there are by then. *)
(*                                                                         *)
(* Keys and values are strings, "" being the key of a text.  How a value   *)
(* is converted (error, json.Marshaler, fmt.Stringer) is left out.         *)
(***************************************************************************)
EXTENDS Naturals, Sequences, SequencesExt

CONSTANTS
  Goroutine,     \* handlers of calls, and the goroutines they start
  FieldKey,      \* keys of fields, "TRACE_ID" and "LEVEL" perhaps among them
  FieldValue,    \* their values and texts
  TraceId,       \* trace ids
  MaxNodes       \* bound on the nodes made

ASSUME LoggerAssumption == FieldKey \subseteq STRING /\ "" \notin TraceId /\ MaxNodes \in Nat

VARIABLES
  node,          \* node[n]: key, value and prev of the n-th Logger made
  logger,        \* logger[g]: the Logger g adds fields to
  context,       \* context[g]: g's context, its logger and its trace id ("" if none)
  fields,        \* history: the fields g's logger was given, oldest first
  ctxFields,     \* history: those of the logger in g's context
  served         \* history: g works for a call

logVars == <<node, logger, context, fields, ctxFields, served>>

LogInit ==
  /\ node = <<>>
  /\ logger = [g \in Goroutine |-> 0]
  /\ context = [g \in Goroutine |-> [logger |-> 0, trace |-> ""]]
  /\ fields = [g \in Goroutine |-> <<>>] /\ ctxFields = [g \in Goroutine |-> <<>>]
  /\ served = [g \in Goroutine |-> FALSE]

-----------------------------------------------------------------------------
(* Loggers and contexts.                                                   *)

\* Mutant: a key the last node has already gets its new value there.
WithInPlace(g, k, v) ==
  /\ Len(node) < MaxNodes
  /\ IF logger[g] # 0 /\ node[logger[g]].key = k
     THEN node' = [node EXCEPT ![logger[g]].value = v] /\ UNCHANGED logger
     ELSE /\ node' = Append(node, [key |-> k, value |-> v, prev |-> logger[g]])
          /\ logger' = [logger EXCEPT ![g] = Len(node) + 1]
  /\ fields' = [fields EXCEPT ![g] = Append(@, [key |-> k, value |-> v])]
  /\ UNCHANGED <<context, ctxFields, served>>

\* With, and Text, Format, Err, WithJSON and WithCallerStack, which call it: a new
\* node, of which the old one knows nothing.
With(g, k, v) ==
  /\ Len(node) < MaxNodes
  /\ node' = Append(node, [key |-> k, value |-> v, prev |-> logger[g]])
  /\ logger' = [logger EXCEPT ![g] = Len(node) + 1]
  /\ fields' = [fields EXCEPT ![g] = Append(@, [key |-> k, value |-> v])]
  /\ UNCHANGED <<context, ctxFields, served>>

\* ctx = WithLogger(ctx, l): nil leaves the context as it is.
WithLogger(g) ==
  /\ logger[g] # 0
  /\ context' = [context EXCEPT ![g].logger = logger[g]]
  /\ ctxFields' = [ctxFields EXCEPT ![g] = fields[g]]
  /\ UNCHANGED <<node, logger, fields, served>>

\* l = GetLogger(ctx)
GetLogger(g) ==
  /\ logger' = [logger EXCEPT ![g] = context[g].logger]
  /\ fields' = [fields EXCEPT ![g] = ctxFields[g]]
  /\ UNCHANGED <<node, context, ctxFields, served>>

\* g starts a goroutine h with a context; h begins with New, the nil logger.
Start(g, h, ctx) ==
  /\ g # h
  /\ logger' = [logger EXCEPT ![h] = 0]
  /\ context' = [context EXCEPT ![h] = ctx]
  /\ fields' = [fields EXCEPT ![h] = <<>>]
  /\ ctxFields' = [ctxFields EXCEPT ![h] = IF ctx.logger = 0 THEN <<>> ELSE ctxFields[g]]
  /\ served' = [served EXCEPT ![h] = served[g]]
  /\ UNCHANGED node

\* With g's own context.
Go(g, h) == Start(g, h, context[g])

\* trpc.CloneContext and codec.WithCloneContextAndMessage keep of a context what they
\* please, its logger or not; the trace id is the caller's business.
Clones(ctx, trace) == {[logger |-> l, trace |-> trace] : l \in {0, ctx.logger}}

\* Mutant: the trace id is left to trpc.
CloneContextBare(g, h) ==
  \E ctx \in Clones(context[g], "") : Start(g, h, ctx)

\* CloneContextForConcurrency and CloneContextForDetach, whose copyTracing takes the
\* trace id over.
CloneContext(g, h) ==
  \E ctx \in Clones(context[g], context[g].trace) : Start(g, h, ctx)

\* A context with a trace id gets another one for the new goroutine.
Renamed(trace) == IF trace = "" THEN {""} ELSE TraceId

\* concurrent.Detach
Detach(g, h) ==
  \E id \in Renamed(context[g].trace) :
    \E ctx \in Clones(context[g], id) : Start(g, h, ctx)

\* concurrent.DetachAndWait, one of its tasks.
DetachAndWait(g, h) ==
  \E id \in Renamed(context[g].trace) : Start(g, h, [context[g] EXCEPT !.trace = id])

\* The trace id of a call: the one its metadata brought; without any, or with one
\* that cannot be read, trace.EnsureTraceID makes one.  Ids that are sent are not
\* empty: callers send those of EnsureTraceID.
Traced(sent) == IF sent = "" THEN TraceId ELSE {sent}

\* serverFilter, before the handler: the context of a new call.
Serve(g, sent) ==
  /\ ~served[g]
  /\ \E id \in Traced(sent) : context' = [context EXCEPT ![g].trace = id]
  /\ served' = [served EXCEPT ![g] = TRUE]
  /\ UNCHANGED <<node, logger, fields, ctxFields>>

-----------------------------------------------------------------------------
(* A line of the log.                                                      *)

\* The nodes of l, newest first.
Chain(l) ==
  LET from[n \in 0 .. Len(node)] ==
        IF n = 0 THEN <<>>
        ELSE <<[key |-> node[n].key, value |-> node[n].value]>> \o from[node[n].prev]
  IN from[l]

\* jsonvalue: a key gets a value, its old one is gone.
MustSet(json, f) ==
  [k \in DOMAIN json \cup {f.key} |-> IF k = f.key THEN f.value ELSE json[k]]

\* iterateFields: the values of the nodes without a key, in their order, ...
Texts(nodes) ==
  LET upTo[n \in 0 .. Len(nodes)] ==
        IF n = 0 THEN <<>>
        ELSE IF nodes[n].key = "" THEN Append(upTo[n - 1], nodes[n].value)
        ELSE upTo[n - 1]
  IN upTo[Len(nodes)]

\* ... and the others set in an object, one after the other.
Object(level, nodes) ==
  LET upTo[n \in 0 .. Len(nodes)] ==
        IF n = 0 THEN [LEVEL |-> level]
        ELSE IF nodes[n].key = "" THEN upTo[n - 1]
        ELSE MustSet(upTo[n - 1], nodes[n])
  IN upTo[Len(nodes)]

\* logStringer.String: the nodes of the context's logger and then of the given one, each
\* from the newest to the oldest; the trace id over all; the texts in reverse.
Line(level, ctx, l) ==
  LET all == Chain(ctx.logger) \o Chain(l)
      json == Object(level, all)
  IN [json |-> IF ctx.trace = "" THEN json
               ELSE MustSet(json, [key |-> "TRACE_ID", value |-> ctx.trace]),
      text |-> Reverse(Texts(all))]

LogNext ==
  \E g \in Goroutine :
    \/ \E k \in FieldKey \cup {""}, v \in FieldValue : With(g, k, v)
    \/ WithLogger(g) \/ GetLogger(g)
    \/ \E h \in Goroutine :
         Go(g, h) \/ CloneContext(g, h) \/ Detach(g, h) \/ DetachAndWait(g, h)
    \/ \E sent \in TraceId \cup {""} : Serve(g, sent)

LogSpec == LogInit /\ [][LogNext]_logVars

-----------------------------------------------------------------------------
(* Properties.                                                             *)

LogField == [key : FieldKey \cup {""}, value : FieldValue]

\* Every variable keeps its type; the nodes a node is before were made before it.
LogTypeOK ==
  /\ node \in Seq([key : FieldKey \cup {""}, value : FieldValue, prev : 0 .. MaxNodes])
  /\ \A n \in DOMAIN node : node[n].prev < n
  /\ logger \in [Goroutine -> 0 .. Len(node)]
  /\ context \in [Goroutine -> [logger : 0 .. Len(node), trace : TraceId \cup {""}]]
  /\ fields \in [Goroutine -> Seq(LogField)] /\ ctxFields \in [Goroutine -> Seq(LogField)]
  /\ served \in [Goroutine -> BOOLEAN]

\* The fields that were given to the logger in hand, and then to the one in the context.
Added(g) == fields[g] \o ctxFields[g]

\* What a line of g should show under k: the first value added under k, else what every
\* line has.
Shown(g, k, level) ==
  LET under == {i \in DOMAIN Added(g) : Added(g)[i].key = k}
  IN IF under = {} THEN level ELSE Added(g)[Min(under)].value

\* A line shows the fields that were given to the logger in hand and to the one in
\* the context, all of them and no other, whatever other goroutines have added to
\* loggers they share nodes with since; a key given twice keeps its first value, and
\* the texts stand in the order they were given (structured.go:153-160, 250-277).
LineIsOwn ==
  \A g \in Goroutine :
    LET line == Line("INFO", context[g], logger[g])
        reserved == IF context[g].trace = "" THEN {""} ELSE {"", "TRACE_ID"}
        keys == ({Added(g)[i].key : i \in DOMAIN Added(g)} \cup {"LEVEL"}) \ reserved
    IN /\ line.text = Texts(Added(g))
       /\ DOMAIN line.json \ reserved = keys
       /\ \A k \in keys : line.json[k] = Shown(g, k, "INFO")

\* Every line written for a call, by its handler or by goroutines started from it in
\* whatever chain of go, Detach, DetachAndWait and cloned contexts, bears a trace id,
\* the one in its context, even if a field has that very key
\* (tracelog_filter.go:27-37, log.go:25-45, concurrent.go:16-53, structured.go:279-287).
CallIsTraced ==
  \A g \in Goroutine : served[g] =>
    LET line == Line("INFO", context[g], logger[g])
    IN /\ "TRACE_ID" \in DOMAIN line.json
       /\ line.json["TRACE_ID"] = context[g].trace /\ context[g].trace \in TraceId
=============================================================================
