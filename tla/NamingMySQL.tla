----------------------------- MODULE NamingMySQL ----------------------------
(***************************************************************************)
(* Package naming/mysql for one service name: server processes register a  *)
(* row in a MySQL table and keep it alive by a heartbeat; the goroutines   *)
(* of one client process select a node from a cache that is refreshed from *)
(* that table.                                                             *)
(*                                                                         *)
(* Time is relative: for each row, the ticks since its update_time_msec;   *)
(* for each cached copy, the ticks since the update time it was read with. *)
(* Ages stop counting at Old.  All hosts are taken to agree on the time.   *)
(***************************************************************************)
EXTENDS Naturals, Sequences

CONSTANTS
  Server,        \* server processes
  Selector,      \* goroutines of a client process that call Select
  Interval,      \* heartbeatInterval
  Live,          \* liveTimeInterval
  Slack,         \* ticks a server process may be late with a step
  MaxDelay,      \* bound on the ticks one Select takes
  MaxRows        \* bound on registrations

ASSUME NamingAssumption ==
  /\ Interval \in Nat \ {0} /\ Live \in Nat /\ Slack \in Nat
  /\ MaxDelay \in Nat /\ MaxRows \in Nat

Row == 1 .. MaxRows
Old == Live + MaxDelay + 1
Age == 0 .. Old
Entry == [row : Row, age : Age]     \* a node read from the table, cached
NoResult == [kind |-> "none", row |-> 0]

VARIABLES
  owner,         \* owner[i]: the server, and so the address, of the i-th row
  age,           \* age[i]: ticks since its update_time_msec
  dereg,         \* rows with a deregister_time_msec
  gone,          \* gone[i]: ticks since then
  node,          \* node[s]: r.nodes of s, the id of its row, 0 when it has none
  inserted,      \* inserted[s]: row inserted and not yet in node[s]
  leaving,       \* leaving[s]: row taken out of node[s], not yet updated
  wait,          \* wait[s]: ticks before the heartbeat goroutine wakes up
  late,          \* late[s]: ticks by which its heartbeat is overdue
  beating,       \* beating[s]: row the heartbeat is about to update
  missed,        \* missed[s]: heartbeats of node[s] that failed in a row
  cache,         \* internal.clients[name]
  pc,            \* where each selector is
  elapsed,       \* elapsed[g]: ticks since it called Select
  list,          \* list[g]: entries it is about to store in the cache
  result         \* result[g]: what Select returned

rows == Len(owner)    \* rows inserted so far

\* The address in a row: its server's, the same in all rows it inserts.
Address(i) == owner[i]

tableVars    == <<owner, age, dereg, gone>>
serverVars   == <<node, inserted, leaving, wait, late, beating, missed>>
selectorVars == <<pc, elapsed, list, result>>
vars == <<tableVars, serverVars, cache, selectorVars>>

Init ==
  /\ owner = <<>>
  /\ age = [i \in Row |-> 0] /\ dereg = {} /\ gone = [i \in Row |-> 0]
  /\ node = [s \in Server |-> 0]
  /\ inserted = [s \in Server |-> 0]
  /\ leaving = [s \in Server |-> 0]
  /\ wait = [s \in Server |-> 0] /\ late = [s \in Server |-> 0]
  /\ beating = [s \in Server |-> 0] /\ missed = [s \in Server |-> 0]
  /\ cache = {}
  /\ pc = [g \in Selector |-> "idle"]
  /\ elapsed = [g \in Selector |-> 0]
  /\ list = [g \in Selector |-> {}]
  /\ result = [g \in Selector |-> NoResult]

-----------------------------------------------------------------------------
(* Time.                                                                   *)

Older(n) == IF n < Old THEN n + 1 ELSE Old
OlderEntries(entries) == {[e EXCEPT !.age = Older(e.age)] : e \in entries}

Busy(g) == pc[g] \in {"query", "fallback", "store"}

\* No server is late by more than Slack, with a heartbeat or with the second half
\* of a Register; no Select takes more than MaxDelay.
Tick ==
  /\ \A s \in Server : /\ wait[s] = 0 => late[s] < Slack
                       /\ inserted[s] # 0 => age[inserted[s]] < Slack
  /\ \A g \in Selector : Busy(g) => elapsed[g] < MaxDelay
  /\ age' = [i \in Row |-> IF i <= rows THEN Older(age[i]) ELSE 0]
  /\ gone' = [i \in Row |-> IF i \in dereg THEN Older(gone[i]) ELSE 0]
  /\ wait' = [s \in Server |-> IF wait[s] > 0 THEN wait[s] - 1 ELSE 0]
  /\ late' = [s \in Server |-> IF wait[s] = 0 THEN late[s] + 1 ELSE 0]
  /\ cache' = OlderEntries(cache)
  /\ list' = [g \in Selector |-> OlderEntries(list[g])]
  /\ elapsed' = [g \in Selector |-> IF Busy(g) THEN elapsed[g] + 1 ELSE elapsed[g]]
  /\ UNCHANGED <<owner, dereg, node, inserted, leaving, beating, missed, pc, result>>

-----------------------------------------------------------------------------
(* A server process.                                                       *)

\* Register: INSERT.  A failure leaves no row and is not shown.
RegisterInsert(s) ==
  /\ inserted[s] = 0 /\ rows < MaxRows
  /\ owner' = Append(owner, s)
  /\ inserted' = [inserted EXCEPT ![s] = rows + 1]
  /\ UNCHANGED <<age, dereg, gone, node, leaving, wait, late, beating, missed,
                 cache, selectorVars>>

\* Register: r.nodes.Store; an earlier row of the service is forgotten.
RegisterStore(s) ==
  /\ inserted[s] # 0
  /\ node' = [node EXCEPT ![s] = inserted[s]]
  /\ inserted' = [inserted EXCEPT ![s] = 0]
  /\ missed' = [missed EXCEPT ![s] = 0]
  /\ UNCHANGED <<tableVars, leaving, wait, late, beating, cache, selectorVars>>

\* Mutant: the node is looked up and stays in the map.
DeregisterLoadKeeps(s) ==
  /\ node[s] # 0 /\ leaving[s] = 0
  /\ leaving' = [leaving EXCEPT ![s] = node[s]]
  /\ UNCHANGED <<tableVars, node, inserted, wait, late, beating, missed, cache,
                 selectorVars>>

\* Deregister: LoadAndDelete.
DeregisterLoad(s) ==
  /\ node[s] # 0 /\ leaving[s] = 0
  /\ leaving' = [leaving EXCEPT ![s] = node[s]]
  /\ node' = [node EXCEPT ![s] = 0]
  /\ UNCHANGED <<tableVars, inserted, wait, late, beating, missed, cache,
                 selectorVars>>

\* Deregister: the UPDATE, which may fail; the row then dies of old age.
DeregisterUpdate(s) ==
  /\ leaving[s] # 0
  /\ leaving' = [leaving EXCEPT ![s] = 0]
  /\ dereg' \in {dereg, dereg \cup {leaving[s]}}
  /\ UNCHANGED <<owner, age, gone, node, inserted, wait, late, beating,
                 missed, cache, selectorVars>>

\* doUpdate wakes up: Range visits the registered node, if there is one.
BeatPick(s) ==
  /\ wait[s] = 0 /\ beating[s] = 0
  /\ IF node[s] # 0
     THEN /\ beating' = [beating EXCEPT ![s] = node[s]]
          /\ UNCHANGED <<wait, late>>
     ELSE /\ wait' = [wait EXCEPT ![s] = Interval]
          /\ late' = [late EXCEPT ![s] = 0]
          /\ UNCHANGED beating
  /\ UNCHANGED <<tableVars, node, inserted, leaving, missed, cache, selectorVars>>

\* How old the time a heartbeat stores may be when its UPDATE takes effect: it is read
\* before Exec, after the goroutine woke up and the row was inserted.
Stamp(s) == {a \in 0 .. late[s] : a <= age[beating[s]]}

\* Mutant: the goroutine backs off after a failed heartbeat.
BeatExecBacksOff(s) ==
  /\ beating[s] # 0
  /\ \/ /\ \E a \in Stamp(s) : age' = [age EXCEPT ![beating[s]] = a]
        /\ missed' = [missed EXCEPT ![s] = 0]
        /\ wait' = [wait EXCEPT ![s] = Interval]
     \/ /\ missed' = [missed EXCEPT ![s] = IF @ < 2 THEN @ + 1 ELSE 2]
        /\ wait' = [wait EXCEPT ![s] = 2 * Interval]
        /\ UNCHANGED age
  /\ beating' = [beating EXCEPT ![s] = 0]
  /\ late' = [late EXCEPT ![s] = 0]
  /\ UNCHANGED <<owner, dereg, gone, node, inserted, leaving, cache, selectorVars>>

\* The UPDATE of the heartbeat, which stores the time whatever else happened to
\* the row; an error is only logged.  Then the goroutine sleeps.
BeatExec(s) ==
  /\ beating[s] # 0
  /\ \/ /\ \E a \in Stamp(s) : age' = [age EXCEPT ![beating[s]] = a]
        /\ missed' = [missed EXCEPT ![s] = 0]
     \/ /\ missed' = [missed EXCEPT ![s] = IF @ < 2 THEN @ + 1 ELSE 2]
        /\ UNCHANGED age
  /\ beating' = [beating EXCEPT ![s] = 0]
  /\ wait' = [wait EXCEPT ![s] = Interval]
  /\ late' = [late EXCEPT ![s] = 0]
  /\ UNCHANGED <<owner, dereg, gone, node, inserted, leaving, cache,
                 selectorVars>>

\* The process dies and comes back with nothing: its rows stay in the table.
Restart(s) ==
  /\ node' = [node EXCEPT ![s] = 0]
  /\ inserted' = [inserted EXCEPT ![s] = 0]
  /\ leaving' = [leaving EXCEPT ![s] = 0]
  /\ beating' = [beating EXCEPT ![s] = 0]
  /\ wait' = [wait EXCEPT ![s] = 0]
  /\ late' = [late EXCEPT ![s] = 0]
  /\ missed' = [missed EXCEPT ![s] = 0]
  /\ UNCHANGED <<tableVars, cache, selectorVars>>

ServerStep(s) ==
  \/ RegisterInsert(s) \/ RegisterStore(s) \/ DeregisterLoad(s)
  \/ DeregisterUpdate(s) \/ BeatPick(s) \/ BeatExec(s) \/ Restart(s)

-----------------------------------------------------------------------------
(* A client process: Select and Report.                                    *)

Return(g, kind, row) ==
  /\ pc' = [pc EXCEPT ![g] = "done"]
  /\ result' = [result EXCEPT ![g] = [kind |-> kind, row |-> row]]

\* Cached nodes whose update time is not older than liveTimeInterval.
Fresh == {e \in cache : e.age <= Live}

\* Mutant: any cached node is good enough.
SelectCachedUnchecked(g) ==
  /\ pc[g] = "idle"
  /\ elapsed' = [elapsed EXCEPT ![g] = 0]
  /\ \/ \E e \in cache : Return(g, "alive", e.row)
     \/ /\ cache = {}
        /\ pc' = [pc EXCEPT ![g] = "query"]
        /\ UNCHANGED result
  /\ UNCHANGED <<tableVars, serverVars, cache, list>>

\* getOneNodeFromCacheAndCheckTimeout: one cached node at random, if it is fresh.
SelectCached(g) ==
  /\ pc[g] = "idle"
  /\ elapsed' = [elapsed EXCEPT ![g] = 0]
  /\ \/ \E e \in Fresh : Return(g, "alive", e.row)
     \/ /\ cache = {} \/ cache # Fresh
        /\ pc' = [pc EXCEPT ![g] = "query"]
        /\ UNCHANGED result
  /\ UNCHANGED <<tableVars, serverVars, cache, list>>

\* Rows the query returns: aliveTime was computed when Select began.
Alive(g) == {i \in 1 .. rows \ dereg : age[i] <= Live + elapsed[g]}

\* Mutant: nodes read from the table are stamped with the current time.
QueryStampsNow(g) ==
  /\ pc[g] = "query"
  /\ \/ /\ pc' = [pc EXCEPT ![g] = "fallback"]
        /\ UNCHANGED list
     \/ /\ Alive(g) # {}
        /\ list' = [list EXCEPT ![g] = {[row |-> i, age |-> 0] : i \in Alive(g)}]
        /\ pc' = [pc EXCEPT ![g] = "store"]
  /\ UNCHANGED <<tableVars, serverVars, cache, elapsed, result>>

\* proxy.Select: it fails, finds nothing, or returns the rows alive.
Query(g) ==
  /\ pc[g] = "query"
  /\ \/ /\ pc' = [pc EXCEPT ![g] = "fallback"]
        /\ UNCHANGED list
     \/ /\ Alive(g) # {}
        /\ list' = [list EXCEPT ![g] = {[row |-> i, age |-> age[i]] : i \in Alive(g)}]
        /\ pc' = [pc EXCEPT ![g] = "store"]
  /\ UNCHANGED <<tableVars, serverVars, cache, elapsed, result>>

\* The flexible answer: any cached node, however old, or an error.
Fallback(g) ==
  /\ pc[g] = "fallback"
  /\ \/ \E e \in cache : Return(g, "flexible", e.row)
     \/ cache = {} /\ Return(g, "error", 0)
  /\ UNCHANGED <<tableVars, serverVars, cache, elapsed, list>>

\* internal.clients.Store, then one of the nodes at random.
SelectStore(g) ==
  /\ pc[g] = "store"
  /\ cache' = list[g]
  /\ \E e \in list[g] : Return(g, "alive", e.row)
  /\ list' = [list EXCEPT ![g] = {}]
  /\ UNCHANGED <<tableVars, serverVars, elapsed>>

\* Report with an error: load the cache and leave out the failed address ...
ReportLoad(g) ==
  /\ pc[g] = "done" /\ result[g].kind \in {"alive", "flexible"}
  /\ list' = [list EXCEPT
                ![g] = {e \in cache : Address(e.row) # Address(result[g].row)}]
  /\ pc' = [pc EXCEPT ![g] = "report"]
  /\ result' = [result EXCEPT ![g] = NoResult]
  /\ elapsed' = [elapsed EXCEPT ![g] = 0]
  /\ UNCHANGED <<tableVars, serverVars, cache>>

\* ... and store what is left, over whatever was stored meanwhile.
ReportStore(g) ==
  /\ pc[g] = "report"
  /\ cache' = list[g]
  /\ list' = [list EXCEPT ![g] = {}]
  /\ pc' = [pc EXCEPT ![g] = "idle"]
  /\ UNCHANGED <<tableVars, serverVars, elapsed, result>>

\* The request succeeded, or Select had returned an error.
Finish(g) ==
  /\ pc[g] = "done"
  /\ pc' = [pc EXCEPT ![g] = "idle"]
  /\ result' = [result EXCEPT ![g] = NoResult]
  /\ elapsed' = [elapsed EXCEPT ![g] = 0]
  /\ UNCHANGED <<tableVars, serverVars, cache, list>>

SelectorStep(g) ==
  \/ SelectCached(g) \/ Query(g) \/ Fallback(g) \/ SelectStore(g)
  \/ ReportLoad(g) \/ ReportStore(g) \/ Finish(g)

Next ==
  \/ Tick
  \/ \E s \in Server : ServerStep(s)
  \/ \E g \in Selector : SelectorStep(g)

Spec == Init /\ [][Next]_vars

\* Time passes and server processes that run do their work.  No one has to
\* register, to deregister or to select.
Fairness ==
  /\ SF_vars(Tick)
  /\ \A s \in Server : /\ WF_vars(RegisterStore(s)) /\ WF_vars(DeregisterUpdate(s))
                       /\ WF_vars(BeatPick(s)) /\ WF_vars(BeatExec(s))

FairSpec == Spec /\ Fairness

-----------------------------------------------------------------------------
(* Properties.                                                             *)

TableTypeOK ==
  /\ owner \in Seq(Server) /\ rows <= MaxRows
  /\ age \in [Row -> Age] /\ gone \in [Row -> Age] /\ dereg \subseteq 1 .. rows

ServerTypeOK ==
  /\ node \in [Server -> 0 .. rows] /\ inserted \in [Server -> 0 .. rows]
  /\ leaving \in [Server -> 0 .. rows] /\ beating \in [Server -> 0 .. rows]
  /\ wait \in [Server -> 0 .. Interval] /\ late \in [Server -> 0 .. Slack]
  /\ missed \in [Server -> 0 .. 2]

ClientTypeOK ==
  /\ cache \subseteq Entry /\ list \in [Selector -> SUBSET Entry]
  /\ pc \in [Selector -> {"idle", "query", "fallback", "store", "done", "report"}]
  /\ elapsed \in [Selector -> 0 .. MaxDelay]
  /\ result \in [Selector -> [kind : {"none", "alive", "flexible", "error"},
                              row : 0 .. MaxRows]]

\* Every variable keeps its type, and no heartbeat is later than assumed.
TypeOK == TableTypeOK /\ ServerTypeOK /\ ClientTypeOK

\* A registered service stays selectable as long as no two heartbeats in a row
\* fail: with mysql.go:18-20, sleeping 2 s after each, 5 s of life outlast one
\* failure and the time from the INSERT to the first heartbeat.
RegisteredIsAlive ==
  \A s \in Server :
    node[s] # 0 /\ missed[s] <= 1 => node[s] \notin dereg /\ age[node[s]] <= Live

\* Unless it has to be flexible, Select returns a node that was heard from at
\* most Live before it was called, and was not deregistered earlier than that,
\* however Select, Report and their writes to the cache interleave
\* (selector.go:35, 42, 83, 103, 114).
FreshSelect ==
  [][\A g \in Selector :
       pc[g] # "done" /\ pc'[g] = "done" /\ result'[g].kind = "alive" =>
         LET i == result'[g].row
         IN /\ age[i] <= Live + elapsed'[g]
            /\ i \in dereg => gone[i] <= Live + elapsed'[g]]_vars

\* A copy of a row, in the cache or on its way there, is never taken to be
\* younger than the row, nor read after the row was deregistered.
CopiesAreHonest ==
  \A e \in cache \cup UNION {list[g] : g \in Selector} :
    /\ e.row <= rows /\ age[e.row] <= e.age
    /\ e.row \in dereg => gone[e.row] <= e.age

\* A row its server began to deregister ends up deregistered or too old to be
\* selected, even if the UPDATE fails or a heartbeat was already under way
\* (registry.go:133, 174-187).
DeregisteredFades ==
  \A s \in Server, i \in Row :
    leaving[s] = i ~> i \in dereg \/ age[i] > Live
=============================================================================
