-------------------------- MODULE NamingMySQLProofs -------------------------
(***************************************************************************)
(* Proofs about NamingMySQL, for any servers, selectors, intervals, delays *)
(* and number of rows.  The invariant has five parts; each lemma shows     *)
(* that a step keeps one of them, and the theorems at the end read the     *)
(* properties off.                                                         *)
(***************************************************************************)
EXTENDS NamingMySQL, Integers, TLAPS

-----------------------------------------------------------------------------
(* The inductive invariant.                                                *)

\* Rows not inserted yet have the ages of new ones; a row that is not deregistered
\* has not been so for any time.
TableInOrder ==
  \A i \in Row :
    /\ i > rows => age[i] = 0
    /\ i \notin dereg => gone[i] = 0

\* The rows a server process has in hand are its own, and the one it keeps alive,
\* the one it is registering and the one it is deregistering are different.
RowsOwned ==
  \A s \in Server :
    /\ node[s] # 0 => owner[node[s]] = s /\ node[s] \notin dereg
    /\ inserted[s] # 0 => owner[inserted[s]] = s /\ inserted[s] \notin dereg
    /\ leaving[s] # 0 => owner[leaving[s]] = s
    /\ inserted[s] # 0 => inserted[s] # leaving[s]
    /\ node[s] # 0 => node[s] \notin {inserted[s], leaving[s]}

\* Upper bound of the age the row of s will have at the end of the next heartbeat.
Due(s) == age[node[s]] + wait[s] + (Slack - late[s])

\* The row of s will not be older at the end of the next heartbeat than one interval
\* after it was inserted or renewed, than two if a heartbeat failed; and one stored
\* while the heartbeat was busy with its predecessor is as good as new.
HeartbeatInTime ==
  \A s \in Server :
    /\ wait[s] > 0 => late[s] = 0 /\ beating[s] = 0
    /\ inserted[s] # 0 => age[inserted[s]] <= Slack
    /\ node[s] # 0 =>
         /\ missed[s] = 0 => Due(s) <= Interval + 3 * Slack
         /\ missed[s] = 1 => Due(s) <= 2 * Interval + 4 * Slack
         /\ beating[s] \notin {0, node[s]} => missed[s] = 0 /\ Due(s) <= 2 * Slack

\* What a selector read from the table was alive when it called Select.
ListsFresh ==
  \A g \in Selector : pc[g] = "store" => \A e \in list[g] : e.age <= Live + elapsed[g]

IInv ==
  /\ TypeOK /\ TableInOrder /\ RowsOwned /\ HeartbeatInTime
  /\ CopiesAreHonest /\ ListsFresh

-----------------------------------------------------------------------------
(* Types.                                                                  *)

\* A copy is an entry; getting older keeps it one.
LEMMA OlderInAge ==
  ASSUME NEW n \in Age
  PROVE  Older(n) \in Age /\ Older(n) <= n + 1 /\ n <= Older(n)
  BY NamingAssumption, SMT DEF Older, Age, Old

\* The same of a set of copies.
LEMMA OlderEntriesType ==
  ASSUME NEW entries, entries \subseteq Entry
  PROVE  OlderEntries(entries) \subseteq Entry
<1> SUFFICES ASSUME NEW e \in entries PROVE [e EXCEPT !.age = Older(e.age)] \in Entry
  BY Zenon DEF OlderEntries
<1>1. e \in Entry /\ e.age \in Age
  BY SMT DEF Entry
<1> QED
  BY <1>1, OlderInAge, SMT DEF Entry

\* No heartbeat makes a row older.
LEMMA BeatRenews ==
  ASSUME TableTypeOK, ServerTypeOK, NEW s \in Server, BeatExec(s)
  PROVE  age' \in [Row -> Age] /\ \A i \in Row : age'[i] \in Nat /\ age'[i] <= age[i]
<1>1. age \in [Row -> Age] /\ \A i \in Row : age[i] \in Age /\ age[i] \in Nat
  BY SMT DEF TableTypeOK, Age, Old
<1>2. \A a \in Stamp(s) : a \in Nat /\ a <= age[beating[s]]
  BY NamingAssumption, SMT DEF ServerTypeOK, Stamp
<1>3. CASE age' = age
  BY <1>1, <1>3, SMT
<1>4. CASE \E a \in Stamp(s) : age' = [age EXCEPT ![beating[s]] = a]
  <2>1. PICK a \in Stamp(s) : age' = [age EXCEPT ![beating[s]] = a]
    BY <1>4
  <2>2. ASSUME beating[s] \in Row PROVE a \in Age
    BY <1>1, <1>2, <2>2, NamingAssumption, SMT DEF Age, Old
  <2>3. \A i \in Row : age'[i] = IF i = beating[s] THEN a ELSE age[i]
    BY <1>1, <2>1, Zenon
  <2>4. age' \in [Row -> Age]
    BY <1>1, <2>1, <2>2, Zenon
  <2> QED
    BY <1>1, <1>2, <2>3, <2>4, SMT
<1> QED
  BY <1>3, <1>4, Zenon DEF BeatExec

\* Steps of one side leave the types of the other as they are.
LEMMA SameTypes ==
  /\ TableTypeOK /\ UNCHANGED tableVars => TableTypeOK'
  /\ ServerTypeOK /\ UNCHANGED <<owner, serverVars>> => ServerTypeOK'
  /\ ClientTypeOK /\ UNCHANGED <<cache, selectorVars>> => ClientTypeOK'
<1>1. TableTypeOK /\ UNCHANGED tableVars => TableTypeOK'
  BY SMT DEF TableTypeOK, tableVars, rows
<1>2. ServerTypeOK /\ UNCHANGED <<owner, serverVars>> => ServerTypeOK'
  BY SMT DEF ServerTypeOK, serverVars, rows
<1>3. ClientTypeOK /\ UNCHANGED <<cache, selectorVars>> => ClientTypeOK'
  BY SMT DEF ClientTypeOK, selectorVars
<1> QED
  BY <1>1, <1>2, <1>3

\* A server's step keeps the types.
LEMMA ServerTypeStep ==
  ASSUME TypeOK, NEW s \in Server, ServerStep(s)
  PROVE  TypeOK'
<1> USE NamingAssumption DEF TypeOK
<1>0. rows \in Nat /\ 0 \in Age
  BY SMT DEF TableTypeOK, rows, Age, Old
<1>1. CASE RegisterInsert(s)
  <2>1. owner' \in Seq(Server) /\ rows' = rows + 1
    BY <1>1, SMT DEF TableTypeOK, RegisterInsert, rows
  <2>2. TableTypeOK'
    BY <1>0, <1>1, <2>1, SMT DEF TableTypeOK, RegisterInsert
  <2>3. 0 .. rows \subseteq 0 .. rows' /\ rows' \in 0 .. rows'
    BY <1>0, <2>1, SMT
  <2>4. inserted' \in [Server -> 0 .. rows']
    BY <1>1, <2>1, <2>3, Zenon DEF ServerTypeOK, RegisterInsert
  <2>5. ServerTypeOK'
    BY <1>1, <2>3, <2>4, SMT DEF ServerTypeOK, RegisterInsert
  <2> QED
    BY <1>1, <2>2, <2>5, SameTypes, Zenon DEF RegisterInsert
<1>2. CASE RegisterStore(s)
  <2>1. ServerTypeOK'
    BY <1>0, <1>2, SMT DEF ServerTypeOK, RegisterStore, tableVars, rows
  <2> QED
    BY <1>2, <2>1, SameTypes, Zenon DEF RegisterStore
<1>3. CASE DeregisterLoad(s)
  <2>1. ServerTypeOK'
    BY <1>0, <1>3, SMT DEF ServerTypeOK, DeregisterLoad, tableVars, rows
  <2> QED
    BY <1>3, <2>1, SameTypes, Zenon DEF DeregisterLoad
<1>4. CASE DeregisterUpdate(s)
  <2>1. ServerTypeOK'
    BY <1>0, <1>4, SMT DEF ServerTypeOK, DeregisterUpdate, rows
  <2>2. TableTypeOK'
    BY <1>0, <1>4, SMT DEF TableTypeOK, ServerTypeOK, DeregisterUpdate, rows
  <2> QED
    BY <1>4, <2>1, <2>2, SameTypes, Zenon DEF DeregisterUpdate
<1>5. CASE BeatPick(s)
  <2>1. rows' = rows /\ UNCHANGED <<node, inserted, leaving, missed>>
    BY <1>5, SMT DEF BeatPick, tableVars, rows
  <2>2. /\ beating' \in [Server -> 0 .. rows] /\ wait' \in [Server -> 0 .. Interval]
        /\ late' \in [Server -> 0 .. Slack]
    <3>1. CASE node[s] # 0
      BY <1>5, <3>1, Zenon DEF ServerTypeOK, BeatPick
    <3>2. CASE node[s] = 0
      BY <1>5, <3>2, SMT DEF ServerTypeOK, BeatPick
    <3> QED
      BY <3>1, <3>2
  <2>3. ServerTypeOK'
    BY <2>1, <2>2, SMT DEF ServerTypeOK
  <2> QED
    BY <1>5, <2>3, SameTypes, Zenon DEF BeatPick
<1>6. CASE BeatExec(s)
  <2>d. rows' = rows /\ beating[s] # 0 /\ beating[s] \in 0 .. rows /\ rows <= MaxRows
    BY <1>6, Zenon DEF TableTypeOK, ServerTypeOK, BeatExec, rows
  <2>0. rows' = rows /\ beating[s] \in Row
    BY <1>0, <2>d, SMT DEF Row
  <2>a. missed' \in [Server -> 0 .. 2]
    BY <1>6, SMT DEF ServerTypeOK, BeatExec
  <2>b. /\ beating' \in [Server -> 0 .. rows] /\ wait' \in [Server -> 0 .. Interval]
        /\ late' \in [Server -> 0 .. Slack]
    BY <1>0, <1>6, SMT DEF ServerTypeOK, BeatExec
  <2>c. age' \in [Row -> Age]
    BY <1>6, BeatRenews
  <2>1. ServerTypeOK'
    BY <1>6, <2>0, <2>a, <2>b, Zenon DEF ServerTypeOK, BeatExec
  <2>2. TableTypeOK'
    BY <1>6, <2>0, <2>c, Zenon DEF TableTypeOK, BeatExec
  <2> QED
    BY <1>6, <2>1, <2>2, SameTypes, Zenon DEF BeatExec
<1>7. CASE Restart(s)
  <2>1. ServerTypeOK'
    BY <1>0, <1>7, SMT DEF ServerTypeOK, Restart, tableVars, rows
  <2> QED
    BY <1>7, <2>1, SameTypes, Zenon DEF Restart
<1> QED
  BY <1>1, <1>2, <1>3, <1>4, <1>5, <1>6, <1>7, Zenon DEF ServerStep

\* Returning the row of an entry keeps the types of the rest of the client.
LEMMA ReturnType ==
  ASSUME ClientTypeOK, NEW g \in Selector, NEW e \in Entry,
         NEW kind \in {"alive", "flexible"}, Return(g, kind, e.row),
         cache' \subseteq Entry, list' \in [Selector -> SUBSET Entry],
         elapsed' \in [Selector -> 0 .. MaxDelay]
  PROVE  ClientTypeOK'
<1>1. e.row \in 0 .. MaxRows
  BY NamingAssumption, SMT DEF Entry, Row
<1>2. [kind |-> kind, row |-> e.row] \in
        [kind : {"none", "alive", "flexible", "error"}, row : 0 .. MaxRows]
  BY <1>1
<1> QED
  BY <1>2, Zenon DEF ClientTypeOK, Return

\* A selector's step keeps the types.
LEMMA ClientTypeStep ==
  ASSUME TypeOK, NEW g \in Selector, SelectorStep(g)
  PROVE  TypeOK'
<1> USE NamingAssumption DEF TypeOK
<1>0. rows \in Nat
  BY SMT DEF TableTypeOK, rows
<1>0a. UNCHANGED <<tableVars, serverVars>>
  BY Zenon DEF SelectorStep, SelectCached, Query, Fallback, SelectStore, ReportLoad,
    ReportStore, Finish
<1>0b. UNCHANGED tableVars /\ UNCHANGED <<owner, serverVars>>
  BY <1>0a DEF tableVars
<1> SUFFICES ClientTypeOK'
  BY <1>0b, SameTypes, Zenon
<1>1. CASE SelectCached(g)
  <2>1. UNCHANGED <<cache, list>> /\ elapsed' \in [Selector -> 0 .. MaxDelay]
    BY <1>1, SMT DEF ClientTypeOK, SelectCached
  <2>2. ASSUME NEW e \in Fresh, Return(g, "alive", e.row)
        PROVE  ClientTypeOK'
    <3>1. e \in Entry
      BY Zenon DEF ClientTypeOK, Fresh
    <3> QED
      BY <2>1, <2>2, <3>1, ReturnType, SMT DEF ClientTypeOK
  <2>3. CASE pc' = [pc EXCEPT ![g] = "query"] /\ UNCHANGED result
    BY <2>1, <2>3, SMT DEF ClientTypeOK
  <2> QED
    BY <1>1, <2>2, <2>3, Zenon DEF SelectCached
<1>2. CASE Query(g)
  <2>1. {[row |-> i, age |-> age[i]] : i \in Alive(g)} \subseteq Entry
    BY <1>0, SMT DEF TableTypeOK, Alive, Entry, Row
  <2>2. list' \in [Selector -> SUBSET Entry]
    BY <1>2, <2>1, Zenon DEF ClientTypeOK, Query
  <2> QED
    BY <1>2, <2>2, SMT DEF ClientTypeOK, Query
<1>3. CASE Fallback(g)
  <2>1. UNCHANGED <<cache, elapsed, list>>
    BY <1>3 DEF Fallback
  <2>2. ASSUME NEW e \in cache, Return(g, "flexible", e.row)
        PROVE  ClientTypeOK'
    BY <2>1, <2>2, ReturnType, SMT DEF ClientTypeOK
  <2>3. CASE Return(g, "error", 0)
    BY <2>1, <2>3, SMT DEF ClientTypeOK, Return
  <2> QED
    BY <1>3, <2>2, <2>3, Zenon DEF Fallback
<1>4. CASE SelectStore(g)
  <2>1. cache' \subseteq Entry /\ list' \in [Selector -> SUBSET Entry] /\ elapsed' = elapsed
    BY <1>4, SMT DEF ClientTypeOK, SelectStore
  <2>2. PICK e \in list[g] : Return(g, "alive", e.row)
    BY <1>4 DEF SelectStore
  <2> QED
    BY <2>1, <2>2, ReturnType, SMT DEF ClientTypeOK
<1>5. CASE ReportLoad(g)
  BY <1>5, SMT DEF ClientTypeOK, ReportLoad, NoResult
<1>6. CASE ReportStore(g)
  BY <1>6, SMT DEF ClientTypeOK, ReportStore
<1>7. CASE Finish(g)
  BY <1>7, SMT DEF ClientTypeOK, Finish, NoResult
<1> QED
  BY <1>1, <1>2, <1>3, <1>4, <1>5, <1>6, <1>7, Zenon DEF SelectorStep

\* A step keeps the types.
LEMMA TypeStep ==
  ASSUME TypeOK, [Next]_vars
  PROVE  TypeOK'
<1> USE NamingAssumption
<1>1. CASE UNCHANGED vars
  BY <1>1, SameTypes, SMT DEF TypeOK, vars, tableVars
<1>2. CASE Tick
  <2>0. 0 \in Age
    BY SMT DEF Age, Old
  <2>1. age' \in [Row -> Age] /\ gone' \in [Row -> Age]
    BY <2>0, <1>2, OlderInAge, SMT DEF TypeOK, TableTypeOK, Tick
  <2>2. TableTypeOK'
    BY <1>2, <2>1, SMT DEF TypeOK, TableTypeOK, Tick, rows
  <2>3. ServerTypeOK'
    <3>1. wait' \in [Server -> 0 .. Interval] /\ late' \in [Server -> 0 .. Slack]
      BY <1>2, SMT DEF TypeOK, ServerTypeOK, Tick
    <3> QED
      BY <1>2, <3>1, SMT DEF TypeOK, ServerTypeOK, Tick, rows
  <2>4. ClientTypeOK'
    <3>1. cache' \subseteq Entry /\ list' \in [Selector -> SUBSET Entry]
      BY <1>2, OlderEntriesType, Zenon DEF TypeOK, ClientTypeOK, Tick
    <3>2. elapsed' \in [Selector -> 0 .. MaxDelay]
      BY <1>2, SMT DEF TypeOK, ClientTypeOK, Tick
    <3> QED
      BY <1>2, <3>1, <3>2, SMT DEF TypeOK, ClientTypeOK, Tick
  <2> QED
    BY <2>2, <2>3, <2>4 DEF TypeOK
<1> QED
  BY <1>1, <1>2, ServerTypeStep, ClientTypeStep, Zenon DEF Next
-----------------------------------------------------------------------------
(* The table and the rows in hand.                                         *)

\* A server does not touch the client, nor a selector the table and the servers.
LEMMA SidesApart ==
  /\ \A s \in Server : ServerStep(s) => UNCHANGED <<cache, selectorVars>>
  /\ \A g \in Selector : SelectorStep(g) => UNCHANGED <<tableVars, serverVars>>
<1>1. ASSUME NEW s \in Server, ServerStep(s) PROVE UNCHANGED <<cache, selectorVars>>
  BY <1>1, Zenon DEF ServerStep, RegisterInsert, RegisterStore, DeregisterLoad,
    DeregisterUpdate, BeatPick, BeatExec, Restart
<1>2. ASSUME NEW g \in Selector, SelectorStep(g) PROVE UNCHANGED <<tableVars, serverVars>>
  BY <1>2, Zenon DEF SelectorStep, SelectCached, Query, Fallback, SelectStore, ReportLoad,
    ReportStore, Finish
<1> QED
  BY <1>1, <1>2

\* A table with its servers' state that does not change keeps what is said of it.
LEMMA SameServers ==
  ASSUME UNCHANGED <<tableVars, serverVars>>
  PROVE  /\ TableInOrder => TableInOrder'
         /\ RowsOwned => RowsOwned'
         /\ HeartbeatInTime => HeartbeatInTime'
<1>1. /\ owner' = owner /\ age' = age /\ dereg' = dereg /\ gone' = gone
      /\ node' = node /\ inserted' = inserted /\ leaving' = leaving
      /\ wait' = wait /\ late' = late /\ beating' = beating /\ missed' = missed
  BY DEF tableVars, serverVars
<1> QED
  BY <1>1, Zenon DEF TableInOrder, RowsOwned, HeartbeatInTime, Due, rows

\* A step keeps the table in order.
LEMMA TableInOrderStep ==
  ASSUME TypeOK, TableInOrder, [Next]_vars
  PROVE  TableInOrder'
<1> USE NamingAssumption DEF TypeOK
<1>0. rows \in Nat
  BY SMT DEF TableTypeOK, rows
<1>1. CASE UNCHANGED <<tableVars, serverVars>>
  BY <1>1, SameServers
<1>2. CASE Tick
  <2>1. rows' = rows /\ UNCHANGED dereg
    BY <1>2 DEF Tick, rows
  <2>2. \A i \in Row : /\ age'[i] = IF i <= rows THEN Older(age[i]) ELSE 0
                      /\ gone'[i] = IF i \in dereg THEN Older(gone[i]) ELSE 0
    BY <1>2 DEF Tick
  <2> QED
    BY <1>0, <2>1, <2>2, SMT DEF TableInOrder, Row
<1>3. ASSUME NEW s \in Server, ServerStep(s)
      PROVE  TableInOrder'
  <2>1. CASE RegisterInsert(s)
    <3>1. rows' = rows + 1 /\ UNCHANGED <<age, dereg, gone>>
      BY <2>1, SMT DEF TableTypeOK, RegisterInsert, rows
    <3> QED
      BY <1>0, <3>1, SMT DEF TableInOrder, Row
  <2>2. CASE DeregisterUpdate(s)
    BY <2>2, SMT DEF TableInOrder, DeregisterUpdate, rows
  <2>3. CASE BeatExec(s)
    <3>1. UNCHANGED <<owner, dereg, gone>>
      BY <2>3 DEF BeatExec
    <3>2. \A i \in Row : age'[i] \in Nat /\ age'[i] <= age[i]
      BY <2>3, BeatRenews
    <3>3. \A i \in Row : age[i] = 0 => age'[i] = 0
      BY <3>2, SMT
    <3> QED
      BY <3>1, <3>3, Zenon DEF TableInOrder, rows
  <2>4. CASE RegisterStore(s) \/ DeregisterLoad(s) \/ BeatPick(s) \/ Restart(s)
    <3>1. UNCHANGED tableVars
      BY <2>4, Zenon DEF RegisterStore, DeregisterLoad, BeatPick, Restart
    <3> QED
      BY <3>1, Zenon DEF TableInOrder, tableVars, rows
  <2> QED
    BY <1>3, <2>1, <2>2, <2>3, <2>4, Zenon DEF ServerStep
<1> QED
  BY <1>1, <1>2, <1>3, SidesApart, Zenon DEF Next, vars

\* A step keeps the rows a server has in hand its own and apart.
LEMMA RowsOwnedStep ==
  ASSUME TypeOK, RowsOwned, [Next]_vars
  PROVE  RowsOwned'
<1> USE NamingAssumption DEF TypeOK
<1>0. rows \in Nat
  BY SMT DEF TableTypeOK, rows
<1>1. CASE UNCHANGED <<tableVars, serverVars>>
  BY <1>1, SameServers
<1>2. CASE Tick
  BY <1>2, Zenon DEF RowsOwned, Tick
<1>3. ASSUME NEW s \in Server, ServerStep(s)
      PROVE  RowsOwned'
  <2>0. SUFFICES ASSUME NEW t \in Server
                 PROVE  /\ node'[t] # 0 => owner'[node'[t]] = t /\ node'[t] \notin dereg'
                        /\ inserted'[t] # 0 => /\ owner'[inserted'[t]] = t
                                               /\ inserted'[t] \notin dereg'
                        /\ leaving'[t] # 0 => owner'[leaving'[t]] = t
                        /\ inserted'[t] # 0 => inserted'[t] # leaving'[t]
                        /\ node'[t] # 0 => node'[t] \notin {inserted'[t], leaving'[t]}
    BY Zenon DEF RowsOwned
  <2>a. /\ node[t] # 0 => owner[node[t]] = t /\ node[t] \notin dereg
        /\ inserted[t] # 0 => owner[inserted[t]] = t /\ inserted[t] \notin dereg
        /\ leaving[t] # 0 => owner[leaving[t]] = t
        /\ inserted[t] # 0 => inserted[t] # leaving[t]
        /\ node[t] # 0 => node[t] \notin {inserted[t], leaving[t]}
    BY Zenon DEF RowsOwned
  <2>b. node[t] \in 0 .. rows /\ inserted[t] \in 0 .. rows /\ leaving[t] \in 0 .. rows
    BY Zenon DEF ServerTypeOK
  <2>1. CASE RegisterInsert(s)
    <3>1. /\ \A i \in 1 .. rows : owner'[i] = owner[i]
          /\ owner'[rows + 1] = s /\ rows + 1 \notin dereg
      BY <1>0, <2>1, SMT DEF TableTypeOK, RegisterInsert, rows
    <3>2. /\ UNCHANGED <<dereg, node, leaving>>
          /\ inserted'[t] = IF t = s THEN rows + 1 ELSE inserted[t]
      BY <2>1, SMT DEF ServerTypeOK, RegisterInsert
    <3> QED
      BY <1>0, <2>a, <2>b, <3>1, <3>2, SMT
  <2>2. CASE RegisterStore(s)
    <3>1. /\ UNCHANGED <<owner, dereg, leaving>> /\ inserted[s] # 0
          /\ node'[t] = IF t = s THEN inserted[t] ELSE node[t]
          /\ inserted'[t] = IF t = s THEN 0 ELSE inserted[t]
      BY <2>2, SMT DEF ServerTypeOK, RegisterStore, tableVars
    <3> QED
      BY <2>a, <3>1, SMT
  <2>3. CASE DeregisterLoad(s)
    <3>1. /\ UNCHANGED <<owner, dereg, inserted>> /\ node[s] # 0
          /\ node'[t] = IF t = s THEN 0 ELSE node[t]
          /\ leaving'[t] = IF t = s THEN node[t] ELSE leaving[t]
      BY <2>3, SMT DEF ServerTypeOK, DeregisterLoad, tableVars
    <3> QED
      BY <2>a, <3>1, SMT
  <2>4. CASE DeregisterUpdate(s)
    <3>1. /\ UNCHANGED <<owner, node, inserted>> /\ leaving[s] # 0
          /\ leaving'[t] = IF t = s THEN 0 ELSE leaving[t]
          /\ dereg' \subseteq dereg \cup {leaving[s]}
      BY <2>4, SMT DEF ServerTypeOK, DeregisterUpdate
    <3>2. owner[leaving[s]] = s
      BY <3>1, Zenon DEF RowsOwned
    <3> QED
      BY <2>a, <3>1, <3>2, SMT
  <2>5. CASE BeatPick(s) \/ BeatExec(s)
    <3>1. UNCHANGED <<owner, dereg, node, inserted, leaving>>
      BY <2>5, Zenon DEF BeatPick, BeatExec, tableVars
    <3> QED
      BY <2>a, <3>1, Zenon
  <2>6. CASE Restart(s)
    <3>1. /\ UNCHANGED <<owner, dereg>>
          /\ node'[t] = IF t = s THEN 0 ELSE node[t]
          /\ inserted'[t] = IF t = s THEN 0 ELSE inserted[t]
          /\ leaving'[t] = IF t = s THEN 0 ELSE leaving[t]
      BY <2>6, SMT DEF ServerTypeOK, Restart, tableVars
    <3> QED
      BY <2>a, <3>1, SMT
  <2> QED
    BY <1>3, <2>1, <2>2, <2>3, <2>4, <2>5, <2>6, Zenon DEF ServerStep
<1> QED
  BY <1>1, <1>2, <1>3, SidesApart, Zenon DEF Next, vars
-----------------------------------------------------------------------------
(* The heartbeat.                                                          *)

\* What HeartbeatInTime says of one server.
InTime(t) ==
  /\ wait[t] > 0 => late[t] = 0 /\ beating[t] = 0
  /\ inserted[t] # 0 => age[inserted[t]] <= Slack
  /\ node[t] # 0 =>
       /\ missed[t] = 0 => Due(t) <= Interval + 3 * Slack
       /\ missed[t] = 1 => Due(t) <= 2 * Interval + 4 * Slack
       /\ beating[t] \notin {0, node[t]} => missed[t] = 0 /\ Due(t) <= 2 * Slack

\* A step that only renews rows, and leaves the heartbeat of t alone, keeps it.
LEMMA RenewalKeepsInTime ==
  ASSUME TypeOK, TypeOK', NEW t \in Server, InTime(t),
         \A i \in Row : age'[i] <= age[i],
         node'[t] = node[t], inserted'[t] = inserted[t], wait'[t] = wait[t],
         late'[t] = late[t], beating'[t] = beating[t], missed'[t] = missed[t]
  PROVE  InTime(t)'
<1>1. /\ wait[t] \in Nat /\ late[t] \in Nat
      /\ \A i \in Row : age[i] \in Nat /\ age'[i] \in Nat
  BY NamingAssumption, SMT DEF TypeOK, TableTypeOK, ServerTypeOK, Age, Old
<1>2. /\ node[t] # 0 => node[t] \in Row
      /\ inserted[t] # 0 => inserted[t] \in Row
  <2>1. rows \in Nat /\ rows <= MaxRows
    BY SMT DEF TypeOK, TableTypeOK, rows
  <2>2. node[t] \in 0 .. rows /\ inserted[t] \in 0 .. rows
    BY Zenon DEF TypeOK, ServerTypeOK
  <2> QED
    BY <2>1, <2>2, NamingAssumption, SMT DEF Row
<1>3. inserted[t] # 0 => age'[inserted[t]] <= Slack
  BY <1>1, <1>2, NamingAssumption, SMT DEF InTime
<1>4. node[t] # 0 => Due(t)' <= Due(t) /\ Due(t)' \in Int /\ Due(t) \in Int
  BY <1>1, <1>2, NamingAssumption, SMT DEF Due
<1> QED
  BY <1>3, <1>4, NamingAssumption, SMT DEF InTime

\* A step keeps the heartbeats in time.
LEMMA HeartbeatStep ==
  ASSUME TypeOK, TypeOK', TableInOrder, HeartbeatInTime, [Next]_vars
  PROVE  HeartbeatInTime'
<1> USE NamingAssumption
<1>0. \A t \in Server : InTime(t)
  BY Zenon DEF HeartbeatInTime, InTime
<1> SUFFICES ASSUME NEW t \in Server PROVE InTime(t)'
  BY Zenon DEF HeartbeatInTime, InTime
<1>a. /\ wait[t] \in 0 .. Interval /\ late[t] \in 0 .. Slack
      /\ rows \in Nat /\ rows <= MaxRows /\ \A i \in Row : age[i] \in Age /\ age[i] \in Nat
  BY SMTT(40) DEF TypeOK, TableTypeOK, ServerTypeOK, Age, Old, rows
<1>b. /\ node[t] \in 0 .. rows /\ inserted[t] \in 0 .. rows
      /\ beating[t] \in 0 .. rows /\ missed[t] \in 0 .. 2
  BY Zenon DEF TypeOK, ServerTypeOK
<1>c. /\ node[t] # 0 => node[t] \in Row
      /\ inserted[t] # 0 => inserted[t] \in Row
      /\ beating[t] # 0 => beating[t] \in Row
  BY <1>a, <1>b, SMT DEF Row
<1>1. CASE UNCHANGED <<tableVars, serverVars>>
  BY <1>1, SameServers, Zenon DEF HeartbeatInTime, InTime
<1>2. CASE Tick
  <2>1. UNCHANGED <<owner, node, inserted, beating, missed>>
    BY <1>2 DEF Tick
  <2>2. /\ wait'[t] = IF wait[t] > 0 THEN wait[t] - 1 ELSE 0
        /\ late'[t] = IF wait[t] = 0 THEN late[t] + 1 ELSE 0
        /\ wait[t] = 0 => late[t] < Slack
        /\ inserted[t] # 0 => age[inserted[t]] < Slack
    BY <1>2, Zenon DEF Tick
  <2>3. \A i \in 1 .. rows : age'[i] = Older(age[i])
    BY <1>2, <1>a, SMT DEF Tick, Row
  <2>4. \A i \in 1 .. rows : age'[i] \in Nat /\ age'[i] <= age[i] + 1
    BY <1>a, <2>3, OlderInAge, SMT DEF Row, Age
  <2>5. inserted[t] # 0 => age'[inserted[t]] <= Slack
    BY <1>a, <1>b, <1>c, <2>2, <2>4, SMT
  <2>6. node[t] # 0 => Due(t)' <= Due(t) /\ Due(t)' \in Int /\ Due(t) \in Int
    <3>1. ASSUME node[t] # 0
          PROVE  age'[node[t]] \in Nat /\ age[node[t]] \in Nat /\ age'[node[t]] <= age[node[t]] + 1
      BY <1>a, <1>b, <1>c, <2>4, <3>1, SMT
    <3>2. wait[t] > 0 => late[t] = 0
      BY <1>0, Zenon DEF InTime
    <3> QED
      BY <1>a, <2>1, <2>2, <3>1, <3>2, SMT DEF Due
  <2> QED
    BY <1>0, <1>a, <2>1, <2>2, <2>5, <2>6, SMT DEF InTime
<1>3. ASSUME NEW s \in Server, ServerStep(s)
      PROVE  InTime(t)'
  <2>0. /\ InTime(t)
        /\ wait[t] > 0 => beating[t] = 0
    BY <1>0 DEF InTime
  <2>1. CASE RegisterInsert(s)
    <3>1. /\ UNCHANGED <<age, node, wait, late, beating, missed>>
          /\ inserted'[t] = IF t = s THEN rows + 1 ELSE inserted[t]
          /\ rows + 1 \in Row
      BY <1>a, <2>1, SMT DEF TypeOK, ServerTypeOK, RegisterInsert, Row
    <3>2. age[rows + 1] = 0
      BY <1>a, <3>1, SMT DEF TableInOrder
    <3> QED
      BY <2>0, <3>1, <3>2, SMT DEF InTime, Due
  <2>2. CASE RegisterStore(s)
    <3>1. /\ UNCHANGED <<age, wait, late, beating>>
          /\ node'[t] = IF t = s THEN inserted[t] ELSE node[t]
          /\ inserted'[t] = IF t = s THEN 0 ELSE inserted[t]
          /\ missed'[t] = IF t = s THEN 0 ELSE missed[t]
      BY <2>2, SMT DEF TypeOK, ServerTypeOK, RegisterStore, tableVars
    <3>2. CASE t = s
      <4>1. inserted[t] # 0 /\ age[inserted[t]] \in Nat /\ age[inserted[t]] <= Slack
        BY <1>a, <1>c, <2>0, <2>2, <3>2, SMT DEF InTime, RegisterStore
      <4>2. /\ Due(t)' <= Interval + 2 * Slack
            /\ beating[t] # 0 => Due(t)' <= 2 * Slack
        BY <1>a, <1>b, <2>0, <3>1, <3>2, <4>1, SMT DEF Due
      <4>3. Due(t)' \in Int
        BY <1>a, <3>1, <3>2, <4>1, SMT DEF Due
      <4> QED
        BY <1>a, <2>0, <3>1, <3>2, <4>1, <4>2, <4>3, SMT DEF InTime
    <3>3. CASE t # s
      BY <1>a, <2>0, <3>1, <3>3, RenewalKeepsInTime, SMT
    <3> QED
      BY <3>2, <3>3
  <2>3. CASE DeregisterLoad(s) \/ Restart(s)
    <3>1. CASE t # s
      <4>1. /\ UNCHANGED age /\ node'[t] = node[t] /\ inserted'[t] = inserted[t]
            /\ wait'[t] = wait[t] /\ late'[t] = late[t] /\ beating'[t] = beating[t]
            /\ missed'[t] = missed[t]
        BY <2>3, <3>1, SMT DEF TypeOK, ServerTypeOK, DeregisterLoad, Restart, tableVars
      <4> QED
        BY <1>a, <2>0, <4>1, RenewalKeepsInTime, SMT
    <3>2. CASE t = s /\ DeregisterLoad(s)
      <4>1. node'[t] = 0 /\ UNCHANGED <<age, inserted, wait, late, beating>>
        BY <3>2, SMT DEF TypeOK, ServerTypeOK, DeregisterLoad, tableVars
      <4> QED
        BY <2>0, <4>1, Zenon DEF InTime
    <3>3. CASE t = s /\ Restart(s)
      <4>1. node'[t] = 0 /\ inserted'[t] = 0 /\ wait'[t] = 0
        BY <3>3, SMT DEF TypeOK, ServerTypeOK, Restart
      <4> QED
        BY <4>1, SMT DEF InTime
    <3> QED
      BY <2>3, <3>1, <3>2, <3>3
  <2>4. CASE DeregisterUpdate(s)
    <3>1. UNCHANGED <<age, node, inserted, wait, late, beating, missed>>
      BY <2>4 DEF DeregisterUpdate
    <3> QED
      BY <2>0, <3>1, Zenon DEF InTime, Due
  <2>5. CASE BeatPick(s)
    <3>0. UNCHANGED <<age, node, inserted, missed>>
      BY <2>5 DEF BeatPick, tableVars
    <3>1. CASE t # s
      <4>1. wait'[t] = wait[t] /\ late'[t] = late[t] /\ beating'[t] = beating[t]
        BY <2>5, <3>1, SMT DEF TypeOK, ServerTypeOK, BeatPick
      <4> QED
        BY <2>0, <3>0, <4>1, Zenon DEF InTime, Due
    <3>2. CASE t = s /\ node[s] # 0
      <4>1. /\ beating'[t] = node[t] /\ UNCHANGED <<wait, late>> /\ wait[t] = 0
        BY <2>5, <3>2, SMT DEF TypeOK, ServerTypeOK, BeatPick
      <4> QED
        BY <2>0, <3>0, <4>1, SMT DEF InTime, Due
    <3>3. CASE t = s /\ node[s] = 0
      <4>1. late'[t] = 0 /\ beating'[t] = 0
        BY <2>5, <3>3, SMT DEF TypeOK, ServerTypeOK, BeatPick
      <4> QED
        BY <2>0, <3>0, <3>3, <4>1, SMT DEF InTime
    <3> QED
      BY <3>1, <3>2, <3>3
  <2>6. CASE BeatExec(s)
    <3>0. /\ UNCHANGED <<node, inserted>> /\ beating[s] # 0
          /\ wait'[t] = IF t = s THEN Interval ELSE wait[t]
          /\ late'[t] = IF t = s THEN 0 ELSE late[t]
          /\ beating'[t] = IF t = s THEN 0 ELSE beating[t]
      BY <2>6, SMT DEF TypeOK, ServerTypeOK, BeatExec
    <3>1. \A i \in Row : age'[i] \in Nat /\ age'[i] <= age[i]
      BY <2>6, BeatRenews DEF TypeOK
    <3>2. \/ /\ \E a \in Stamp(s) : age' = [age EXCEPT ![beating[s]] = a]
             /\ missed' = [missed EXCEPT ![s] = 0]
          \/ age' = age /\ missed' = [missed EXCEPT ![s] = IF @ < 2 THEN @ + 1 ELSE 2]
      BY <2>6, Zenon DEF BeatExec
    <3>3. CASE t # s
      <4>1. missed'[t] = missed[t]
        BY <3>2, <3>3, SMT DEF TypeOK, ServerTypeOK
      <4> QED
        BY <2>0, <3>0, <3>1, <3>3, <4>1, RenewalKeepsInTime, SMT
    <3>4. CASE t = s
      <4>1. inserted[t] # 0 => age'[inserted[t]] <= Slack
        BY <1>a, <1>c, <2>0, <3>1, SMT DEF InTime
      <4>2. wait[t] = 0 /\ wait'[t] = Interval /\ late'[t] = 0 /\ beating'[t] = 0
        BY <1>a, <2>0, <3>0, <3>4, SMT
      <4>3. ASSUME node[t] # 0
            PROVE  /\ missed'[t] = 0 => Due(t)' <= Interval + 3 * Slack
                   /\ missed'[t] = 1 => Due(t)' <= 2 * Interval + 4 * Slack
        <5>0. /\ age[node[t]] \in Nat /\ age'[node[t]] \in Nat
              /\ age'[node[t]] <= age[node[t]]
          BY <1>a, <1>c, <3>1, <4>3, SMT
        <5>1. Due(t)' = age'[node[t]] + Interval + Slack
          BY <3>0, <4>2, <5>0, SMT DEF Due
        <5>2. age[node[t]] <= Due(t) /\ Due(t) \in Int
          BY <1>a, <4>2, <5>0, SMT DEF Due
        <5>3. CASE beating[t] # node[t]
          <6>1. age[node[t]] <= 2 * Slack
            BY <1>a, <2>0, <3>0, <3>4, <4>3, <5>0, <5>2, <5>3, SMT DEF InTime
          <6> QED
            BY <5>0, <5>1, <6>1, SMT
        <5>4. CASE /\ beating[t] = node[t] /\ missed' = [missed EXCEPT ![s] = 0]
                   /\ \E a \in Stamp(s) : age' = [age EXCEPT ![beating[s]] = a]
          <6>0. PICK a \in Stamp(s) : age' = [age EXCEPT ![beating[s]] = a]
            BY <5>4
          <6>1. age'[node[t]] = a /\ missed'[t] = 0 /\ a \in 0 .. Slack
            BY <1>a, <1>c, <3>4, <4>3, <5>4, <6>0, SMT DEF TypeOK, TableTypeOK, ServerTypeOK, Stamp
          <6> QED
            BY <5>1, <6>1, SMT
        <5>5. CASE beating[t] = node[t] /\ age' = age
                      /\ missed' = [missed EXCEPT ![s] = IF @ < 2 THEN @ + 1 ELSE 2]
          <6>1. missed'[t] # 0 /\ (missed'[t] = 1 => missed[t] = 0)
            BY <1>b, <3>4, <5>5, SMT DEF TypeOK, ServerTypeOK
          <6>2. missed[t] = 0 => age[node[t]] <= Interval + 3 * Slack
            BY <2>0, <4>3, <5>0, <5>2, SMT DEF InTime
          <6> QED
            BY <5>0, <5>1, <6>1, <6>2, SMT
        <5> QED
          BY <3>2, <5>3, <5>4, <5>5
      <4> QED
        BY <3>0, <4>1, <4>2, <4>3, SMT DEF InTime
    <3> QED
      BY <3>3, <3>4
  <2> QED
    BY <1>3, <2>1, <2>2, <2>3, <2>4, <2>5, <2>6, Zenon DEF ServerStep
<1> QED
  BY <1>1, <1>2, <1>3, SidesApart, Zenon DEF Next, vars
-----------------------------------------------------------------------------
(* The copies of the client.                                               *)

Copies == cache \cup UNION {list[g] : g \in Selector}

\* What CopiesAreHonest says of one copy.
Honest(e) ==
  /\ e.row <= rows /\ age[e.row] <= e.age
  /\ e.row \in dereg => gone[e.row] <= e.age

\* Getting older keeps the order of two ages.
LEMMA OlderMonotone ==
  ASSUME NEW m \in Age, NEW n \in Age, m <= n
  PROVE  Older(m) <= Older(n)
  BY NamingAssumption, SMT DEF Older, Age, Old

\* The copies are entries.
LEMMA CopiesType == TypeOK => Copies \subseteq Entry
  BY Zenon DEF TypeOK, ClientTypeOK, Copies

\* A tick makes a copy older by as much as its row.
LEMMA HonestTick ==
  ASSUME TypeOK, Tick, NEW e \in Entry, Honest(e), NEW d, d = [e EXCEPT !.age = Older(e.age)]
  PROVE  Honest(d)'
<1>1. /\ e.row \in 1 .. rows /\ e.age \in Age /\ d.row = e.row /\ d.age = Older(e.age)
      /\ rows \in Nat
  <2>1. rows \in Nat
    BY SMT DEF TypeOK, TableTypeOK, rows
  <2>2. e.row \in Row /\ e.age \in Age
    BY SMT DEF Entry
  <2>3. d.row = e.row /\ d.age = Older(e.age)
    BY SMT DEF Entry
  <2>4. e.row <= rows
    BY DEF Honest
  <2> QED
    BY <2>1, <2>2, <2>3, <2>4, SMT DEF Row
<1>2. e.row \in Row /\ age[e.row] \in Age /\ gone[e.row] \in Age
  <2>1. e.row \in Row
    BY SMT DEF Entry
  <2> QED
    BY <2>1, Zenon DEF TypeOK, TableTypeOK
<1>3. /\ age'[e.row] = Older(age[e.row])
      /\ e.row \in dereg => gone'[e.row] = Older(gone[e.row])
      /\ rows' = rows /\ dereg' = dereg
  <2>1. rows' = rows /\ dereg' = dereg
    BY DEF Tick, rows
  <2>2. age'[e.row] = IF e.row <= rows THEN Older(age[e.row]) ELSE 0
    BY <1>2, Zenon DEF Tick
  <2>3. gone'[e.row] = IF e.row \in dereg THEN Older(gone[e.row]) ELSE 0
    BY <1>2, Zenon DEF Tick
  <2> QED
    BY <1>1, <2>1, <2>2, <2>3, SMT
<1>4. /\ Older(age[e.row]) <= Older(e.age)
      /\ e.row \in dereg => Older(gone[e.row]) <= Older(e.age)
  BY <1>1, <1>2, OlderMonotone DEF Honest
<1> QED
  BY <1>1, <1>3, <1>4, SMT DEF Honest

\* What a server does to a row makes no copy of it too young.
LEMMA HonestServer ==
  ASSUME TypeOK, TableInOrder, NEW s \in Server, ServerStep(s), NEW e \in Entry, Honest(e)
  PROVE  Honest(e)'
<1>0. /\ e.row \in Row /\ e.age \in Nat /\ rows \in Nat
      /\ age[e.row] \in Nat /\ beating[s] \in Nat
  <2>1. e.row \in Row /\ e.age \in Nat
    BY NamingAssumption, SMT DEF Entry, Age, Old
  <2>2. rows \in Nat
    BY SMT DEF TypeOK, TableTypeOK, rows
  <2>3. age[e.row] \in Nat
    BY <2>1, NamingAssumption, SMT DEF TypeOK, TableTypeOK, Age, Old
  <2>4. beating[s] \in Nat
    BY <2>2, SMT DEF TypeOK, ServerTypeOK
  <2> QED
    BY <2>1, <2>2, <2>3, <2>4
<1>1. CASE RegisterInsert(s)
  <2>1. rows' = rows + 1 /\ UNCHANGED <<age, dereg, gone>>
    BY <1>1, SMT DEF TypeOK, TableTypeOK, RegisterInsert, rows
  <2> QED
    BY <1>0, <2>1, SMT DEF Honest, Row
<1>2. CASE DeregisterUpdate(s)
  <2>1. rows' = rows /\ UNCHANGED <<age, gone>>
    BY <1>2 DEF DeregisterUpdate, rows
  <2>2. gone[e.row] <= e.age
    <3>1. CASE e.row \in dereg
      BY <3>1 DEF Honest
    <3>2. CASE e.row \notin dereg
      BY <1>0, <3>2, SMT DEF TableInOrder
    <3> QED
      BY <3>1, <3>2
  <2> QED
    BY <2>1, <2>2, Zenon DEF Honest
<1>3. CASE BeatExec(s)
  <2>1. rows' = rows /\ UNCHANGED <<dereg, gone>>
    BY <1>3 DEF BeatExec, rows
  <2>2. \A i \in Row : age'[i] \in Nat /\ age'[i] <= age[i]
    BY <1>0, <1>3, BeatRenews DEF TypeOK
  <2>3. age'[e.row] <= e.age
    BY <1>0, <2>2, SMT DEF TypeOK, TableTypeOK, Honest
  <2> QED
    BY <2>1, <2>3, Zenon DEF Honest
<1>4. CASE RegisterStore(s) \/ DeregisterLoad(s) \/ BeatPick(s) \/ Restart(s)
  <2>1. UNCHANGED tableVars
    BY <1>4, Zenon DEF RegisterStore, DeregisterLoad, BeatPick, Restart
  <2> QED
    BY <2>1, Zenon DEF Honest, tableVars, rows
<1> QED
  BY <1>1, <1>2, <1>3, <1>4, Zenon DEF ServerStep

\* A selector adds no copies but those of the rows it reads.
LEMMA NewCopies ==
  ASSUME TypeOK, NEW g \in Selector, SelectorStep(g)
  PROVE  Copies' \subseteq Copies \cup {[row |-> i, age |-> age[i]] : i \in Alive(g)}
<1> DEFINE Read == {[row |-> i, age |-> age[i]] : i \in Alive(g)}
<1>0. list \in [Selector -> SUBSET Entry]
  BY DEF TypeOK, ClientTypeOK
<1>1. cache' \subseteq Copies
  <2>1. CASE SelectStore(g) \/ ReportStore(g)
    BY <2>1, Zenon DEF SelectStore, ReportStore, Copies
  <2>2. CASE SelectCached(g) \/ Query(g) \/ Fallback(g) \/ ReportLoad(g) \/ Finish(g)
    BY <2>2, Zenon DEF SelectCached, Query, Fallback, ReportLoad, Finish, Copies
  <2> QED
    BY <2>1, <2>2 DEF SelectorStep
<1>2. \/ list' = list
      \/ \E l \in SUBSET (Copies \cup Read) : list' = [list EXCEPT ![g] = l]
  <2>1. CASE SelectStore(g) \/ ReportStore(g)
    BY <2>1, Zenon DEF SelectStore, ReportStore
  <2>2. CASE ReportLoad(g)
    BY <2>2, Zenon DEF ReportLoad, Copies
  <2>3. CASE Query(g)
    BY <2>3, Zenon DEF Query
  <2>4. CASE SelectCached(g) \/ Fallback(g) \/ Finish(g)
    BY <2>4, Zenon DEF SelectCached, Fallback, Finish
  <2> QED
    BY <2>1, <2>2, <2>3, <2>4 DEF SelectorStep
<1>3. ASSUME NEW h \in Selector PROVE list'[h] \subseteq Copies \cup Read
  <2>1. list[h] \subseteq Copies
    BY Zenon DEF Copies
  <2>2. CASE list' = list
    BY <2>1, <2>2
  <2>3. ASSUME NEW l \in SUBSET (Copies \cup Read), list' = [list EXCEPT ![g] = l]
        PROVE  list'[h] \subseteq Copies \cup Read
    <3>1. list'[h] = IF h = g THEN l ELSE list[h]
      BY <1>0, <2>3, Zenon
    <3> QED
      BY <2>1, <3>1, Zenon
  <2> QED
    BY <1>2, <2>2, <2>3
<1> HIDE DEF Read
<1>4. Copies' \subseteq Copies \cup Read
  <2> SUFFICES ASSUME NEW e \in Copies' PROVE e \in Copies \cup Read
    OBVIOUS
  <2>1. e \in cache' \/ \E h \in Selector : e \in list'[h]
    BY Zenon DEF Copies
  <2> QED
    BY <1>1, <1>3, <2>1, Zenon
<1> QED
  BY <1>4 DEF Read

\* A step keeps the copies honest.
LEMMA HonestStep ==
  ASSUME TypeOK, TableInOrder, CopiesAreHonest, [Next]_vars
  PROVE  CopiesAreHonest'
<1>0. \A e \in Copies : Honest(e) /\ e \in Entry
  BY CopiesType, Zenon DEF CopiesAreHonest, Honest, Copies
<1> SUFFICES ASSUME NEW d \in Copies' PROVE Honest(d)'
  BY Zenon DEF CopiesAreHonest, Honest, Copies
<1>1. CASE UNCHANGED <<tableVars, cache, list>>
  <2>1. /\ owner' = owner /\ age' = age /\ dereg' = dereg /\ gone' = gone
        /\ cache' = cache /\ list' = list
    BY <1>1 DEF tableVars
  <2> QED
    BY <1>0, <2>1, Zenon DEF Honest, Copies, rows
<1>2. CASE Tick
  <2>1. PICK e \in Copies : d = [e EXCEPT !.age = Older(e.age)]
    <3>1. /\ d \in OlderEntries(cache) \/ \E g \in Selector : d \in OlderEntries(list[g])
      <4>1. cache' = OlderEntries(cache) /\ \A g \in Selector : list'[g] = OlderEntries(list[g])
        BY <1>2, Zenon DEF Tick
      <4> QED
        BY <4>1, Zenon DEF Copies
    <3> QED
      BY <3>1, Zenon DEF OlderEntries, Copies
  <2> QED
    BY <1>0, <1>2, <2>1, HonestTick
<1>3. ASSUME NEW s \in Server, ServerStep(s) PROVE Honest(d)'
  <2>1. UNCHANGED <<cache, list>>
    BY <1>3, SidesApart DEF selectorVars
  <2>2. d \in Copies
    BY <2>1, Zenon DEF Copies
  <2> QED
    BY <1>0, <1>3, <2>2, HonestServer
<1>4. ASSUME NEW g \in Selector, SelectorStep(g) PROVE Honest(d)'
  <2>1. UNCHANGED tableVars
    BY <1>4, SidesApart
  <2>2. Honest(d)
    <3>1. CASE d \in Copies
      BY <1>0, <3>1
    <3>2. ASSUME NEW i \in Alive(g), d = [row |-> i, age |-> age[i]]
          PROVE  Honest(d)
      <4>1. i \in 1 .. rows /\ i \notin dereg /\ i \in Row
        <5>1. rows \in Nat /\ rows <= MaxRows
          BY SMT DEF TypeOK, TableTypeOK, rows
        <5>2. i \in 1 .. rows /\ i \notin dereg
          BY DEF Alive
        <5> QED
          BY <5>1, <5>2, NamingAssumption, SMT DEF Row
      <4>2. age[i] <= age[i] /\ i <= rows
        BY <4>1, NamingAssumption, SMT DEF TypeOK, TableTypeOK, Age, Old
      <4> QED
        BY <3>2, <4>1, <4>2, SMT DEF Honest
    <3> QED
      BY <1>4, <3>1, <3>2, NewCopies, Zenon
  <2> QED
    BY <2>1, <2>2, Zenon DEF Honest, tableVars, rows
<1> QED
  BY <1>1, <1>2, <1>3, <1>4, Zenon DEF Next, vars, selectorVars

\* A step keeps what a selector is about to store fresh.
LEMMA ListsFreshStep ==
  ASSUME TypeOK, ListsFresh, [Next]_vars
  PROVE  ListsFresh'
<1> USE NamingAssumption
<1> SUFFICES ASSUME NEW g \in Selector, pc'[g] = "store", NEW d \in list'[g]
             PROVE  d.age <= Live + elapsed'[g]
  BY Zenon DEF ListsFresh
<1>0. elapsed[g] \in Nat /\ list[g] \subseteq Entry
  BY SMT DEF TypeOK, ClientTypeOK
<1>1. CASE UNCHANGED selectorVars
  BY <1>1, Zenon DEF ListsFresh, selectorVars
<1>2. CASE Tick
  <2>1. pc[g] = "store" /\ elapsed'[g] = elapsed[g] + 1
    BY <1>2, SMT DEF Tick, Busy
  <2>2. PICK e \in list[g] : d = [e EXCEPT !.age = Older(e.age)]
    <3>1. list'[g] = OlderEntries(list[g])
      BY <1>2, Zenon DEF Tick
    <3> QED
      BY <3>1, Zenon DEF OlderEntries
  <2>3. e.age \in Age /\ d.age = Older(e.age)
    BY <1>0, <2>2, SMT DEF Entry
  <2>4. e.age <= Live + elapsed[g]
    BY <2>1 DEF ListsFresh
  <2>5. Older(e.age) <= e.age + 1 /\ Older(e.age) \in Nat /\ e.age \in Nat
    BY <2>3, OlderInAge, SMT DEF Age, Old
  <2> QED
    BY <1>0, <2>1, <2>3, <2>4, <2>5, SMT
<1>3. ASSUME NEW h \in Selector, SelectorStep(h), h # g PROVE d.age <= Live + elapsed'[g]
  <2>1. pc'[g] = pc[g]
    BY <1>3, SMT DEF TypeOK, ClientTypeOK, SelectorStep, SelectCached, Query, Fallback,
      SelectStore, ReportLoad, ReportStore, Finish, Return
  <2>2. list'[g] = list[g]
    BY <1>3, SMT DEF TypeOK, ClientTypeOK, SelectorStep, SelectCached, Query, Fallback,
      SelectStore, ReportLoad, ReportStore, Finish
  <2>3. elapsed'[g] = elapsed[g]
    BY <1>3, SMT DEF TypeOK, ClientTypeOK, SelectorStep, SelectCached, Query, Fallback,
      SelectStore, ReportLoad, ReportStore, Finish
  <2> QED
    BY <2>1, <2>2, <2>3, Zenon DEF ListsFresh
<1>4. CASE SelectorStep(g)
  <2>1. Query(g)
    BY <1>4, SMT DEF TypeOK, ClientTypeOK, SelectorStep, SelectCached, Fallback,
      SelectStore, ReportLoad, ReportStore, Finish, Return
  <2>2. list' = [list EXCEPT ![g] = {[row |-> i, age |-> age[i]] : i \in Alive(g)}]
    BY <2>1, SMT DEF TypeOK, ClientTypeOK, Query
  <2>3. PICK i \in Alive(g) : d = [row |-> i, age |-> age[i]]
    BY <2>2, Zenon DEF TypeOK, ClientTypeOK
  <2>4. age[i] <= Live + elapsed[g]
    BY DEF Alive
  <2> QED
    BY <2>1, <2>3, <2>4, SMT DEF Query
<1> QED
  BY <1>1, <1>2, <1>3, <1>4, SidesApart, Zenon DEF Next, vars
-----------------------------------------------------------------------------
(* The theorems.                                                           *)

\* The initial states satisfy the invariant.
LEMMA InitInvariant == Init => IInv
<1> SUFFICES ASSUME Init PROVE IInv
  OBVIOUS
<1> USE NamingAssumption
<1>0. rows = 0 /\ owner \in Seq(Server)
  BY SMT DEF Init, rows
<1>1. TypeOK
  <2>1. TableTypeOK
    BY <1>0, SMT DEF Init, TableTypeOK, Age, Old
  <2>2. ServerTypeOK
    BY <1>0, SMT DEF Init, ServerTypeOK
  <2>3. ClientTypeOK
    BY SMT DEF Init, ClientTypeOK, NoResult
  <2> QED
    BY <2>1, <2>2, <2>3 DEF TypeOK
<1>2. TableInOrder /\ RowsOwned /\ HeartbeatInTime
  BY SMT DEF Init, TableInOrder, RowsOwned, HeartbeatInTime
<1>3. CopiesAreHonest /\ ListsFresh
  <2>1. cache \cup UNION {list[g] : g \in Selector} = {}
    BY Zenon DEF Init
  <2>2. CopiesAreHonest
    BY <2>1, Zenon DEF CopiesAreHonest
  <2> QED
    BY <2>2, Zenon DEF Init, ListsFresh
<1> QED
  BY <1>1, <1>2, <1>3 DEF IInv

\* A step keeps the invariant.
LEMMA StepInvariant == IInv /\ [Next]_vars => IInv'
  BY TypeStep, TableInOrderStep, RowsOwnedStep, HeartbeatStep, HonestStep, ListsFreshStep,
    Zenon DEF IInv

\* The invariant holds in every state the servers and selectors of package
\* naming/mysql reach, whatever their number and the intervals.
THEOREM Invariance == Spec => []IInv
  BY InitInvariant, StepInvariant, PTL DEF Spec

\* Every variable keeps its type: no process holds a row that was never inserted,
\* no copy has an age that no row can have.
THEOREM TypeCorrect == Spec => []TypeOK
<1>1. IInv => TypeOK
  BY DEF IInv
<1> QED
  BY <1>1, Invariance, PTL

\* A registered service is never deregistered nor too old to be selected as long as
\* no two of its heartbeats in a row fail, provided that two intervals and the
\* delays of the Register and of the three heartbeats they separate fit into
\* liveTimeInterval, as 2 s twice fit into 5 s (mysql.go:18-20, registry.go:174).
THEOREM StaysAlive ==
  ASSUME 2 * Interval + 4 * Slack <= Live
  PROVE  Spec => []RegisteredIsAlive
<1>1. IInv => RegisteredIsAlive
  <2> SUFFICES ASSUME IInv, NEW s \in Server, node[s] # 0, missed[s] <= 1
               PROVE  node[s] \notin dereg /\ age[node[s]] <= Live
    BY Zenon DEF RegisteredIsAlive
  <2> USE NamingAssumption
  <2>1. node[s] \notin dereg
    BY DEF IInv, RowsOwned
  <2>2. /\ wait[s] \in 0 .. Interval /\ late[s] \in 0 .. Slack /\ missed[s] \in {0, 1}
        /\ node[s] \in 0 .. rows
    BY SMT DEF IInv, TypeOK, ServerTypeOK
  <2>3. age[node[s]] \in Nat
    <3>1. rows \in Nat /\ rows <= MaxRows
      BY SMT DEF IInv, TypeOK, TableTypeOK, rows
    <3>2. node[s] \in Row
      BY <2>2, <3>1, SMT DEF Row
    <3> QED
      BY <3>2, SMT DEF IInv, TypeOK, TableTypeOK, Age, Old
  <2>4. Due(s) <= 2 * Interval + 4 * Slack
    <3>1. /\ missed[s] = 0 => Due(s) <= Interval + 3 * Slack
          /\ missed[s] = 1 => Due(s) <= 2 * Interval + 4 * Slack
      BY DEF IInv, HeartbeatInTime
    <3>2. Due(s) \in Nat
      BY <2>2, <2>3, SMT DEF Due
    <3> QED
      BY <2>2, <3>1, <3>2, SMT
  <2>5. age[node[s]] <= Due(s)
    BY <2>2, <2>3, SMT DEF Due
  <2> QED
    BY <2>1, <2>2, <2>3, <2>4, <2>5, SMT DEF Due
<1> QED
  BY <1>1, Invariance, PTL

\* No copy of a row, in the cache or on its way there, is taken to be younger than
\* the row, nor was read after the row was deregistered (selector.go:83, 103, 114).
THEOREM Honesty == Spec => []CopiesAreHonest
<1>1. IInv => CopiesAreHonest
  BY DEF IInv
<1> QED
  BY <1>1, Invariance, PTL

\* What FreshSelect says of one Select that returns.
AnswerIsFresh(g) ==
  pc[g] # "done" /\ pc'[g] = "done" /\ result'[g].kind = "alive" =>
    LET i == result'[g].row
    IN /\ age[i] <= Live + elapsed'[g]
       /\ i \in dereg => gone[i] <= Live + elapsed'[g]

\* A Select that returns an entry no older than allowed returns a node that was heard
\* from, and not deregistered before, in that time.
LEMMA ReturnFresh ==
  ASSUME IInv, NEW g \in Selector, NEW e \in Copies,
         pc' = [pc EXCEPT ![g] = "done"],
         result' = [result EXCEPT ![g] = [kind |-> "alive", row |-> e.row]],
         elapsed'[g] \in Nat, e.age <= Live + elapsed'[g]
  PROVE  AnswerIsFresh(g)
<1> USE NamingAssumption
<1>1. result'[g].row = e.row
  BY SMT DEF IInv, TypeOK, ClientTypeOK
<1>2. Honest(e)
  BY Zenon DEF IInv, CopiesAreHonest, Copies, Honest
<1>3. e.row \in Row /\ e.age \in Nat
  BY CopiesType, SMT DEF IInv, Entry, Age, Old
<1>4. age[e.row] \in Nat /\ gone[e.row] \in Nat
  BY <1>3, SMT DEF IInv, TypeOK, TableTypeOK, Age, Old
<1>5. /\ age[e.row] <= Live + elapsed'[g]
      /\ e.row \in dereg => gone[e.row] <= Live + elapsed'[g]
  BY <1>2, <1>3, <1>4, SMT DEF Honest
<1> QED
  BY <1>1, <1>5, Zenon DEF AnswerIsFresh

\* The same of every step.
LEMMA FreshStep ==
  ASSUME IInv, [Next]_vars, NEW g \in Selector
  PROVE  AnswerIsFresh(g)
<1> USE NamingAssumption
<1>1. CASE pc'[g] = pc[g]
  BY <1>1, Zenon DEF AnswerIsFresh
<1>2. ASSUME NEW h \in Selector, SelectorStep(h), h # g PROVE pc'[g] = pc[g]
  BY <1>2, SMT DEF IInv, TypeOK, ClientTypeOK, SelectorStep, SelectCached, Query, Fallback,
    SelectStore, ReportLoad, ReportStore, Finish, Return
<1>3. CASE SelectorStep(g)
  <2>0. elapsed[g] \in Nat
    BY SMT DEF IInv, TypeOK, ClientTypeOK
  <2>1. CASE SelectCached(g)
    <3>1. elapsed'[g] = 0
      BY <2>1, SMT DEF IInv, TypeOK, ClientTypeOK, SelectCached
    <3>2. ASSUME NEW e \in Fresh, Return(g, "alive", e.row) PROVE AnswerIsFresh(g)
      <4>1. e \in Copies /\ e.age <= Live
        BY Zenon DEF Fresh, Copies
      <4>2. elapsed'[g] \in Nat /\ Live + elapsed'[g] = Live
        BY <3>1, SMT
      <4> QED
        BY <3>1, <3>2, <4>1, <4>2, ReturnFresh, Zenon DEF Return
    <3>3. CASE pc' = [pc EXCEPT ![g] = "query"]
      BY <3>3, SMT DEF IInv, TypeOK, ClientTypeOK, AnswerIsFresh
    <3> QED
      BY <2>1, <3>2, <3>3, Zenon DEF SelectCached
  <2>2. CASE SelectStore(g)
    <3>1. PICK e \in list[g] : Return(g, "alive", e.row)
      BY <2>2 DEF SelectStore
    <3>2. e \in Copies /\ e.age <= Live + elapsed[g] /\ elapsed' = elapsed
      BY <2>2, Zenon DEF Copies, IInv, ListsFresh, SelectStore
    <3> QED
      BY <2>0, <3>1, <3>2, ReturnFresh, Zenon DEF Return
  <2>3. CASE Fallback(g)
    <3>1. result'[g].kind # "alive"
      <4>1. PICK kind \in {"flexible", "error"}, row \in 0 .. MaxRows : Return(g, kind, row)
        <5>1. \A e \in cache : e.row \in 0 .. MaxRows
          BY SMT DEF IInv, TypeOK, ClientTypeOK, Entry, Row
        <5>2. 0 \in 0 .. MaxRows
          BY SMT
        <5> QED
          BY <2>3, <5>1, <5>2, Zenon DEF Fallback
      <4> QED
        BY <4>1, SMT DEF IInv, TypeOK, ClientTypeOK, Return
    <3> QED
      BY <3>1, Zenon DEF AnswerIsFresh
  <2>4. CASE Query(g) \/ ReportLoad(g) \/ ReportStore(g) \/ Finish(g)
    <3>1. pc'[g] # "done"
      BY <2>4, SMT DEF IInv, TypeOK, ClientTypeOK, Query, ReportLoad, ReportStore, Finish
    <3> QED
      BY <3>1, Zenon DEF AnswerIsFresh
  <2> QED
    BY <1>3, <2>1, <2>2, <2>3, <2>4, Zenon DEF SelectorStep
<1>4. CASE UNCHANGED pc
  BY <1>1, <1>4
<1>5. CASE Tick
  BY <1>4, <1>5, Zenon DEF Tick
<1> QED
  BY <1>1, <1>2, <1>3, <1>4, <1>5, SidesApart, Zenon DEF Next, vars, selectorVars

\* Select returns a node that was heard from at most Live before it was called, and
\* was not deregistered earlier than that, unless it has to be flexible, however
\* Selects, Reports and their writes to the cache interleave (selector.go:35, 42,
\* 83, 103, 114).
THEOREM Freshness == Spec => FreshSelect
<1>1. IInv /\ [Next]_vars => [\A g \in Selector : AnswerIsFresh(g)]_vars
  BY FreshStep, Zenon
<1>2. Spec => [][\A g \in Selector : AnswerIsFresh(g)]_vars
  BY <1>1, Invariance, PTL DEF Spec
<1> QED
  BY <1>2, Zenon DEF FreshSelect, AnswerIsFresh
=============================================================================
