------------------------- MODULE ClientBufferProofs -------------------------
(***************************************************************************)
(* Proofs about ClientBuffer, for any callers, targets, timeouts and       *)
(* bounds.  Each lemma shows that a step from a state of IInv keeps one    *)
(* part of it; Invariance puts them together and the theorems after it     *)
(* read the properties off.                                                *)
(***************************************************************************)
EXTENDS ClientBuffer, TLAPS

-----------------------------------------------------------------------------
(* The inductive invariant.                                                *)

\* Why GracePeriod holds: as long as the client is stored, or sleeps for what is left of
\* that timeout, the caller is safe.
GraceKept ==
  \A g \in Caller : pc[g] = "done" =>
    LET k == got[g].client
    IN /\ k \in 1 .. Len(made)
       /\ got[g].timeout \in Sleep
       /\ Stored(k) => cached.timeout = got[g].timeout
       /\ ~Stored(k) => k \in sleeping \cup closed
       /\ k \in sleeping => held[g] + remaining[k] >= got[g].timeout
       /\ k \in closed => held[g] >= got[g].timeout

\* Only clients that were made are anywhere.
Numbered == cached.client \in 0 .. Len(made) /\ sleeping \cup closed \subseteq 1 .. Len(made)

\* Why ServesCurrentTarget holds: what a caller read stays the configuration until the
\* next change, and only callers that read a target make a client.
ReadingKept ==
  \A g \in Caller :
    /\ readAt[g] <= changes
    /\ pc[g] \in {"read", "refresh", "made"} /\ readAt[g] = changes
         => read[g].target = config.target
    /\ pc[g] \in {"refresh", "made"} => read[g].target # NoTarget

\* The inductive invariant.
IInv ==
  TypeOK /\ Numbered /\ Lifecycle /\ GraceKept /\ ReadingKept /\ ServesCurrentTarget

-----------------------------------------------------------------------------
(* What the steps do.                                                      *)

\* Smaller stays within the longest sleep.
LEMMA SmallerInSleep ==
  ASSUME NEW n \in Timeout
  PROVE  Smaller(n, MaxTimeout) \in Sleep /\ Smaller(n, MaxTimeout) <= n
  BY BufferAssumption, SMT DEF Smaller, Sleep

\* A stored context is that of a client; there is none when the client is 0.
LEMMA StoredContext ==
  ASSUME TypeOK
  PROVE  cached = NoContext <=> cached.client = 0
  BY BufferAssumption, SMT DEF TypeOK, Context, NoContext, Client

\* The ways Lookup can go: return the stored client, give up, or refresh.
LEMMA LookupCases ==
  ASSUME NEW g \in Caller, Lookup(g)
  PROVE  \/ /\ cached # NoContext /\ read[g].target \in {NoTarget, cached.target}
            /\ Return(g, cached)
         \/ Fail(g)
         \/ /\ read[g].target # NoTarget
            /\ pc' = [pc EXCEPT ![g] = "refresh"]
            /\ UNCHANGED <<got, held>>
  BY Zenon DEF Lookup

\* A step keeps the types.
LEMMA TypeStep ==
  ASSUME IInv, [Next]_vars
  PROVE  TypeOK'
<1> USE BufferAssumption
<1>1. TypeOK /\ Lifecycle /\ ReadingKept
  BY Zenon DEF IInv
<1>2. CASE UNCHANGED vars
  BY <1>1, <1>2, SMT DEF TypeOK, vars, callerVars, closeVars
<1>3. CASE Change
  BY <1>1, <1>3, SMT DEF TypeOK, Change, callerVars, closeVars
<1>4. CASE Tick
  <2>1. held' \in [Caller -> Sleep]
    BY <1>1, <1>4, SMT DEF TypeOK, Tick, Sleep, Smaller
  <2>2. remaining' \in [Client -> Sleep]
    BY <1>1, <1>4, SMT DEF TypeOK, Tick, Sleep
  <2> QED
    BY <1>1, <1>4, <2>1, <2>2, SMT DEF TypeOK, Tick
<1>5. ASSUME NEW g \in Caller, GetClient(g) \/ Release(g) PROVE TypeOK'
  <2>1. CASE ReadConfig(g)
    <3>1. config.target \in Target \cup {NoTarget} /\ config.timeout \in Timeout
      BY <1>1, SMT DEF TypeOK, Config
    <3>2. Smaller(config.timeout, MaxTimeout) \in Sleep
      BY <3>1, SmallerInSleep, Zenon
    <3>3. read' \in [Caller -> Reading]
      BY <1>1, <2>1, <3>1, <3>2, SMT DEF TypeOK, ReadConfig, Reading
    <3> QED
      BY <1>1, <2>1, <3>3, SMT DEF TypeOK, ReadConfig, closeVars
  <2>2. CASE Lookup(g)
    <3>1. UNCHANGED <<config, changes, cached, made, read, readAt, newClient, closeVars>>
      BY <2>2, Zenon DEF Lookup
    <3>2. /\ got' \in [Caller -> Context \cup {NoContext}] /\ held' \in [Caller -> Sleep]
          /\ pc' \in [Caller -> {"idle", "read", "refresh", "made", "done"}]
      <4>1. CASE cached # NoContext /\ Return(g, cached)
        BY <1>1, <4>1, SMT DEF TypeOK, Return, Sleep
      <4>2. CASE Fail(g)
        BY <1>1, <4>2, SMT DEF TypeOK, Fail
      <4>3. CASE pc' = [pc EXCEPT ![g] = "refresh"] /\ UNCHANGED <<got, held>>
        BY <1>1, <4>3, SMT DEF TypeOK
      <4> QED
        BY <2>2, <4>1, <4>2, <4>3, LookupCases, Zenon
    <3> QED
      BY <1>1, <3>1, <3>2, SMT DEF TypeOK, closeVars
  <2>3. CASE NewClient(g)
    <3>1. config.target \in Target \cup {NoTarget}
      BY <1>1, SMT DEF TypeOK, Config
    <3>2. made' \in Seq(Target \cup {NoTarget}) /\ Len(made') = Len(made) + 1
          /\ Len(made) \in Nat
      BY <1>1, <2>3, <3>1, SMT DEF TypeOK, NewClient
    <3>3. Len(made') <= MaxClients /\ Len(made) + 1 \in Client
      BY <1>1, <2>3, <3>2, SMT DEF NewClient, Client
    <3> QED
      BY <1>1, <2>3, <3>2, <3>3, SMT DEF TypeOK, NewClient, closeVars
  <2>4. CASE NewClientFails(g)
    BY <1>1, <2>4, SMT DEF TypeOK, NewClientFails, Fail, closeVars
  <2>5. CASE Swap(g)
    <3> DEFINE context == [client  |-> newClient[g],
                           target  |-> read[g].target,
                           timeout |-> read[g].timeout]
    <3>1. read[g] \in Reading /\ read[g].target # NoTarget
      BY <1>1, <2>5, SMT DEF TypeOK, ReadingKept, Swap
    <3>2. newClient[g] \in Client
      BY <1>1, <2>5, SMT DEF TypeOK, Lifecycle, Swap, Client
    <3>3. context \in Context
      BY <3>1, <3>2, SMT DEF Reading, Context
    <3>4. cached' = context /\ Return(g, context) /\ Retire(cached)
      BY <2>5, Zenon DEF Swap
    <3>5. sleeping' \subseteq Client /\ remaining' \in [Client -> Sleep]
      <4>1. CASE cached = NoContext
        BY <1>1, <3>4, <4>1, Zenon DEF TypeOK, Retire
      <4>2. CASE cached # NoContext
        <5>1. cached.client \in Client /\ cached.timeout \in Sleep
          BY <1>1, <4>2, SMT DEF TypeOK, Context
        <5>2. /\ sleeping' = sleeping \cup {cached.client}
              /\ remaining' = [remaining EXCEPT ![cached.client] = cached.timeout]
          BY <3>4, <4>2, Zenon DEF Retire
        <5> QED
          BY <1>1, <5>1, <5>2, SMT DEF TypeOK
      <4> QED
        BY <4>1, <4>2
    <3>6. got' \in [Caller -> Context \cup {NoContext}] /\ held' \in [Caller -> Sleep]
          /\ pc' \in [Caller -> {"idle", "read", "refresh", "made", "done"}]
      BY <1>1, <3>3, <3>4, SMT DEF TypeOK, Return, Sleep
    <3>7. /\ newClient' = [newClient EXCEPT ![g] = 0]
          /\ UNCHANGED <<config, changes, made, read, readAt, closed>>
      BY <2>5, Zenon DEF Swap
    <3> HIDE DEF context
    <3> QED
      BY <1>1, <3>3, <3>4, <3>5, <3>6, <3>7, SMT DEF TypeOK
  <2>6. CASE Release(g)
    BY <1>1, <2>6, SMT DEF TypeOK, Release, closeVars, Sleep
  <2> QED
    BY <1>5, <2>1, <2>2, <2>3, <2>4, <2>5, <2>6 DEF GetClient
<1>6. ASSUME NEW k \in Client, Close(k) PROVE TypeOK'
  BY <1>1, <1>6, SMT DEF TypeOK, Close, callerVars
<1> QED
  BY <1>2, <1>3, <1>4, <1>5, <1>6 DEF Next

\* What Swap does: the stored client, if any, starts to sleep for its own timeout.
LEMMA SwapEffect ==
  ASSUME TypeOK, NEW g \in Caller, Swap(g)
  PROVE  /\ cached'.client = newClient[g] /\ cached'.timeout = read[g].timeout
         /\ cached'.target = read[g].target
         /\ got' = [got EXCEPT ![g] = cached']
         /\ held' = [held EXCEPT ![g] = 0]
         /\ pc' = [pc EXCEPT ![g] = "done"] /\ pc[g] = "made"
         /\ newClient' = [newClient EXCEPT ![g] = 0]
         /\ UNCHANGED <<config, changes, made, read, readAt, closed>>
         /\ cached.client = 0 => UNCHANGED <<sleeping, remaining>>
         /\ cached.client # 0 =>
              /\ cached.client \in Client /\ cached.timeout \in Sleep
              /\ sleeping' = sleeping \cup {cached.client}
              /\ remaining' = [remaining EXCEPT ![cached.client] = cached.timeout]
<1> DEFINE context == [client  |-> newClient[g],
                       target  |-> read[g].target,
                       timeout |-> read[g].timeout]
<1>1. /\ cached' = context /\ Return(g, context) /\ Retire(cached)
      /\ pc[g] = "made" /\ newClient' = [newClient EXCEPT ![g] = 0]
      /\ UNCHANGED <<config, changes, made, read, readAt, closed>>
  BY Zenon DEF Swap
<1>2. context.client = newClient[g] /\ context.target = read[g].target
      /\ context.timeout = read[g].timeout
  OBVIOUS
<1>3. CASE cached = NoContext
  <2>1. cached.client = 0 /\ UNCHANGED <<sleeping, remaining>>
    BY <1>1, <1>3, StoredContext, Zenon DEF Retire
  <2> HIDE DEF context
  <2> QED
    BY <1>1, <1>2, <2>1, Zenon DEF Return
<1>4. CASE cached # NoContext
  <2>1. cached.client # 0 /\ cached.client \in Client /\ cached.timeout \in Sleep
    BY <1>4, StoredContext, SMT DEF TypeOK, Context
  <2>2. /\ sleeping' = sleeping \cup {cached.client}
        /\ remaining' = [remaining EXCEPT ![cached.client] = cached.timeout]
    BY <1>1, <1>4, Zenon DEF Retire
  <2> HIDE DEF context
  <2> QED
    BY <1>1, <1>2, <2>1, <2>2, Zenon DEF Return
<1> QED
  BY <1>3, <1>4, Zenon

\* A caller that returns with the stored client, or gives up, moves no client.
LEMMA LookupKeepsClients ==
  ASSUME TypeOK, NEW g \in Caller, Lookup(g)
  PROVE  /\ UNCHANGED <<cached, made, newClient, sleeping, closed>>
         /\ \A h \in Caller : pc'[h] = "made" <=> pc[h] = "made"
<1>1. UNCHANGED <<cached, made, newClient, sleeping, closed>> /\ pc[g] = "read"
  BY Zenon DEF Lookup, closeVars
<1>2. \/ pc' = [pc EXCEPT ![g] = "done"]
      \/ pc' = [pc EXCEPT ![g] = "idle"]
      \/ pc' = [pc EXCEPT ![g] = "refresh"]
  BY LookupCases, Zenon DEF Return, Fail
<1> QED
  BY <1>1, <1>2, SMT DEF TypeOK

\* A step moves a client from one place to the next, never to two or to none.
LEMMA LifecycleStep ==
  ASSUME IInv, [Next]_vars
  PROVE  Numbered' /\ Lifecycle'
<1> USE BufferAssumption
<1>1. TypeOK /\ Numbered /\ Lifecycle
  BY Zenon DEF IInv
<1>2. ASSUME UNCHANGED <<cached, made, newClient, sleeping, closed>>,
             \A h \in Caller : pc'[h] = "made" <=> pc[h] = "made"
      PROVE  Numbered' /\ Lifecycle'
  BY <1>1, <1>2, SMT DEF Numbered, Lifecycle, Stored, Pending
<1>3. CASE UNCHANGED vars \/ Change \/ Tick
  BY <1>2, <1>3 DEF vars, callerVars, closeVars, Change, Tick
<1>4. ASSUME NEW g \in Caller, GetClient(g) \/ Release(g)
      PROVE  Numbered' /\ Lifecycle'
  <2>1. CASE ReadConfig(g)
    BY <1>1, <1>2, <2>1, SMT DEF ReadConfig, closeVars, TypeOK
  <2>2. CASE Lookup(g)
    BY <1>1, <1>2, <2>2, LookupKeepsClients
  <2>3. CASE NewClient(g)
    <3>1. /\ Len(made') = Len(made) + 1 /\ Len(made) \in Nat
          /\ newClient' = [newClient EXCEPT ![g] = Len(made) + 1]
          /\ pc' = [pc EXCEPT ![g] = "made"]
          /\ UNCHANGED <<cached, sleeping, closed>>
      BY <1>1, <2>3, SMT DEF TypeOK, NewClient, closeVars
    <3>2. /\ newClient'[g] = Len(made) + 1 /\ pc'[g] = "made" /\ pc[g] # "made"
          /\ \A h \in Caller \ {g} : newClient'[h] = newClient[h] /\ pc'[h] = pc[h]
      BY <1>1, <2>3, <3>1, SMT DEF TypeOK, NewClient
    <3> QED
      BY <1>1, <3>1, <3>2, SMT DEF Numbered, Lifecycle, Stored, Pending
  <2>4. CASE NewClientFails(g)
    BY <1>1, <1>2, <2>4, SMT DEF NewClientFails, Fail, closeVars, TypeOK
  <2>5. CASE Swap(g)
    <3> DEFINE k == newClient[g]
    <3>1. /\ cached'.client = k /\ UNCHANGED <<made, closed>>
          /\ cached.client = 0 => sleeping' = sleeping
          /\ cached.client # 0 => sleeping' = sleeping \cup {cached.client}
      BY <1>1, <2>5, SwapEffect, Zenon
    <3>2. /\ pc[g] = "made" /\ pc'[g] # "made"
          /\ \A h \in Caller \ {g} : newClient'[h] = newClient[h] /\ pc'[h] = pc[h]
      BY <1>1, <2>5, SwapEffect, SMT DEF TypeOK
    <3>3. /\ k \in 1 .. Len(made) /\ k # cached.client /\ k \notin sleeping \cup closed
          /\ \A h \in Caller \ {g} : pc[h] = "made" => newClient[h] # k
      BY <1>1, <3>2, SMT DEF Lifecycle, Stored, Pending
    <3> HIDE DEF k
    <3>4. Numbered'
      BY <1>1, <3>1, <3>3, SMT DEF Numbered, TypeOK
    <3>5. ASSUME NEW j \in 1 .. Len(made)
          PROVE  \/ Stored(j)' \/ j \in sleeping' \/ j \in closed'
                 \/ \E h \in Caller : Pending(h, j)'
      <4>1. CASE \E h \in Caller \ {g} : Pending(h, j)
        BY <3>2, <4>1, Zenon DEF Pending
      <4>2. CASE Pending(g, j)
        BY <3>1, <4>2, Zenon DEF Pending, Stored, k
      <4>3. CASE Stored(j) \/ j \in sleeping \/ j \in closed
        BY <3>1, <4>3, SMT DEF Stored
      <4> QED
        BY <1>1, <4>1, <4>2, <4>3, Zenon DEF Lifecycle
    <3>6. /\ sleeping' \cap closed' = {}
          /\ cached'.client \notin sleeping' \cup closed'
      BY <1>1, <3>1, <3>3, SMT DEF Lifecycle
    <3>7. ASSUME NEW h \in Caller, pc'[h] = "made"
          PROVE  /\ newClient'[h] \in 1 .. Len(made')
                 /\ ~Stored(newClient[h])' /\ newClient'[h] \notin sleeping' \cup closed'
                 /\ \A i \in Caller \ {h} : ~Pending(i, newClient[h])'
      <4>1. h # g /\ pc[h] = "made" /\ newClient'[h] = newClient[h]
        BY <3>2, <3>7, Zenon
      <4>2. /\ newClient[h] \in 1 .. Len(made) /\ newClient[h] # cached.client
            /\ newClient[h] \notin sleeping \cup closed /\ newClient[h] # k
            /\ \A i \in Caller \ {h} : pc[i] = "made" => newClient[i] # newClient[h]
        BY <1>1, <3>3, <4>1, Zenon DEF Lifecycle, Stored, Pending
      <4> QED
        BY <3>1, <3>2, <4>1, <4>2, SMT DEF Stored, Pending
    <3> QED
      BY <3>1, <3>4, <3>5, <3>6, <3>7, Zenon DEF Lifecycle
  <2>6. CASE Release(g)
    BY <1>1, <1>2, <2>6, SMT DEF Release, closeVars, TypeOK
  <2> QED
    BY <1>4, <2>1, <2>2, <2>3, <2>4, <2>5, <2>6 DEF GetClient
<1>5. ASSUME NEW k \in Client, Close(k) PROVE Numbered' /\ Lifecycle'
  <2>1. /\ k \in sleeping /\ sleeping' = sleeping \ {k} /\ closed' = closed \cup {k}
        /\ UNCHANGED <<cached, made, pc, newClient>>
    BY <1>5, Zenon DEF Close, callerVars
  <2> QED
    BY <1>1, <2>1, SMT DEF Numbered, Lifecycle, Stored, Pending
<1> QED
  BY <1>3, <1>4, <1>5 DEF Next

\* GraceKept for one caller.
Safe(g) ==
  LET k == got[g].client
  IN /\ k \in 1 .. Len(made)
     /\ got[g].timeout \in Sleep
     /\ Stored(k) => cached.timeout = got[g].timeout
     /\ ~Stored(k) => k \in sleeping \cup closed
     /\ k \in sleeping => held[g] + remaining[k] >= got[g].timeout
     /\ k \in closed => held[g] >= got[g].timeout

\* GraceKept says that whoever has a client is safe.
LEMMA GraceIsSafe == GraceKept <=> \A g \in Caller : pc[g] = "done" => Safe(g)
  BY Zenon DEF GraceKept, Safe

\* A step that makes neither time pass nor a client start to sleep or close keeps
\* safe whoever it does not give a client.
LEMMA SafeUndisturbed ==
  ASSUME NEW g \in Caller, Safe(g), got'[g] = got[g], held'[g] = held[g],
         UNCHANGED <<cached, sleeping, remaining, closed>>,
         Len(made') >= Len(made), Len(made) \in Nat, Len(made') \in Nat
  PROVE  Safe(g)'
  BY SMT DEF Safe, Stored

\* A step keeps safe whoever has a client; only Tick, Swap and Close touch what Safe
\* speaks of.
LEMMA GraceStep ==
  ASSUME IInv, [Next]_vars
  PROVE  GraceKept'
<1> USE BufferAssumption
<1>1. TypeOK /\ Numbered /\ Lifecycle
      /\ \A g \in Caller : pc[g] = "done" => Safe(g)
  BY GraceIsSafe, Zenon DEF IInv
<1>2. Len(made) \in Nat
  BY <1>1, SMT DEF TypeOK
<1> SUFFICES ASSUME NEW h \in Caller, pc'[h] = "done"
             PROVE  Safe(h)'
  BY Zenon DEF GraceKept, Safe, Stored
<1>3. CASE UNCHANGED vars \/ Change
  <2>1. UNCHANGED <<cached, sleeping, remaining, closed, made, got, held, pc>>
    BY <1>3, Zenon DEF vars, callerVars, closeVars, Change
  <2> QED
    BY <1>1, <1>2, <2>1, SafeUndisturbed, SMT
<1>4. CASE Tick
  <2> DEFINE k == got[h].client
  <2>1. /\ UNCHANGED <<cached, sleeping, closed, made, got, pc>>
        /\ pc[h] = "done" /\ Safe(h)
    BY <1>1, <1>4, Zenon DEF Tick
  <2>2. /\ held[h] \in Nat /\ held[h] <= MaxTimeout
        /\ held'[h] = Smaller(held[h] + 1, MaxTimeout)
    BY <1>1, <1>4, <2>1, SMT DEF Tick, TypeOK, Sleep
  <2>3. k \in Client
    BY <1>1, <1>2, <2>1, SMT DEF Safe, TypeOK, Client
  <2>4. /\ remaining[k] \in Nat
        /\ remaining'[k] = IF remaining[k] > 0 THEN remaining[k] - 1 ELSE 0
    BY <1>1, <1>4, <2>3, SMT DEF Tick, TypeOK, Sleep
  <2>5. got[h].timeout \in Nat /\ got[h].timeout <= MaxTimeout
    BY <2>1, SMT DEF Safe, Sleep
  <2>6. held[h] + remaining[k] >= got[h].timeout
          => held'[h] + remaining'[k] >= got[h].timeout
    BY <2>2, <2>4, <2>5, SMT DEF Smaller
  <2>7. held[h] >= got[h].timeout => held'[h] >= got[h].timeout
    BY <2>2, <2>5, SMT DEF Smaller
  <2> QED
    BY <2>1, <2>6, <2>7, Zenon DEF Safe, Stored
<1>5. ASSUME NEW g \in Caller, GetClient(g) \/ Release(g) PROVE Safe(h)'
  <2>1. CASE ReadConfig(g) \/ NewClient(g) \/ NewClientFails(g) \/ Release(g)
    <3>1. /\ UNCHANGED <<cached, sleeping, remaining, closed>>
          /\ pc'[g] # "done"
          /\ \A i \in Caller \ {g} : /\ pc'[i] = pc[i] /\ got'[i] = got[i]
                                     /\ held'[i] = held[i]
      BY <1>1, <2>1, SMT DEF TypeOK, ReadConfig, NewClient, NewClientFails, Fail,
                            Release, closeVars
    <3>2. Len(made') \in Nat /\ Len(made') >= Len(made)
      BY <1>1, <2>1, SMT DEF TypeOK, ReadConfig, NewClient, NewClientFails, Release
    <3>3. h # g
      BY <3>1
    <3> QED
      BY <1>1, <1>2, <3>1, <3>2, <3>3, SafeUndisturbed, Zenon
  <2>2. CASE Lookup(g)
    <3>1. UNCHANGED <<cached, sleeping, remaining, closed, made>>
      BY <2>2, Zenon DEF Lookup, closeVars
    <3>2. CASE h # g
      <4>1. pc[h] = "done" /\ got'[h] = got[h] /\ held'[h] = held[h]
        BY <1>1, <2>2, <3>2, LookupCases, SMT DEF TypeOK, Return, Fail
      <4> QED
        BY <1>1, <1>2, <3>1, <4>1, SafeUndisturbed, SMT
    <3>3. CASE h = g
      <4>1. cached # NoContext /\ Return(g, cached)
        <5>1. CASE Fail(g)
          BY <1>1, <3>3, <5>1, SMT DEF Fail, TypeOK
        <5>2. CASE pc' = [pc EXCEPT ![g] = "refresh"]
          BY <1>1, <3>3, <5>2, SMT DEF TypeOK
        <5> QED
          BY <2>2, <5>1, <5>2, LookupCases, Zenon
      <4>2. got'[h] = cached
        BY <1>1, <3>3, <4>1, SMT DEF Return, TypeOK
      <4>3. /\ cached.client \in 1 .. Len(made) /\ cached.timeout \in Sleep
            /\ cached.client \notin sleeping \cup closed
        BY <1>1, <1>2, <4>1, StoredContext,
           SMT DEF TypeOK, Context, Numbered, Lifecycle
      <4> QED
        BY <3>1, <4>2, <4>3, Zenon DEF Safe, Stored
    <3> QED
      BY <3>2, <3>3
  <2>3. CASE Swap(g)
    <3> DEFINE k == newClient[g]
               old == cached.client
    <3>1. /\ cached'.client = k /\ cached'.timeout = read[g].timeout
          /\ got' = [got EXCEPT ![g] = cached'] /\ held' = [held EXCEPT ![g] = 0]
          /\ pc' = [pc EXCEPT ![g] = "done"] /\ pc[g] = "made"
          /\ UNCHANGED <<made, closed>>
          /\ old = 0 => UNCHANGED <<sleeping, remaining>>
          /\ old # 0 => /\ old \in Client /\ cached.timeout \in Sleep
                        /\ sleeping' = sleeping \cup {old}
                        /\ remaining' = [remaining EXCEPT ![old] = cached.timeout]
      BY <1>1, <2>3, SwapEffect, Zenon
    <3>2. /\ k \in 1 .. Len(made) /\ k # old /\ k \notin sleeping \cup closed
          /\ read[g].timeout \in Sleep
      BY <1>1, <3>1, SMT DEF Lifecycle, Stored, TypeOK, Reading
    <3>3. CASE h = g
      <4>1. got'[h] = cached'
        BY <1>1, <3>1, <3>3, SMT DEF TypeOK
      <4>2. k \notin sleeping' \cup closed'
        BY <3>1, <3>2, SMT
      <4> HIDE DEF k, old
      <4> QED
        BY <3>1, <3>2, <4>1, <4>2, Zenon DEF Safe, Stored
    <3>4. CASE h # g
      <4> DEFINE j == got[h].client
      <4>1. /\ pc[h] = "done" /\ Safe(h) /\ got'[h] = got[h] /\ held'[h] = held[h]
            /\ held[h] \in Nat
        BY <1>1, <3>1, <3>4, SMT DEF TypeOK, Sleep
      <4>2. /\ j \in 1 .. Len(made) /\ j # k /\ j \in Client
            /\ got[h].timeout \in Sleep
        BY <1>1, <1>2, <3>2, <4>1, SMT DEF Safe, Stored, TypeOK, Client
      <4>3. CASE j = old
        <5>a. Stored(j) /\ j = got[h].client
          BY <4>3, Zenon DEF Stored
        <5>b. cached.timeout = got[h].timeout
          BY <4>1, <5>a, Zenon DEF Safe
        <5>c. j \notin closed
          BY <1>1, <5>a, Zenon DEF Lifecycle, Stored
        <5>d. j # 0
          BY <1>2, <4>2, SMT
        <5>1. /\ j # 0 /\ j \notin closed /\ cached.timeout = got[h].timeout
          BY <5>b, <5>c, <5>d
        <5>2. j \in sleeping' /\ remaining'[j] = got[h].timeout
          BY <1>1, <3>1, <4>2, <4>3, <5>1, SMT DEF TypeOK
        <5>3. held[h] + got[h].timeout >= got[h].timeout
          BY <4>1, <4>2, SMT DEF Sleep
        <5>4. made' = made /\ closed' = closed /\ cached'.client # j
          BY <3>1, <4>2, Zenon
        <5> HIDE DEF k, old
        <5> QED
          BY <4>1, <4>2, <5>1, <5>2, <5>3, <5>4, SMT DEF Safe, Stored
      <4>4. CASE j # old
        <5>1. j \in sleeping' <=> j \in sleeping
          BY <3>1, <4>4, SMT
        <5>2. remaining'[j] = remaining[j]
          BY <1>1, <3>1, <4>2, <4>4, SMT DEF TypeOK
        <5>3. made' = made /\ closed' = closed /\ cached'.client # j
          BY <3>1, <4>2, Zenon
        <5>4. ~Stored(j)
          BY <4>4, Zenon DEF Stored
        <5> HIDE DEF k, old
        <5> QED
          BY <4>1, <4>2, <5>1, <5>2, <5>3, <5>4, SMT DEF Safe, Stored
      <4> QED
        BY <4>3, <4>4
    <3> QED
      BY <3>3, <3>4
  <2> QED
    BY <1>5, <2>1, <2>2, <2>3 DEF GetClient
<1>6. ASSUME NEW k \in Client, Close(k) PROVE Safe(h)'
  <2>1. /\ k \in sleeping /\ remaining[k] = 0
        /\ sleeping' = sleeping \ {k} /\ closed' = closed \cup {k}
        /\ UNCHANGED <<cached, made, pc, got, held, remaining>>
    BY <1>6, Zenon DEF Close, callerVars
  <2>2. pc[h] = "done" /\ Safe(h) /\ held[h] \in Nat
    BY <1>1, <2>1, SMT DEF TypeOK, Sleep
  <2> QED
    BY <2>1, <2>2, SMT DEF Safe, Stored, Sleep
<1> QED
  BY <1>3, <1>4, <1>5, <1>6 DEF Next

\* A step keeps what callers read true of the configuration until it changes.
LEMMA ReadingStep ==
  ASSUME IInv, [Next]_vars
  PROVE  ReadingKept' /\ ServesCurrentTarget'
<1> USE BufferAssumption
<1>1. TypeOK /\ ReadingKept /\ ServesCurrentTarget
  BY Zenon DEF IInv
<1>2. changes \in Nat
  BY <1>1, SMT DEF TypeOK
<1>3. CASE UNCHANGED vars \/ Tick
  <2>1. UNCHANGED <<config, changes, pc, read, readAt, got>>
    BY <1>3, Zenon DEF vars, callerVars, closeVars, Tick
  <2> QED
    BY <1>1, <2>1, Zenon DEF ReadingKept, ServesCurrentTarget
<1>4. CASE Change
  <2>1. changes' = changes + 1 /\ UNCHANGED <<pc, read, readAt, got>>
    BY <1>4, Zenon DEF Change, callerVars
  <2>2. \A g \in Caller : readAt[g] \in Nat /\ readAt[g] <= changes
    BY <1>1, SMT DEF TypeOK, ReadingKept
  <2>3. \A g \in Caller : readAt'[g] <= changes' /\ readAt'[g] # changes'
    BY <1>2, <2>1, <2>2, SMT
  <2>4. \A g \in Caller : pc'[g] \in {"refresh", "made"} => read'[g].target # NoTarget
    BY <1>1, <2>1, Zenon DEF ReadingKept
  <2> QED
    BY <2>3, <2>4, Zenon DEF ReadingKept, ServesCurrentTarget
<1>5. ASSUME NEW g \in Caller, GetClient(g) \/ Release(g)
      PROVE  ReadingKept' /\ ServesCurrentTarget'
  <2>1. CASE ReadConfig(g)
    BY <1>1, <1>2, <2>1, SMT DEF ReadConfig, TypeOK, ReadingKept, ServesCurrentTarget
  <2>2. CASE Lookup(g)
    <3>1. pc[g] = "read" /\ UNCHANGED <<config, changes, read, readAt>>
      BY <2>2, Zenon DEF Lookup
    <3>2. CASE Fail(g)
      BY <1>1, <3>1, <3>2, SMT DEF Fail, TypeOK, ReadingKept, ServesCurrentTarget
    <3>3. CASE pc' = [pc EXCEPT ![g] = "refresh"] /\ UNCHANGED got
               /\ read[g].target # NoTarget
      BY <1>1, <3>1, <3>3, SMT DEF TypeOK, ReadingKept, ServesCurrentTarget
    <3>4. CASE Return(g, cached) /\ read[g].target \in {NoTarget, cached.target}
      BY <1>1, <3>1, <3>4, SMT DEF Return, TypeOK, ReadingKept, ServesCurrentTarget
    <3>5. CASE /\ read[g].target # NoTarget
               /\ pc' = [pc EXCEPT ![g] = "refresh"]
               /\ UNCHANGED <<got, held>>
      BY <3>3, <3>5
    <3> QED
      BY <2>2, <3>2, <3>4, <3>5, LookupCases, Zenon
  <2>3. CASE NewClient(g) \/ NewClientFails(g) \/ Release(g)
    <3>1. /\ UNCHANGED <<config, changes, read, readAt>>
          /\ \A h \in Caller \ {g} : pc'[h] = pc[h] /\ got'[h] = got[h]
      BY <1>1, <2>3, SMT DEF NewClient, NewClientFails, Fail, Release, TypeOK
    <3>2. \/ pc[g] = "refresh" /\ pc'[g] = "made"
          \/ pc'[g] = "idle"
      BY <1>1, <2>3, SMT DEF NewClient, NewClientFails, Fail, Release, TypeOK
    <3> QED
      BY <1>1, <3>1, <3>2, SMT DEF ReadingKept, ServesCurrentTarget
  <2>4. CASE Swap(g)
    <3>1. /\ got' = [got EXCEPT ![g] = cached'] /\ cached'.target = read[g].target
          /\ pc' = [pc EXCEPT ![g] = "done"] /\ pc[g] = "made"
          /\ UNCHANGED <<config, changes, read, readAt>>
      BY <1>1, <2>4, SwapEffect, Zenon
    <3> QED
      BY <1>1, <3>1, SMT DEF TypeOK, ReadingKept, ServesCurrentTarget
  <2> QED
    BY <1>5, <2>1, <2>2, <2>3, <2>4 DEF GetClient
<1>6. ASSUME NEW k \in Client, Close(k) PROVE ReadingKept' /\ ServesCurrentTarget'
  <2>1. UNCHANGED <<config, changes, pc, read, readAt, got>>
    BY <1>6, Zenon DEF Close, callerVars
  <2> QED
    BY <1>1, <2>1, Zenon DEF ReadingKept, ServesCurrentTarget
<1> QED
  BY <1>3, <1>4, <1>5, <1>6 DEF Next

-----------------------------------------------------------------------------

\* Before anybody calls GetClient, IInv holds: there is no client yet.
LEMMA InitIInv == Init => IInv
<1> SUFFICES ASSUME Init PROVE IInv
  OBVIOUS
<1> USE BufferAssumption
<1>1. TypeOK
  BY SMT DEF Init, TypeOK, Reading, Sleep, NoContext, Client
<1>2. /\ made = <<>> /\ cached.client = 0 /\ sleeping = {} /\ closed = {}
      /\ \A g \in Caller : pc[g] = "idle" /\ readAt[g] = 0
      /\ changes = 0
  BY SMT DEF Init, NoContext
<1>3. Len(made) = 0
  BY <1>2, SMT
<1>4. Numbered /\ Lifecycle
  BY <1>2, <1>3, SMT DEF Numbered, Lifecycle
<1>5. GraceKept /\ ReadingKept /\ ServesCurrentTarget
  BY <1>2, SMT DEF GraceKept, ReadingKept, ServesCurrentTarget
<1> QED
  BY <1>1, <1>4, <1>5 DEF IInv

\* The inductive invariant of GetClient: every client is in one place, callers are
\* safe, and what they read is true until the configuration changes.
THEOREM Invariance == Spec => []IInv
<1>1. IInv /\ [Next]_vars => IInv'
  BY TypeStep, LifecycleStep, GraceStep, ReadingStep, Zenon DEF IInv
<1> QED
  BY InitIInv, <1>1, PTL DEF Spec

\* A stored context always has a client, a target and a sleep of at most a minute,
\* and clients and sleeps keep their ranges (client_buffer.go:33-41, 106-109).
THEOREM TypeCorrect == Spec => []TypeOK
<1>1. IInv => TypeOK
  BY DEF IInv
<1> QED
  BY Invariance, <1>1, PTL

\* Whoever calls GetClient at the same time, every client made is stored, about to
\* be stored, being closed or closed, and in one of these places only: none is
\* leaked, none is closed twice or while it is the one handed out.
THEOREM ClientsAccounted == Spec => []Lifecycle
<1>1. IInv => Lifecycle
  BY DEF IInv
<1> QED
  BY Invariance, <1>1, PTL

\* A client is closed under a caller only after the caller has had it for as long
\* as the timeout it was stored with, however timeouts and targets change.
THEOREM GraceHolds == Spec => []GracePeriod
<1>1. IInv => GracePeriod
  BY Zenon DEF IInv, GraceKept, GracePeriod
<1> QED
  BY Invariance, <1>1, PTL

\* A call that found a target, with no change of the configuration since, returns a
\* client that was stored under that target.
THEOREM CurrentTargetServed == Spec => []ServesCurrentTarget
<1>1. IInv => ServesCurrentTarget
  BY DEF IInv
<1> QED
  BY Invariance, <1>1, PTL
=============================================================================
