---------------------------- MODULE ClientBuffer ----------------------------
(***************************************************************************)
(* Package client/buffer: ClientBuffer.GetClient for one client name, used *)
(* by client/gorm and client/redis.  Callers run GetClient concurrently    *)
(* while the client configuration changes; a client that was replaced is   *)
(* closed by a goroutine that first sleeps for the request timeout.        *)
(*                                                                         *)
(* Clients are numbered in the order newer made them; a configuration is a *)
(* target and a timeout in ticks.  Time is what the sleeping goroutines    *)
(* still have to wait and, for a caller, how long it has had its client.   *)
(***************************************************************************)
EXTENDS Naturals, Sequences

CONSTANTS
  Caller,        \* goroutines that call GetClient
  Target,        \* the non-empty targets of the configuration
  NoTarget,      \* no configuration for the name, or one without a target
  Timeout,       \* the timeouts a configuration may have, in ticks
  MaxTimeout,    \* one minute: the longest sleep before closing
  MaxChanges,    \* bound on configuration changes
  MaxClients     \* bound on clients made

ASSUME BufferAssumption ==
  /\ NoTarget \notin Target
  /\ Timeout \subseteq Nat /\ Timeout # {}
  /\ MaxTimeout \in Nat /\ MaxChanges \in Nat /\ MaxClients \in Nat

VARIABLES
  config,        \* client.Config(name): target and timeout
  changes,       \* number of configuration changes so far
  cached,        \* b.clients[name]: a clientContext, client 0 when there is none
  made,          \* made[k]: the target client k was made for, by newer
  pc,            \* where each caller is in GetClient
  read,          \* read[g]: target and timeout g read from the configuration
  readAt,        \* readAt[g]: the value of changes when it did
  newClient,     \* newClient[g]: the client g made and has yet to store
  got,           \* got[g]: the clientContext g was given its client from
  held,          \* held[g]: ticks since then, counted up to MaxTimeout
  sleeping,      \* clients replaced and not yet closed
  remaining,     \* remaining[k]: ticks before the goroutine closing k wakes up
  closed         \* clients that were closed

callerVars == <<pc, read, readAt, newClient, got, held>>
closeVars  == <<sleeping, remaining, closed>>
vars == <<config, changes, cached, made, callerVars, closeVars>>

Smaller(m, n) == IF m <= n THEN m ELSE n

Sleep   == 0 .. MaxTimeout
Client  == 1 .. MaxClients
Config  == [target : Target \cup {NoTarget}, timeout : Timeout]
Reading == [target : Target \cup {NoTarget}, timeout : Sleep]
Context == [client : Client, target : Target, timeout : Sleep]
NoContext == [client |-> 0, target |-> NoTarget, timeout |-> 0]

Init ==
  /\ config \in Config /\ changes = 0
  /\ cached = NoContext
  /\ made = <<>>
  /\ pc = [g \in Caller |-> "idle"]
  /\ read = [g \in Caller |-> [target |-> NoTarget, timeout |-> 0]]
  /\ readAt = [g \in Caller |-> 0]
  /\ newClient = [g \in Caller |-> 0]
  /\ got = [g \in Caller |-> NoContext]
  /\ held = [g \in Caller |-> 0]
  /\ sleeping = {} /\ closed = {}
  /\ remaining = [k \in Client |-> 0]

-----------------------------------------------------------------------------
(* The environment: the configuration changes, and time passes.            *)

Change ==
  /\ changes < MaxChanges
  /\ changes' = changes + 1
  /\ config' \in Config \ {config}
  /\ UNCHANGED <<cached, made, callerVars, closeVars>>

Tick ==
  /\ held' = [g \in Caller |->
                IF pc[g] = "done" THEN Smaller(held[g] + 1, MaxTimeout) ELSE 0]
  /\ remaining' = [k \in Client |->
                     IF remaining[k] > 0 THEN remaining[k] - 1 ELSE 0]
  /\ UNCHANGED <<config, changes, cached, made, pc, read, readAt, newClient, got,
                 sleeping, closed>>

-----------------------------------------------------------------------------
(* GetClient.                                                              *)

\* Mutant: the timeout is taken as it is configured.
ReadConfigUncapped(g) ==
  /\ pc[g] = "idle"
  /\ pc' = [pc EXCEPT ![g] = "read"]
  /\ read' = [read EXCEPT ![g] = config]
  /\ readAt' = [readAt EXCEPT ![g] = changes]
  /\ UNCHANGED <<config, changes, cached, made, newClient, got, held, closeVars>>

\* getClientTarget: the timeout is cut down to one minute.
ReadConfig(g) ==
  /\ pc[g] = "idle"
  /\ pc' = [pc EXCEPT ![g] = "read"]
  /\ read' = [read EXCEPT
                ![g] = [target  |-> config.target,
                        timeout |-> Smaller(config.timeout, MaxTimeout)]]
  /\ readAt' = [readAt EXCEPT ![g] = changes]
  /\ UNCHANGED <<config, changes, cached, made, newClient, got, held, closeVars>>

\* Return with the client of a context; the caller starts to use it.
Return(g, context) ==
  /\ pc' = [pc EXCEPT ![g] = "done"]
  /\ got' = [got EXCEPT ![g] = context]
  /\ held' = [held EXCEPT ![g] = 0]

Fail(g) ==
  /\ pc' = [pc EXCEPT ![g] = "idle"]
  /\ UNCHANGED <<got, held>>

\* Mutant: a stored client serves whatever target it was stored under.
LookupAny(g) ==
  /\ pc[g] = "read"
  /\ \/ cached # NoContext /\ Return(g, cached)
     \/ cached = NoContext /\ read[g].target = NoTarget /\ Fail(g)
     \/ /\ cached = NoContext /\ read[g].target # NoTarget
        /\ pc' = [pc EXCEPT ![g] = "refresh"]
        /\ UNCHANGED <<got, held>>
  /\ UNCHANGED <<config, changes, cached, made, read, readAt, newClient, closeVars>>

\* Without a target the previous client serves; with one it serves only if it
\* was stored under the same target.
Lookup(g) ==
  /\ pc[g] = "read"
  /\ LET usable == cached # NoContext /\ read[g].target \in {NoTarget, cached.target}
     IN \/ usable /\ Return(g, cached)
        \/ ~usable /\ read[g].target = NoTarget /\ Fail(g)
        \/ /\ ~usable /\ read[g].target # NoTarget
           /\ pc' = [pc EXCEPT ![g] = "refresh"]
           /\ UNCHANGED <<got, held>>
  /\ UNCHANGED <<config, changes, cached, made, read, readAt, newClient, closeVars>>

\* b.newer(name, opts...): it is given the name, not the target, and reads the
\* configuration of that name itself.
NewClient(g) ==
  /\ pc[g] = "refresh"
  /\ Len(made) < MaxClients
  /\ made' = Append(made, config.target)
  /\ newClient' = [newClient EXCEPT ![g] = Len(made) + 1]
  /\ pc' = [pc EXCEPT ![g] = "made"]
  /\ UNCHANGED <<config, changes, cached, read, readAt, got, held, closeVars>>

NewClientFails(g) ==
  /\ pc[g] = "refresh"
  /\ Fail(g)
  /\ UNCHANGED <<config, changes, cached, made, read, readAt, newClient, closeVars>>

\* A goroutine that closes the client of context after its own timeout.
Retire(context) ==
  IF context = NoContext THEN UNCHANGED <<sleeping, remaining>>
  ELSE /\ sleeping' = sleeping \cup {context.client}
       /\ remaining' = [remaining EXCEPT ![context.client] = context.timeout]

\* Mutant: the caller that lost the race keeps what the other one stored and
\* forgets the client it made.
SwapForgets(g) ==
  /\ pc[g] = "made"
  /\ LET context == [client  |-> newClient[g],
                     target  |-> read[g].target,
                     timeout |-> read[g].timeout]
     IN IF cached.target = read[g].target
        THEN UNCHANGED <<cached, sleeping, remaining>> /\ Return(g, cached)
        ELSE cached' = context /\ Return(g, context) /\ Retire(cached)
  /\ newClient' = [newClient EXCEPT ![g] = 0]
  /\ UNCHANGED <<config, changes, made, read, readAt, closed>>

\* Mutant: the replaced client sleeps for the timeout of the new one.
SwapNewTimeout(g) ==
  /\ pc[g] = "made"
  /\ LET context == [client  |-> newClient[g],
                     target  |-> read[g].target,
                     timeout |-> read[g].timeout]
     IN /\ cached' = context /\ Return(g, context)
        /\ Retire(IF cached = NoContext THEN NoContext
                  ELSE [cached EXCEPT !.timeout = read[g].timeout])
  /\ newClient' = [newClient EXCEPT ![g] = 0]
  /\ UNCHANGED <<config, changes, made, read, readAt, closed>>

\* b.clients.Swap: the new context replaces whatever is stored by now.
Swap(g) ==
  /\ pc[g] = "made"
  /\ LET context == [client  |-> newClient[g],
                     target  |-> read[g].target,
                     timeout |-> read[g].timeout]
     IN cached' = context /\ Return(g, context)
  /\ Retire(cached)
  /\ newClient' = [newClient EXCEPT ![g] = 0]
  /\ UNCHANGED <<config, changes, made, read, readAt, closed>>

\* The caller is through with the client it was given.
Release(g) ==
  /\ pc[g] = "done"
  /\ pc' = [pc EXCEPT ![g] = "idle"]
  /\ got' = [got EXCEPT ![g] = NoContext]
  /\ held' = [held EXCEPT ![g] = 0]
  /\ UNCHANGED <<config, changes, cached, made, read, readAt, newClient, closeVars>>

\* Mutant: the client is closed only once no caller uses it any more.
CloseUnused(k) ==
  /\ k \in sleeping /\ remaining[k] = 0
  /\ \A g \in Caller : got[g].client # k
  /\ sleeping' = sleeping \ {k}
  /\ closed' = closed \cup {k}
  /\ UNCHANGED <<config, changes, cached, made, callerVars, remaining>>

\* b.closer: an error is only logged, the client is given up all the same.
Close(k) ==
  /\ k \in sleeping /\ remaining[k] = 0
  /\ sleeping' = sleeping \ {k}
  /\ closed' = closed \cup {k}
  /\ UNCHANGED <<config, changes, cached, made, callerVars, remaining>>

GetClient(g) ==
  ReadConfig(g) \/ Lookup(g) \/ NewClient(g) \/ NewClientFails(g) \/ Swap(g)

Next ==
  \/ Change \/ Tick
  \/ \E g \in Caller : GetClient(g) \/ Release(g)
  \/ \E k \in Client : Close(k)

Spec == Init /\ [][Next]_vars

\* Time passes, and a goroutine whose sleep is over closes its client.  Nothing
\* is assumed of the callers: they may keep a client for ever.
FairSpec ==
  /\ Spec
  /\ WF_vars(Tick)
  /\ \A k \in Client : WF_vars(Close(k))

-----------------------------------------------------------------------------
(* Properties.                                                             *)

\* Every variable keeps its type: a stored context has a client and a target.
TypeOK ==
  /\ config \in Config /\ changes \in 0 .. MaxChanges
  /\ cached \in Context \cup {NoContext}
  /\ made \in Seq(Target \cup {NoTarget}) /\ Len(made) <= MaxClients
  /\ pc \in [Caller -> {"idle", "read", "refresh", "made", "done"}]
  /\ read \in [Caller -> Reading] /\ readAt \in [Caller -> Nat]
  /\ newClient \in [Caller -> Client \cup {0}]
  /\ got \in [Caller -> Context \cup {NoContext}]
  /\ held \in [Caller -> Sleep]
  /\ sleeping \subseteq Client /\ closed \subseteq Client
  /\ remaining \in [Client -> Sleep]

\* Where client k is: stored, being closed, closed, or about to be stored.
Stored(k) == cached.client = k
Pending(g, k) == pc[g] = "made" /\ newClient[g] = k

\* Every client made is in exactly one place: none is lost without being closed
\* (a leaked connection pool), none is closed while it is the one handed out,
\* none is closed twice, whatever callers refresh at the same time
\* (client_buffer.go:81-95).
Lifecycle ==
  /\ \A k \in 1 .. Len(made) :
       \/ Stored(k) \/ k \in sleeping \/ k \in closed
       \/ \E g \in Caller : Pending(g, k)
  /\ sleeping \cap closed = {}
  /\ cached.client \notin sleeping \cup closed
  /\ \A g \in Caller : pc[g] = "made" =>
       /\ newClient[g] \in 1 .. Len(made)
       /\ ~Stored(newClient[g]) /\ newClient[g] \notin sleeping \cup closed
       /\ \A h \in Caller \ {g} : ~Pending(h, newClient[g])

\* A caller keeps the client it was given open for at least the timeout that
\* client was stored with: client_buffer.go:87 sleeps before it closes, so that
\* requests under way at the replacement can end.
GracePeriod ==
  \A g \in Caller :
    pc[g] = "done" /\ got[g].client \in closed => held[g] >= got[g].timeout

\* A call during which the configuration did not change, and which found a
\* target, returns a client stored under that target (client_buffer.go:62-68).
ServesCurrentTarget ==
  \A g \in Caller :
    pc[g] = "done" /\ readAt[g] = changes /\ config.target # NoTarget
      => got[g].target = config.target

\* client_buffer.go:1: the buffer gives clients without dynamic update a dynamic
\* update: such a call returns a client made for the target configured.
FollowsConfig ==
  \A g \in Caller :
    pc[g] = "done" /\ readAt[g] = changes /\ config.target # NoTarget
      => made[got[g].client] = config.target

\* A replaced client is closed in the end.
ReplacedIsClosed == \A k \in Client : k \in sleeping ~> k \in closed
=============================================================================
