------------------------- MODULE EtcdClientProvider -------------------------
(***************************************************************************)
(* Package config/etcd: RegisterClientProvider keeps the client            *)
(* configuration of tRPC as it is under a key of etcd.  Every provider     *)
(* runs updateClientYAML in a goroutine of its own; what they update is    *)
(* the process's: the configuration each client is registered with, one    *)
(* service after the other, and then the global configuration.             *)
(*                                                                         *)
(* A configuration is the provider it came from and its version there.     *)
(* What a provider is given follows ConfigView, the promise of             *)
(* configutil.Watch, and so does what it may never be given: a version     *)
(* from before its subscription, and any that appears once the dispatcher  *)
(* of the key is stuck.  Versions that do not decode are left out.         *)
(***************************************************************************)
EXTENDS Naturals, FiniteSets

CONSTANTS
  Provider,      \* the keys given to RegisterClientProvider
  Service,       \* names of clients
  MaxUpdate,     \* MaxUpdate[p]: bound on the versions under key p
  Lists,         \* Lists[p][v]: the services that version v under key p names
  Rejected,      \* Rejected[p]: the versions SetupClients fails on
  FromFile       \* the configuration file the process started with

Update(p) == 1 .. MaxUpdate[p]

ASSUME EtcdAssumption ==
  /\ MaxUpdate \in [Provider -> Nat \ {0}] /\ FromFile \notin Provider
  /\ \A p \in Provider : /\ Lists[p] \in [Update(p) -> SUBSET Service]
                         /\ Rejected[p] \subseteq Update(p)
                         /\ \A v \in Rejected[p] : Lists[p][v] # {}

VARIABLES
  atEtcd,        \* atEtcd[p]: the version etcd has under key p
  provider,      \* provider[p]: "new", "waiting" for an update or in "setup"
  opened,        \* opened[p]: the version at which p was subscribed, 0 before
  stuck,         \* stuck[p]: the version at which p's dispatcher got stuck, or 0
  given,         \* given[p]: the version p was last given
  pushed,        \* pushed[p]: one of them came through the watch
  left,          \* left[p]: services SetupClients has yet to register
  registered,    \* registered[s]: the configuration client s is registered with
  global,        \* trpc.GlobalConfig().Client
  alone,         \* history: alone[p], no other provider was in its setup during p's
  mixed          \* history: clients registered since the last update made alone

watchVars == <<opened, stuck>>
etcdVars ==
  <<atEtcd, provider, watchVars, given, pushed, left, registered, global, alone, mixed>>

File == [by |-> FromFile, version |-> 0]
Listed(config) == IF config = File THEN Service ELSE Lists[config.by][config.version]

EtcdInit ==
  /\ atEtcd = [p \in Provider |-> 1]
  /\ provider = [p \in Provider |-> "new"]
  /\ opened = [p \in Provider |-> 0] /\ stuck = [p \in Provider |-> 0]
  /\ given = [p \in Provider |-> 0] /\ pushed = [p \in Provider |-> FALSE]
  /\ left = [p \in Provider |-> {}]
  /\ registered = [s \in Service |-> File] /\ global = File
  /\ alone = [p \in Provider |-> FALSE] /\ mixed = FALSE

-----------------------------------------------------------------------------

EtcdChange(p) ==
  /\ atEtcd[p] < MaxUpdate[p]
  /\ atEtcd' = [atEtcd EXCEPT ![p] = @ + 1]
  /\ UNCHANGED <<provider, watchVars, given, pushed, left, registered, global, alone, mixed>>

\* updateClientYAML begins; the copy it takes of the global configuration differs
\* from what it will store in the clients only.
BeginUpdate(p, v) ==
  /\ given' = [given EXCEPT ![p] = v]
  /\ provider' = [provider EXCEPT ![p] = "setup"]
  /\ left' = [left EXCEPT ![p] = Lists[p][v]]
  /\ alone' = [q \in Provider |->
                 q = p /\ \A r \in Provider \ {p} : provider[r] # "setup"]
  /\ UNCHANGED <<atEtcd, registered, global, mixed>>

\* RegisterClientProvider applies what configutil.Watch returned, which conf.Get read
\* some time before the subscription was opened; when that fails nothing has changed.
RegisterClientProvider(p) ==
  /\ provider[p] = "new"
  /\ \E v \in 1 .. atEtcd[p] : BeginUpdate(p, v)
  /\ opened' = [opened EXCEPT ![p] = atEtcd[p]]
  /\ UNCHANGED <<stuck, pushed>>

\* writeToChan finds a channel full and loops for ever: p is slow to set up clients,
\* or another consumer of the key does not read.
WriteToChanFull(p) ==
  /\ provider[p] # "new" /\ stuck[p] = 0
  /\ stuck' = [stuck EXCEPT ![p] = atEtcd[p]]
  /\ UNCHANGED <<atEtcd, provider, opened, given, pushed, left, registered, global, alone,
                 mixed>>

\* The last version that can still reach p.
Carried(p) == IF stuck[p] = 0 THEN atEtcd[p] ELSE stuck[p]

\* doWatch: the next update, perhaps a repeated one; the first may be older than
\* what Watch returned.
WatchUpdate(p) ==
  /\ provider[p] = "waiting"
  /\ \E v \in 1 .. Carried(p) :
       /\ pushed[p] => v >= given[p]
       /\ BeginUpdate(p, v)
  /\ pushed' = [pushed EXCEPT ![p] = TRUE]
  /\ UNCHANGED watchVars

Config(p) == [by |-> p, version |-> given[p]]

\* trpc.SetupClients registers one service (external: in turn, up to the one it
\* fails on).
RegisterClient(p, s) ==
  /\ provider[p] = "setup" /\ s \in left[p]
  /\ given[p] \in Rejected[p] => left[p] # {s}
  /\ registered' = [registered EXCEPT ![s] = Config(p)]
  /\ left' = [left EXCEPT ![p] = @ \ {s}]
  /\ mixed' = TRUE
  /\ UNCHANGED <<atEtcd, provider, watchVars, given, pushed, global, alone>>

\* Mutant: a failure is logged, and the configuration stored all the same.
SetupFailsStores(p) ==
  /\ provider[p] = "setup" /\ given[p] \in Rejected[p] /\ left[p] # {}
  /\ provider' = [provider EXCEPT ![p] = "waiting"]
  /\ global' = Config(p)
  /\ UNCHANGED <<atEtcd, watchVars, given, pushed, left, registered, alone, mixed>>

\* Mutant: the first failure ends doWatch.
SetupFailsStops(p) ==
  /\ provider[p] = "setup" /\ given[p] \in Rejected[p] /\ left[p] # {}
  /\ provider' = [provider EXCEPT ![p] = "stopped"]
  /\ UNCHANGED <<atEtcd, watchVars, given, pushed, left, registered, global, alone, mixed>>

\* SetupClients failed: logged and counted, what it registered stays.
SetupFails(p) ==
  /\ provider[p] = "setup" /\ given[p] \in Rejected[p] /\ left[p] # {}
  /\ provider' = [provider EXCEPT ![p] = "waiting"]
  /\ UNCHANGED <<atEtcd, watchVars, given, pushed, left, registered, global, alone, mixed>>

\* Mutant: the global configuration is stored while clients are yet to be registered.
SetGlobalConfigEarly(p) ==
  /\ provider[p] = "setup" /\ given[p] \notin Rejected[p]
  /\ provider' = [provider EXCEPT ![p] = "waiting"]
  /\ global' = Config(p)
  /\ mixed' = ~alone[p]
  /\ UNCHANGED <<atEtcd, watchVars, given, pushed, left, registered, alone>>

\* Mutant: the copy of the global configuration keeps its clients.
SetGlobalConfigStale(p) ==
  /\ provider[p] = "setup" /\ left[p] = {}
  /\ provider' = [provider EXCEPT ![p] = "waiting"]
  /\ mixed' = (mixed /\ ~alone[p])
  /\ UNCHANGED <<atEtcd, watchVars, given, pushed, left, registered, global, alone>>

\* trpc.SetGlobalConfig
SetGlobalConfig(p) ==
  /\ provider[p] = "setup" /\ left[p] = {}
  /\ provider' = [provider EXCEPT ![p] = "waiting"]
  /\ global' = Config(p)
  /\ mixed' = ~alone[p]
  /\ UNCHANGED <<atEtcd, watchVars, given, pushed, left, registered, alone>>

SetupClients(p) ==
  SetupFails(p) \/ SetGlobalConfig(p) \/ \E s \in Service : RegisterClient(p, s)

EtcdNext ==
  \E p \in Provider :
    \/ EtcdChange(p) \/ RegisterClientProvider(p) \/ WriteToChanFull(p)
    \/ WatchUpdate(p) \/ SetupClients(p)

\* The watch gives p what appeared after it was subscribed and is newer than what p has.
NewsArrives(p) ==
  /\ stuck[p] = 0
  /\ WatchUpdate(p)
  /\ given'[p] > opened[p] /\ given'[p] > given[p]

\* A provider's goroutine runs.  What appears after the subscription gets through the
\* watch, however often the source repeats itself, as long as the dispatcher is not
\* stuck: Delivered of ConfigWatch.  Nobody has to register a provider.
EtcdFairness ==
  \A p \in Provider : WF_etcdVars(SetupClients(p)) /\ SF_etcdVars(NewsArrives(p))

EtcdSpec == EtcdInit /\ [][EtcdNext]_etcdVars /\ EtcdFairness

-----------------------------------------------------------------------------
(* Properties.                                                             *)

Configuration == [by : Provider \cup {FromFile}, version : Nat]

VersionsOK ==
  /\ atEtcd \in [Provider -> Nat] /\ given \in [Provider -> Nat]
  /\ opened \in [Provider -> Nat] /\ stuck \in [Provider -> Nat]
  /\ \A p \in Provider : /\ atEtcd[p] \in Update(p)
                         /\ {given[p], opened[p], stuck[p]} \subseteq 0 .. atEtcd[p]

\* Every variable keeps its type, and no version runs ahead of etcd.
EtcdTypeOK ==
  /\ VersionsOK
  /\ provider \in [Provider -> {"new", "waiting", "setup"}]
  /\ pushed \in [Provider -> BOOLEAN] /\ left \in [Provider -> SUBSET Service]
  /\ registered \in [Service -> Configuration] /\ global \in Configuration
  /\ alone \in [Provider -> BOOLEAN] /\ mixed \in BOOLEAN

\* The global configuration is never one that could not be set up, though a
\* failing one leaves part of its clients registered (etcd_client.go:49-55).
GlobalWasAccepted ==
  global # File => global.version \notin Rejected[global.by]

\* An update that no other provider overlapped leaves clients and global
\* configuration in step, whatever raced or failed before it: every client the
\* global configuration names is registered as it says (etcd_client.go:44-57).
InStep ==
  ~mixed => \A s \in Listed(global) : registered[s] = global

\* The services no other provider names.
OnlyOf(p) ==
  {s \in Service : \A q \in Provider \ {p} : \A v \in Update(q) : s \notin Lists[q][v]}

\* Updates that overlap leave a provider its own clients: after one that was accepted,
\* those only it names are registered as it says, whatever the others set up, store or
\* fail on at the same time, until its next (etcd_client.go:44-57).
OwnClientsKept ==
  \A p \in Provider :
    provider[p] = "waiting" /\ given[p] \notin Rejected[p] =>
      \A s \in Lists[p][given[p]] \cap OnlyOf(p) : registered[s] = Config(p)

\* Clients that only one provider names are in the end registered as etcd has them,
\* though other providers rewrite the configuration meanwhile and versions before the
\* last could not be set up (etcd_client.go:44-71).  Two exceptions come with the watch:
\* a version no newer than the subscription need not be pushed (config.go:96-108), and
\* a stuck dispatcher pushes nothing more (config_watcher.go:69).
LatestTakesEffect ==
  \A p \in Provider :
    LET last == MaxUpdate[p]
        own == Lists[p][last] \cap OnlyOf(p)
    IN last \notin Rejected[p] =>
         (provider[p] # "new" /\ opened[p] < last /\ atEtcd[p] = last
            ~> \/ stuck[p] # 0
               \/ \A s \in own : registered[s] = [by |-> p, version |-> last])
=============================================================================
