---------------------------- MODULE HelpersProofs ---------------------------
(***************************************************************************)
(* Proofs about EtcdClientProvider, for any providers, services, versions  *)
(* and configurations: the global configuration is always one that could   *)
(* be set up, an update nobody overlapped leaves it in step with the       *)
(* clients, and updates that overlap leave each provider its own clients.  *)
(* At the end, that MCHelpers runs each of its components as the           *)
(* component's own specification does.                                     *)
(***************************************************************************)
EXTENDS MCHelpers, ConcurrentProofs

InSetup(p) == provider[p] = "setup"

\* What is being set up are services of a version there is, and one that will be
\* rejected never gets through them.
SetupStands ==
  \A p \in Provider : InSetup(p) =>
    /\ given[p] \in Update(p) /\ left[p] \subseteq Lists[p][given[p]]
    /\ given[p] \in Rejected[p] => left[p] # {}

\* While an update is alone no other provider is in its setup, and what it has
\* registered stays registered.
AloneIsAlone ==
  \A p \in Provider : InSetup(p) /\ alone[p] =>
    /\ \A q \in Provider : InSetup(q) => q = p
    /\ \A s \in Lists[p][given[p]] \ left[p] : registered[s] = Config(p)

\* What a provider has registered of its own clients stays registered, during its setup
\* and after.
Kept(p) == Lists[p][given[p]] \cap OnlyOf(p)
OwnStay ==
  \A p \in Provider :
    /\ InSetup(p) => \A s \in Kept(p) \ left[p] : registered[s] = Config(p)
    /\ provider[p] = "waiting" /\ given[p] \notin Rejected[p]
         => \A s \in Kept(p) : registered[s] = Config(p)

IInv ==
  EtcdTypeOK /\ SetupStands /\ AloneIsAlone /\ OwnStay /\ GlobalWasAccepted /\ InStep

-----------------------------------------------------------------------------
(* The first state.                                                        *)

\* The file of the start has been set up and no provider has begun.
LEMMA InitInvariant == EtcdInit => IInv
<1> SUFFICES ASSUME EtcdInit PROVE IInv
  OBVIOUS
<1>1. \A p \in Provider : 1 \in Update(p)
  BY EtcdAssumption, SMT DEF Update
<1>2. EtcdTypeOK
  <2>1. File \in Configuration
    BY DEF File, Configuration
  <2>2. VersionsOK
    BY <1>1, SMT DEF EtcdInit, VersionsOK
  <2> QED
    BY <2>1, <2>2 DEF EtcdInit, EtcdTypeOK
<1>3. \A p \in Provider : ~InSetup(p)
  BY DEF EtcdInit, InSetup
<1>4. GlobalWasAccepted /\ InStep
  BY DEF EtcdInit, GlobalWasAccepted, InStep, Listed, File
<1>5. \A p \in Provider : provider[p] # "waiting"
  BY DEF EtcdInit
<1> QED
  BY <1>2, <1>3, <1>4, <1>5 DEF IInv, SetupStands, AloneIsAlone, OwnStay

-----------------------------------------------------------------------------
(* The steps.                                                              *)

\* A configuration of a provider is not the one of the file.
LEMMA ConfigIs ==
  ASSUME NEW p \in Provider
  PROVE  /\ Config(p) # File /\ Config(p).by = p /\ Config(p).version = given[p]
         /\ Listed(Config(p)) = Lists[p][given[p]]
<1>1. Config(p).by = p /\ Config(p).version = given[p] /\ File.by = FromFile
  BY DEF Config, File
<1>2. Config(p) # File
  BY <1>1, EtcdAssumption
<1> QED
  BY <1>1, <1>2, Zenon DEF Listed

\* The version an update begins with is one etcd has had.
LEMMA BeginUpdateVersions ==
  ASSUME VersionsOK, NEW p \in Provider, NEW v \in 1 .. atEtcd[p], BeginUpdate(p, v),
         opened' \in {opened, [opened EXCEPT ![p] = atEtcd[p]]}, stuck' = stuck
  PROVE  VersionsOK' /\ v \in Update(p)
<1>1. atEtcd[p] \in Update(p) /\ atEtcd[p] \in Nat /\ MaxUpdate[p] \in Nat
  BY EtcdAssumption DEF VersionsOK
<1>2. v \in Nat /\ v \in Update(p) /\ v \in 0 .. atEtcd[p] /\ atEtcd[p] \in 0 .. atEtcd[p]
  BY <1>1, SMT DEF Update
<1>3. atEtcd' = atEtcd /\ given' = [given EXCEPT ![p] = v]
  BY DEF BeginUpdate
<1>4. /\ given' \in [Provider -> Nat] /\ opened' \in [Provider -> Nat]
      /\ given'[p] = v /\ opened'[p] \in {opened[p], atEtcd[p]}
      /\ \A q \in Provider \ {p} : given'[q] = given[q] /\ opened'[q] = opened[q]
  BY <1>1, <1>2, <1>3, SMT DEF VersionsOK
<1>5. ASSUME NEW q \in Provider
      PROVE  {given'[q], opened'[q], stuck[q]} \subseteq 0 .. atEtcd[q]
  BY <1>2, <1>4, SMT DEF VersionsOK
<1> QED
  BY <1>2, <1>3, <1>4, <1>5, SMT DEF VersionsOK, Update

\* An update begins: nothing of it is registered yet, and it is alone if it is the only
\* one.
LEMMA BeginUpdateStep ==
  ASSUME IInv, NEW p \in Provider, NEW v \in Update(p), BeginUpdate(p, v),
         ~InSetup(p), VersionsOK', pushed' \in [Provider -> BOOLEAN]
  PROVE  IInv'
<1> USE DEF IInv
<1>1. /\ UNCHANGED <<atEtcd, registered, global, mixed>>
      /\ given' = [given EXCEPT ![p] = v]
      /\ provider' = [provider EXCEPT ![p] = "setup"]
      /\ left' = [left EXCEPT ![p] = Lists[p][v]]
      /\ alone' = [q \in Provider |-> q = p /\ \A r \in Provider \ {p} : provider[r] # "setup"]
  BY DEF BeginUpdate
<1>2. Lists[p][v] \subseteq Service
  BY EtcdAssumption
<1>3. /\ given'[p] = v /\ left'[p] = Lists[p][v] /\ InSetup(p)'
      /\ \A q \in Provider \ {p} : /\ given'[q] = given[q] /\ left'[q] = left[q]
                                   /\ InSetup(q)' <=> InSetup(q)
  BY <1>1 DEF EtcdTypeOK, VersionsOK, InSetup
<1>4. EtcdTypeOK'
  <2>1. /\ provider' \in [Provider -> {"new", "waiting", "setup"}]
        /\ left' \in [Provider -> SUBSET Service]
    BY <1>1, <1>2 DEF EtcdTypeOK
  <2>2. alone' \in [Provider -> BOOLEAN]
    BY <1>1
  <2> QED
    BY <1>1, <2>1, <2>2 DEF EtcdTypeOK
<1>5. SetupStands'
  <2>1. v \in Rejected[p] => Lists[p][v] # {}
    BY EtcdAssumption
  <2> QED
    BY <1>3, <2>1, SMT DEF SetupStands
<1>6. AloneIsAlone'
  <2> SUFFICES ASSUME NEW q \in Provider, alone'[q]
               PROVE  /\ \A r \in Provider : InSetup(r)' => r = q
                      /\ \A s \in Lists[q][given'[q]] \ left'[q] : registered'[s] = Config(q)'
    BY Zenon DEF AloneIsAlone
  <2>1. q = p /\ \A r \in Provider \ {p} : provider[r] # "setup"
    BY <1>1
  <2>2. \A r \in Provider : InSetup(r)' => r = q
    BY <1>3, <2>1, Zenon DEF InSetup
  <2>3. Lists[q][given'[q]] \ left'[q] = {}
    BY <1>3, <2>1
  <2> QED
    BY <2>2, <2>3
<1>7. GlobalWasAccepted' /\ InStep'
  BY <1>1, Zenon DEF GlobalWasAccepted, InStep, Listed
<1>8. OwnStay'
  <2>1. ASSUME NEW q \in Provider \ {p}
        PROVE  Kept(q)' = Kept(q) /\ Config(q)' = Config(q) /\ provider'[q] = provider[q]
    BY <1>1, <1>3 DEF Kept, OnlyOf, Config, EtcdTypeOK
  <2>2. Kept(p)' \ left'[p] = {} /\ provider'[p] # "waiting"
    BY <1>1, <1>3 DEF Kept, EtcdTypeOK
  <2> QED
    BY <1>1, <1>3, <2>1, <2>2, SMT DEF OwnStay, InSetup
<1> QED
  BY <1>4, <1>5, <1>6, <1>7, <1>8

\* Setting up clients leaves the versions as they are.
LEMMA SameVersions ==
  VersionsOK /\ UNCHANGED <<atEtcd, watchVars, given>> => VersionsOK'
  BY Zenon DEF VersionsOK, watchVars

\* A client is registered: clients and global configuration may now differ.
LEMMA RegisterClientStep ==
  ASSUME IInv, NEW p \in Provider, NEW s \in Service, RegisterClient(p, s)
  PROVE  IInv'
<1> USE DEF IInv
<1>1. /\ UNCHANGED <<atEtcd, provider, watchVars, given, pushed, global, alone>>
      /\ provider[p] = "setup" /\ s \in left[p]
      /\ given[p] \in Rejected[p] => left[p] # {s}
      /\ registered' = [registered EXCEPT ![s] = Config(p)]
      /\ left' = [left EXCEPT ![p] = @ \ {s}]
      /\ mixed' = TRUE
  BY DEF RegisterClient
<1>2. InSetup(p) /\ given[p] \in Update(p) /\ given[p] \in Nat
  BY <1>1, Zenon DEF InSetup, SetupStands, EtcdTypeOK, VersionsOK
<1>3. EtcdTypeOK'
  <2>1. Config(p) \in Configuration
    BY <1>2 DEF Config, Configuration
  <2>2. registered' \in [Service -> Configuration]
    BY <1>1, <2>1, Zenon DEF EtcdTypeOK
  <2>3. left' \in [Provider -> SUBSET Service]
    BY <1>1 DEF EtcdTypeOK
  <2> QED
    BY <1>1, <2>2, <2>3, SameVersions DEF EtcdTypeOK
<1>4. /\ left'[p] = left[p] \ {s} /\ registered'[s] = Config(p)
      /\ \A q \in Provider \ {p} : left'[q] = left[q]
      /\ \A t \in Service \ {s} : registered'[t] = registered[t]
      /\ \A q \in Provider : (InSetup(q)' <=> InSetup(q)) /\ Config(q)' = Config(q)
  BY <1>1 DEF EtcdTypeOK, InSetup, Config
<1>5. SetupStands'
  <2>1. given[p] \in Rejected[p] => left[p] \ {s} # {}
    BY <1>1
  <2> QED
    BY <1>1, <1>4, <2>1, SMT DEF SetupStands
<1>6. AloneIsAlone'
  <2> SUFFICES ASSUME NEW q \in Provider, InSetup(q), alone[q]
               PROVE  /\ \A r \in Provider : InSetup(r) => r = q
                      /\ \A t \in Lists[q][given[q]] \ left'[q] : registered'[t] = Config(q)
    <3>1. alone' = alone /\ given' = given
      BY <1>1
    <3> QED
      BY <1>4, <3>1, SMT DEF AloneIsAlone
  <2>1. \A r \in Provider : InSetup(r) => r = q
    BY DEF AloneIsAlone
  <2>2. q = p
    BY <1>2, <2>1
  <2>3. Lists[p][given[p]] \subseteq Service
    BY <1>2, EtcdAssumption
  <2>4. ASSUME NEW t \in Lists[p][given[p]] \ left'[p]
        PROVE  registered'[t] = Config(p)
    <3>1. CASE t = s
      BY <1>4, <3>1
    <3>2. CASE t # s
      <4>1. t \in Lists[p][given[p]] \ left[p] /\ t \in Service \ {s}
        BY <1>4, <2>3, <2>4, <3>2
      <4> QED
        BY <1>4, <2>2, <4>1, Zenon DEF AloneIsAlone
    <3> QED
      BY <3>1, <3>2
  <2> QED
    BY <2>1, <2>2, <2>4
<1>7. GlobalWasAccepted' /\ InStep'
  BY <1>1, Zenon DEF GlobalWasAccepted, InStep
<1>8. OwnStay'
  <2>1. \A q \in Provider : Kept(q)' = Kept(q) /\ provider'[q] = provider[q]
    BY <1>1, Zenon DEF Kept, OnlyOf
  <2>2. \A q \in Provider : Kept(q) \subseteq Service
    BY Zenon DEF Kept, OnlyOf
  <2>3. \A q \in Provider \ {p} : s \notin Kept(q)
    <3>1. s \in Lists[p][given[p]] /\ given[p] \in Update(p)
      BY <1>1, <1>2, Zenon DEF SetupStands
    <3> QED
      BY <3>1, Zenon DEF Kept, OnlyOf
  <2>4. ASSUME NEW q \in Provider, NEW t \in Kept(q), t # s
        PROVE  /\ InSetup(q) /\ t \notin left'[q] => registered'[t] = Config(q)
               /\ provider[q] = "waiting" /\ given[q] \notin Rejected[q]
                    => registered'[t] = Config(q)
    <3>1. registered'[t] = registered[t] /\ (t \in left[q] => t \in left'[q])
      BY <1>4, <2>2, <2>4
    <3> QED
      BY <3>1, Zenon DEF OwnStay
  <2>5. provider[p] # "waiting"
    BY <1>1
  <2> QED
    BY <1>1, <1>4, <2>1, <2>3, <2>4, <2>5, SMT DEF OwnStay
<1> QED
  BY <1>3, <1>5, <1>6, <1>7, <1>8

\* A setup that is done becomes the global configuration.
LEMMA SetGlobalConfigStep ==
  ASSUME IInv, NEW p \in Provider, SetGlobalConfig(p)
  PROVE  IInv'
<1> USE DEF IInv
<1>1. /\ UNCHANGED <<atEtcd, watchVars, given, pushed, left, registered, alone>>
      /\ provider[p] = "setup" /\ left[p] = {}
      /\ provider' = [provider EXCEPT ![p] = "waiting"]
      /\ global' = Config(p) /\ mixed' = ~alone[p]
  BY DEF SetGlobalConfig
<1>2. InSetup(p) /\ given[p] \in Update(p) /\ given[p] \in Nat /\ given[p] \notin Rejected[p]
  BY <1>1, Zenon DEF InSetup, SetupStands, EtcdTypeOK, VersionsOK
<1>3. EtcdTypeOK'
  <2>1. Config(p) \in Configuration
    BY <1>2 DEF Config, Configuration
  <2> QED
    BY <1>1, <2>1, SameVersions DEF EtcdTypeOK
<1>4. \A q \in Provider : InSetup(q)' => InSetup(q)
  BY <1>1 DEF EtcdTypeOK, InSetup
<1>5. SetupStands'
  BY <1>1, <1>4, Zenon DEF SetupStands
<1>6. AloneIsAlone'
  BY <1>1, <1>4, Zenon DEF AloneIsAlone, Config
<1>7. GlobalWasAccepted'
  BY <1>1, <1>2, ConfigIs, Zenon DEF GlobalWasAccepted
<1>8. InStep'
  <2> SUFFICES ASSUME ~mixed', NEW s \in Listed(global')
               PROVE  registered'[s] = global'
    BY Zenon DEF InStep, Listed
  <2>1. alone[p]
    BY <1>1
  <2>2. s \in Lists[p][given[p]] \ left[p]
    BY <1>1, ConfigIs
  <2> QED
    BY <1>1, <1>2, <2>1, <2>2, Zenon DEF AloneIsAlone
<1>9. OwnStay'
  <2>1. /\ \A q \in Provider : Kept(q)' = Kept(q) /\ Config(q)' = Config(q)
        /\ \A q \in Provider \ {p} : provider'[q] = provider[q]
    BY <1>1 DEF Kept, OnlyOf, Config, EtcdTypeOK
  <2>2. \A t \in Kept(p) : registered[t] = Config(p)
    BY <1>1, <1>2 DEF OwnStay
  <2> QED
    BY <1>1, <1>4, <2>1, <2>2, SMT DEF OwnStay
<1> QED
  BY <1>3, <1>5, <1>6, <1>7, <1>8, <1>9

\* A setup that failed leaves everything as it is.
LEMMA SetupFailsStep ==
  ASSUME IInv, NEW p \in Provider, SetupFails(p)
  PROVE  IInv'
<1> USE DEF IInv
<1>1. /\ UNCHANGED <<atEtcd, watchVars, given, pushed, left, registered, global, alone, mixed>>
      /\ provider' = [provider EXCEPT ![p] = "waiting"] /\ given[p] \in Rejected[p]
  BY DEF SetupFails
<1>2. EtcdTypeOK'
  BY <1>1, SameVersions DEF EtcdTypeOK
<1>3. \A q \in Provider : InSetup(q)' => InSetup(q)
  BY <1>1 DEF EtcdTypeOK, InSetup
<1>4. SetupStands' /\ AloneIsAlone'
  BY <1>1, <1>3, Zenon DEF SetupStands, AloneIsAlone, Config
<1>5. GlobalWasAccepted' /\ InStep'
  BY <1>1, Zenon DEF GlobalWasAccepted, InStep, Listed
<1>6. OwnStay'
  <2>1. /\ \A q \in Provider : Kept(q)' = Kept(q) /\ Config(q)' = Config(q)
        /\ \A q \in Provider \ {p} : provider'[q] = provider[q]
    BY <1>1 DEF Kept, OnlyOf, Config, EtcdTypeOK
  <2> QED
    BY <1>1, <1>3, <2>1, SMT DEF OwnStay
<1> QED
  BY <1>2, <1>4, <1>5, <1>6

\* A version is stored in etcd, which no provider knows yet.
LEMMA EtcdChangeStep ==
  ASSUME IInv, NEW p \in Provider, EtcdChange(p)
  PROVE  IInv'
<1> USE DEF IInv
<1>1. /\ UNCHANGED <<provider, watchVars, given, pushed, left, registered, global, alone, mixed>>
      /\ atEtcd' = [atEtcd EXCEPT ![p] = @ + 1] /\ atEtcd[p] < MaxUpdate[p]
  BY DEF EtcdChange
<1>2. EtcdTypeOK'
  <2>1. VersionsOK'
    <3>1. /\ VersionsOK /\ UNCHANGED <<given, opened, stuck>>
          /\ atEtcd[p] \in Nat /\ MaxUpdate[p] \in Nat /\ atEtcd[p] \in Update(p)
      BY <1>1, EtcdAssumption DEF EtcdTypeOK, VersionsOK, watchVars
    <3>2. atEtcd[p] + 1 \in Nat /\ atEtcd[p] + 1 \in Update(p)
      BY <1>1, <3>1, SMT DEF Update
    <3>3. /\ atEtcd' \in [Provider -> Nat] /\ atEtcd'[p] = atEtcd[p] + 1
          /\ \A q \in Provider \ {p} : atEtcd'[q] = atEtcd[q]
      BY <1>1, <3>1, <3>2 DEF VersionsOK
    <3>4. {given[p], opened[p], stuck[p]} \subseteq 0 .. atEtcd[p] + 1
      BY <3>1, SMT DEF VersionsOK
    <3> QED
      BY <3>1, <3>2, <3>3, <3>4, SMT DEF VersionsOK, Update
  <2> QED
    BY <1>1, <2>1 DEF EtcdTypeOK
<1>3. SetupStands' /\ AloneIsAlone' /\ OwnStay'
  <2>1. SetupStands' /\ AloneIsAlone'
    BY <1>1, Zenon DEF SetupStands, AloneIsAlone, Config, InSetup
  <2>2. OwnStay'
    BY <1>1, Zenon DEF OwnStay, Kept, OnlyOf, Config, InSetup
  <2> QED
    BY <2>1, <2>2
<1>4. GlobalWasAccepted' /\ InStep'
  BY <1>1, Zenon DEF GlobalWasAccepted, InStep, Listed
<1> QED
  BY <1>2, <1>3, <1>4

\* A dispatcher gets stuck, at the version etcd has.
LEMMA WriteToChanFullStep ==
  ASSUME IInv, NEW p \in Provider, WriteToChanFull(p)
  PROVE  IInv'
<1> USE DEF IInv
<1>1. /\ UNCHANGED <<atEtcd, provider, opened, given, pushed, left, registered, global, alone,
                     mixed>>
      /\ stuck' = [stuck EXCEPT ![p] = atEtcd[p]]
  BY DEF WriteToChanFull
<1>2. EtcdTypeOK'
  <2>1. VersionsOK'
    BY <1>1, SMT DEF EtcdTypeOK, VersionsOK, Update
  <2> QED
    BY <1>1, <2>1 DEF EtcdTypeOK
<1>3. SetupStands' /\ AloneIsAlone' /\ OwnStay'
  <2>1. SetupStands' /\ AloneIsAlone'
    BY <1>1, Zenon DEF SetupStands, AloneIsAlone, Config, InSetup
  <2>2. OwnStay'
    BY <1>1, Zenon DEF OwnStay, Kept, OnlyOf, Config, InSetup
  <2> QED
    BY <2>1, <2>2
<1>4. GlobalWasAccepted' /\ InStep'
  BY <1>1, Zenon DEF GlobalWasAccepted, InStep, Listed
<1> QED
  BY <1>2, <1>3, <1>4

\* Every action keeps the invariant.
LEMMA StepInvariant == IInv /\ [EtcdNext]_etcdVars => IInv'
<1> SUFFICES ASSUME IInv, [EtcdNext]_etcdVars PROVE IInv'
  OBVIOUS
<1>1. CASE UNCHANGED etcdVars
  <2>1. EtcdTypeOK'
    BY <1>1, Zenon DEF IInv, EtcdTypeOK, VersionsOK, etcdVars, watchVars
  <2>2. SetupStands' /\ AloneIsAlone'
    BY <1>1, Zenon DEF IInv, SetupStands, AloneIsAlone, InSetup, Config, etcdVars
  <2>3. OwnStay'
    BY <1>1, Zenon DEF IInv, OwnStay, Kept, OnlyOf, InSetup, Config, etcdVars
  <2>4. GlobalWasAccepted' /\ InStep'
    BY <1>1, Zenon DEF IInv, GlobalWasAccepted, InStep, Listed, etcdVars
  <2> QED
    BY <2>1, <2>2, <2>3, <2>4 DEF IInv
<1>2. ASSUME NEW p \in Provider, EtcdChange(p) PROVE IInv'
  BY <1>2, EtcdChangeStep
<1>3. ASSUME NEW p \in Provider, RegisterClientProvider(p) PROVE IInv'
  <2>1. PICK v \in 1 .. atEtcd[p] : BeginUpdate(p, v)
    BY <1>3 DEF RegisterClientProvider
  <2>2. /\ ~InSetup(p) /\ UNCHANGED <<stuck, pushed>>
        /\ opened' = [opened EXCEPT ![p] = atEtcd[p]]
    BY <1>3 DEF RegisterClientProvider, InSetup
  <2>3. VersionsOK' /\ v \in Update(p)
    BY <2>1, <2>2, BeginUpdateVersions DEF IInv, EtcdTypeOK
  <2> QED
    BY <2>1, <2>2, <2>3, BeginUpdateStep DEF IInv, EtcdTypeOK
<1>4. ASSUME NEW p \in Provider, WatchUpdate(p) PROVE IInv'
  <2>0. VersionsOK /\ pushed \in [Provider -> BOOLEAN]
    BY DEF IInv, EtcdTypeOK
  <2>1. PICK v \in 1 .. Carried(p) : BeginUpdate(p, v)
    BY <1>4 DEF WatchUpdate
  <2>2. /\ ~InSetup(p) /\ UNCHANGED <<opened, stuck>>
        /\ pushed' = [pushed EXCEPT ![p] = TRUE]
    BY <1>4 DEF WatchUpdate, InSetup, watchVars
  <2>3. v \in 1 .. atEtcd[p]
    BY <2>0, SMT DEF VersionsOK, Carried, Update
  <2>4. VersionsOK' /\ v \in Update(p)
    BY <2>0, <2>1, <2>2, <2>3, BeginUpdateVersions
  <2> QED
    BY <2>0, <2>1, <2>2, <2>4, BeginUpdateStep
<1>5. ASSUME NEW p \in Provider, SetupClients(p) PROVE IInv'
  BY <1>5, SetupFailsStep, SetGlobalConfigStep, RegisterClientStep, Zenon DEF SetupClients
<1>6. ASSUME NEW p \in Provider, WriteToChanFull(p) PROVE IInv'
  BY <1>6, WriteToChanFullStep
<1> QED
  BY <1>1, <1>2, <1>3, <1>4, <1>5, <1>6, Zenon DEF EtcdNext

-----------------------------------------------------------------------------
(* The theorems.                                                           *)

\* A rejected version never gets through its services, an update that began alone is
\* alone while its record of being so stands, and what it registered stays.
THEOREM Invariance == EtcdSpec => []IInv
  BY InitInvariant, StepInvariant, PTL DEF EtcdSpec

\* Every variable keeps its type.
THEOREM TypeCorrect == EtcdSpec => []EtcdTypeOK
<1>1. IInv => EtcdTypeOK
  BY DEF IInv
<1> QED
  BY <1>1, Invariance, PTL

\* However the setups of the providers interleave and fail, the global configuration is
\* never one that SetupClients fails on (etcd_client.go:49-55).
THEOREM GlobalAccepted == EtcdSpec => []GlobalWasAccepted
<1>1. IInv => GlobalWasAccepted
  BY DEF IInv
<1> QED
  BY <1>1, Invariance, PTL

\* After an update that no other overlapped, every client the global configuration names
\* is registered as it says, until the next registration (etcd_client.go:44-57).
THEOREM StaysInStep == EtcdSpec => []InStep
<1>1. IInv => InStep
  BY DEF IInv
<1> QED
  BY <1>1, Invariance, PTL

\* However updates overlap and fail, clients that only one provider names are registered
\* as its last update says, if that was accepted (etcd_client.go:44-57).
THEOREM OwnKept == EtcdSpec => []OwnClientsKept
<1>1. IInv => OwnClientsKept
  BY DEF IInv, OwnStay, OwnClientsKept, Kept
<1> QED
  BY <1>1, Invariance, PTL

-----------------------------------------------------------------------------
(* The components together.                                                *)

\* A behaviour of the joined specification is a behaviour of every component: whichever
\* part runs, the others stutter.  So what is proved of a component holds of the instance
\* TLC checks, and the join hides no step of a component.
THEOREM RunsEachPart == HelpersSpec => Spec /\ LogSpec /\ DetachSpec /\ EtcdSpec /\ TtlSpec
<1>1. HelpersInit => Init /\ LogInit /\ DetachInit /\ EtcdInit /\ TtlInit
  BY DEF HelpersInit
<1>2. [HelpersNext]_<<part, errVars, logVars, detachVars, etcdVars, ttlVars>>
        => /\ [Next]_vars /\ [LogNext]_logVars /\ [DetachNext]_detachVars
           /\ [EtcdNext]_etcdVars /\ [TtlNext]_ttlVars
  BY DEF HelpersNext, errVars
<1> QED
  BY <1>1, <1>2, PTL DEF HelpersSpec, Spec, LogSpec, DetachSpec, EtcdSpec, TtlSpec

\* Every variable of the log, of detached tasks and of config/etcd keeps its type.
THEOREM HelpersTypeCorrect == HelpersSpec => []HelpersTypeOK
<1>1. LogTypeOK /\ DetachTypeOK /\ EtcdTypeOK => HelpersTypeOK
  BY DEF HelpersTypeOK
<1> QED
  BY <1>1, RunsEachPart, LogTypeCorrect, DetachTypeCorrect, TypeCorrect, PTL
=============================================================================
