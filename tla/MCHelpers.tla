----------------------------- MODULE MCHelpers ------------------------------
(***************************************************************************)
(* One TLC instance of the components that share no state with any other:  *)
(* errs, log, concurrent with recovery, config/etcd and client/localcache. *)
(* As none reads what another writes, the steps of one leave a behaviour   *)
(* of another as it was: it is enough to run them one at a time, and `part`*)
(* says which one a behaviour runs.                                        *)
(***************************************************************************)
EXTENDS ErrToCode, Logger, Detach, EtcdClientProvider, LocalCacheTTL, TLC

CONSTANTS t1, t2, t3, callback1, callback2, p1, p2, s1, s2, s3

VARIABLE part

\* Two calls of Detach pass the same options, a third one others, with a context of
\* their own, nil and a second callback among them.
MCGiven ==
  LET Option(kind, arg) == [kind |-> kind, arg |-> arg]
      shared == <<Option("errorLog", None), Option("callback", callback1),
                  Option("metrics", callback1)>>
  IN t1 :> shared @@ t2 :> shared
       @@ t3 :> <<Option("context", Outer), Option("callback", callback1),
                  Option("nil", None), Option("callback", callback2)>>

\* Both providers name s2, which p2 leaves out later, and each has a service of its own.
\* The second version of p1 cannot be set up.
MCMaxUpdate == p1 :> 3 @@ p2 :> 2
MCLists == p1 :> [v \in 1 .. 3 |-> {s1, s2}]
             @@ p2 :> [v \in 1 .. 2 |-> IF v = 2 THEN {s3} ELSE {s2, s3}]
MCRejected == p1 :> {2} @@ p2 :> {}

errVars == vars

HelpersInit ==
  /\ part \in {"errs", "log", "detach", "etcd", "ttl"}
  /\ LogInit /\ EtcdInit /\ TtlInit
  /\ DetachInit /\ (part # "detach" => ~spare)
  /\ Init /\ (part # "errs" => shape = <<>> /\ rsp = <<>> /\ cause = NoError /\ setter = "none")

HelpersNext ==
  \/ /\ part = "errs" /\ Next
     /\ UNCHANGED <<part, logVars, detachVars, etcdVars, ttlVars>>
  \/ /\ part = "log" /\ LogNext
     /\ UNCHANGED <<part, errVars, detachVars, etcdVars, ttlVars>>
  \/ /\ part = "detach" /\ DetachNext
     /\ UNCHANGED <<part, errVars, logVars, etcdVars, ttlVars>>
  \/ /\ part = "etcd" /\ EtcdNext
     /\ UNCHANGED <<part, errVars, logVars, detachVars, ttlVars>>
  \/ /\ part = "ttl" /\ TtlNext
     /\ UNCHANGED <<part, errVars, logVars, detachVars, etcdVars>>

HelpersSpec ==
  /\ HelpersInit
  /\ [][HelpersNext]_<<part, errVars, logVars, detachVars, etcdVars, ttlVars>>
  /\ EtcdFairness

\* Every variable of these components but errs keeps its type.
HelpersTypeOK == LogTypeOK /\ DetachTypeOK /\ EtcdTypeOK
=============================================================================
